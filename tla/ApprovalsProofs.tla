-------------------------- MODULE ApprovalsProofs --------------------------
(***************************************************************************)
(* What is proved of the parts that MCApprovals puts side by side, for     *)
(* every value of their constants: a confirmation token serves one attempt *)
(* while it is valid and confirms only its binding; a signing key that was *)
(* told stays; nothing refers to a project that is being or was deleted,   *)
(* and an item that a deletion left Unassigned stays so.                   *)
(***************************************************************************)
EXTENDS MCApprovals, FiniteSetTheorems, TLAPS

-----------------------------------------------------------------------------
(***************************************************************************)
(* Confirmation tokens.                                                    *)
(***************************************************************************)

\* A confirmed caller holds a token of its binding that has been used.  Were the use not part of
\* it, nothing would keep a second caller from spending the same token.
Confirmed(c) ==
  ctPc[c] = "confirmed" =>
    /\ ctIssued[token[c]].binding = binding[c]
    /\ ctIssued[token[c]].exp >= ctNow =>
         /\ ctUses[token[c]] >= 1
         /\ \A d \in Callers \ {c} : ctPc[d] = "confirmed" => token[d] # token[c]

TokensInv ==
  /\ Tokens!TypeOK
  /\ Tokens!OnceWhileValid
  /\ \A i \in Tokens!Ids : i > Len(ctIssued) => ctUses[i] = 0
  /\ \A c \in Callers : Confirmed(c)

LEMMA TokenOf ==
  ASSUME Tokens!TypeOK
  PROVE  /\ Len(ctIssued) \in Nat /\ Len(ctIssued) <= MaxTokens /\ MaxTokens \in Nat
         /\ \A i \in 1..Len(ctIssued) : ctIssued[i].exp \in Nat /\ i \in Tokens!Ids
         /\ ctNow \in Nat
<1>1. Len(ctIssued) \in Nat /\ Len(ctIssued) <= MaxTokens
  BY DEF Tokens!TypeOK
<1>2. MaxTokens \in Nat
  BY ApprovalsAssumption DEF Tokens!TokenAssumption
<1>3. ASSUME NEW i \in 1..Len(ctIssued) PROVE ctIssued[i].exp \in Nat
  <2> DEFINE S == [binding : Bindings, exp : Nat]
  <2>1. ctIssued \in Seq(S)
    BY DEF Tokens!TypeOK
  <2>2. \A t \in S : t.exp \in Nat
    OBVIOUS
  <2> HIDE DEF S
  <2>3. ctIssued[i] \in S
    BY <2>1
  <2> QED
    BY <2>2, <2>3
<1>4. ctNow \in Nat
  BY ApprovalsAssumption DEF Tokens!TypeOK, Tokens!TokenAssumption
<1> QED
  BY <1>1, <1>2, <1>3, <1>4 DEF Tokens!Ids

LEMMA TokensBegin ==
  ASSUME Tokens!Init
  PROVE  TokensInv
<1>1. Tokens!AnyBinding \in Bindings /\ MaxTokens \in Nat /\ LastInstant \in Nat
  BY ApprovalsAssumption DEF Tokens!TokenAssumption, Tokens!AnyBinding
<1>2. Len(ctIssued) = 0 /\ ctIssued \in Seq([binding : Bindings, exp : Nat])
  BY DEF Tokens!Init
<1>3. Tokens!TypeOK
  BY <1>1, <1>2 DEF Tokens!Init, Tokens!TypeOK, Tokens!Ids
<1>4. Tokens!OnceWhileValid
  BY <1>2 DEF Tokens!OnceWhileValid
<1>5. \A i \in Tokens!Ids : ctUses[i] = 0
  BY DEF Tokens!Init
<1>6. \A c \in Callers : Confirmed(c)
  BY DEF Tokens!Init, Confirmed
<1> QED
  BY <1>3, <1>4, <1>5, <1>6 DEF TokensInv

\* A caller leaves: what is known of the others stays.
LEMMA TokensReturn ==
  ASSUME TokensInv, NEW c \in Callers, Tokens!Return(c), UNCHANGED <<ctNow, ctIssued, spent, ctUses, ctLate, ctHeld>>
  PROVE  TokensInv'
<1>1. Tokens!AnyBinding \in Bindings
  BY ApprovalsAssumption DEF Tokens!TokenAssumption, Tokens!AnyBinding
<1>2. Tokens!TypeOK'
  BY <1>1 DEF TokensInv, Tokens!TypeOK, Tokens!Return
<1>3. Tokens!OnceWhileValid'
  BY DEF TokensInv, Tokens!OnceWhileValid
<1>4. ASSUME NEW d \in Callers PROVE Confirmed(d)'
  BY DEF TokensInv, Tokens!TypeOK, Tokens!Return, Confirmed
<1> QED
  BY <1>2, <1>3, <1>4 DEF TokensInv, Tokens!Ids

LEMMA TokensIssue ==
  ASSUME TokensInv, NEW b \in Bindings, Tokens!Issue(b)
  PROVE  TokensInv'
<1> DEFINE t == [binding |-> b, exp |-> ctNow + TTL]
<1>1. /\ Len(ctIssued) < MaxTokens /\ ctIssued' = Append(ctIssued, t)
      /\ UNCHANGED <<ctNow, spent, ctUses, ctLate, ctHeld, ctPc, token, binding>>
  BY DEF Tokens!Issue, Tokens!callerVars, Tokens!historyVars
<1>2. ctNow \in Nat /\ TTL \in Nat /\ Len(ctIssued) \in Nat /\ MaxTokens \in Nat
  BY TokenOf, ApprovalsAssumption DEF TokensInv, Tokens!TokenAssumption
<1>3. t \in [binding : Bindings, exp : Nat] /\ t.exp = ctNow + TTL
  BY <1>2
<1>4. ctIssued \in Seq([binding : Bindings, exp : Nat])
  BY DEF TokensInv, Tokens!TypeOK
<1>5. /\ ctIssued' \in Seq([binding : Bindings, exp : Nat]) /\ Len(ctIssued') = Len(ctIssued) + 1
      /\ \A i \in 1..Len(ctIssued) : ctIssued'[i] = ctIssued[i]
      /\ ctIssued'[Len(ctIssued) + 1] = t
  <2> HIDE DEF t
  <2> QED
    BY <1>1, <1>3, <1>4
<1>6. Tokens!TypeOK'
  <2>1. spent' \subseteq 1..Len(ctIssued') /\ token' \in [Callers -> 0..Len(ctIssued')]
    BY <1>1, <1>2, <1>5 DEF TokensInv, Tokens!TypeOK
  <2> QED
    BY <1>1, <1>2, <1>5, <2>1 DEF TokensInv, Tokens!TypeOK, Tokens!Ids
<1>7. ctUses[Len(ctIssued) + 1] = 0
  BY <1>1, <1>2 DEF TokensInv, Tokens!Ids
<1>8. Tokens!OnceWhileValid'
  <2>1. SUFFICES ASSUME NEW i \in 1..Len(ctIssued'), ctIssued'[i].exp >= ctNow
                 PROVE  ctUses[i] <= 1 /\ (ctUses[i] = 1 => i \in spent)
    BY <1>1 DEF Tokens!OnceWhileValid
  <2>2. CASE i = Len(ctIssued) + 1
    BY <1>7, <2>2
  <2>3. CASE i \in 1..Len(ctIssued)
    BY <1>5, <2>1, <2>3 DEF TokensInv, Tokens!OnceWhileValid
  <2> QED
    BY <1>2, <1>5, <2>2, <2>3
<1>9. \A i \in Tokens!Ids : i > Len(ctIssued') => ctUses'[i] = 0
  BY <1>1, <1>2, <1>5 DEF TokensInv, Tokens!Ids
<1>10. ASSUME NEW c \in Callers PROVE Confirmed(c)'
  <2>1. SUFFICES ASSUME ctPc[c] = "confirmed" PROVE Confirmed(c)'
    BY <1>1 DEF Confirmed
  <2>2. token[c] \in 1..Len(ctIssued)
    BY <1>2, <2>1 DEF TokensInv, Tokens!TypeOK
  <2>3. ctIssued'[token[c]] = ctIssued[token[c]]
    BY <1>5, <2>2
  <2> QED
    BY <1>1, <2>3 DEF TokensInv, Confirmed
<1> QED
  BY <1>6, <1>8, <1>9, <1>10 DEF TokensInv, Tokens!Ids

LEMMA TokensAuthenticate ==
  ASSUME TokensInv, NEW c \in Callers, NEW i \in 1..Len(ctIssued), NEW b \in Bindings,
         Tokens!Authenticate(c, i, b)
  PROVE  TokensInv'
<1>1. /\ ctPc' = [ctPc EXCEPT ![c] = "authenticated"] /\ token' = [token EXCEPT ![c] = i]
      /\ binding' = [binding EXCEPT ![c] = b] /\ UNCHANGED <<ctNow, ctIssued, spent, ctUses, ctLate, ctHeld>>
  BY DEF Tokens!Authenticate, Tokens!historyVars
<1>2. Len(ctIssued) \in Nat
  BY TokenOf DEF TokensInv
<1>3. Tokens!TypeOK'
  BY <1>1, <1>2 DEF TokensInv, Tokens!TypeOK
<1>4. ASSUME NEW d \in Callers PROVE Confirmed(d)'
  BY <1>1 DEF TokensInv, Tokens!TypeOK, Confirmed
<1> QED
  BY <1>1, <1>3, <1>4 DEF TokensInv, Tokens!Ids, Tokens!OnceWhileValid

\* The row of a valid token outlives the purge; the token that is spent was not used if it is valid.
LEMMA SpendKeepsOnce ==
  ASSUME TokensInv, NEW c \in Callers, Tokens!Spend(c)
  PROVE  Tokens!OnceWhileValid' /\ \A i \in Tokens!Ids : i > Len(ctIssued') => ctUses'[i] = 0
<1> DEFINE i == token[c]
<1>1. /\ ctPc[c] = "authenticated" /\ i \notin Tokens!Unpurged /\ spent' = Tokens!Unpurged \cup {i}
      /\ ctUses' = IF ctIssued[i].exp >= ctNow THEN [ctUses EXCEPT ![i] = @ + 1] ELSE ctUses
      /\ UNCHANGED <<ctNow, ctIssued>>
  BY DEF Tokens!Spend, Tokens!Serves
<1>2. /\ Len(ctIssued) \in Nat
      /\ \A j \in 1..Len(ctIssued) : ctIssued[j].exp \in Nat /\ j \in Tokens!Ids
  BY TokenOf DEF TokensInv
<1>3. i \in 1..Len(ctIssued) /\ ctUses \in [Tokens!Ids -> Nat] /\ i \in Tokens!Ids
  BY <1>1, <1>2 DEF TokensInv, Tokens!TypeOK
<1>4. /\ ctIssued[i].exp >= ctNow => ctUses'[i] = ctUses[i] + 1 /\ ctUses[i] \in Nat
      /\ \A j \in Tokens!Ids : j # i => ctUses'[j] = ctUses[j]
  BY <1>1, <1>3
<1>5. ASSUME NEW j \in 1..Len(ctIssued), ctIssued[j].exp >= ctNow
      PROVE  ctUses'[j] <= 1 /\ (ctUses'[j] = 1 => j \in spent')
  <2>1. ctUses[j] <= 1 /\ (ctUses[j] = 1 => j \in spent)
    BY <1>5 DEF TokensInv, Tokens!OnceWhileValid
  <2>2. j \in spent => j \in Tokens!Unpurged
    BY <1>5 DEF Tokens!Unpurged
  <2>3. CASE j = i
    <3>1. ctUses[i] = 0
      BY <1>1, <1>4, <1>5, <2>1, <2>2, <2>3
    <3> QED
      BY <1>1, <1>4, <1>5, <2>3, <3>1
  <2>4. CASE j # i
    BY <1>1, <1>2, <1>4, <2>1, <2>2, <2>4
  <2> QED
    BY <2>3, <2>4
<1>6. \A j \in Tokens!Ids : j > Len(ctIssued') => ctUses'[j] = 0
  BY <1>1, <1>2, <1>3, <1>4 DEF TokensInv
<1> QED
  BY <1>1, <1>5, <1>6 DEF Tokens!OnceWhileValid

\* A token that is valid when it is spent had no row, hence no use: this one is its first.
LEMMA TokensSpend ==
  ASSUME TokensInv, NEW c \in Callers, Tokens!Spend(c)
  PROVE  TokensInv'
<1> DEFINE i == token[c]
<1>1. /\ ctPc[c] = "authenticated" /\ i \notin Tokens!Unpurged /\ spent' = Tokens!Unpurged \cup {i}
      /\ ctUses' = IF ctIssued[i].exp >= ctNow THEN [ctUses EXCEPT ![i] = @ + 1] ELSE ctUses
      /\ ctLate' = IF ctIssued[i].exp >= ctNow THEN ctLate ELSE [ctLate EXCEPT ![i][c] = ctLate[i][c] + 1]
      /\ UNCHANGED <<ctNow, ctIssued, ctHeld>>
  BY DEF Tokens!Spend, Tokens!Serves
<1>2. /\ Len(ctIssued) \in Nat /\ ctNow \in Nat
      /\ \A j \in 1..Len(ctIssued) : ctIssued[j].exp \in Nat /\ j \in Tokens!Ids
  BY TokenOf DEF TokensInv
<1>3. i \in 1..Len(ctIssued) /\ ctUses \in [Tokens!Ids -> Nat] /\ i \in Tokens!Ids
  BY <1>1, <1>2 DEF TokensInv, Tokens!TypeOK
<1>4. /\ ctIssued[i].exp >= ctNow => ctUses'[i] = ctUses[i] + 1
      /\ ctUses[i] \in Nat
      /\ \A j \in Tokens!Ids : j # i => ctUses'[j] = ctUses[j]
  BY <1>1, <1>3
<1>0. ctUses' \in [Tokens!Ids -> Nat] /\ ctLate' \in [Tokens!Ids -> [Callers -> Nat]] /\ spent' \subseteq 1..Len(ctIssued)
  <2>1. spent \subseteq 1..Len(ctIssued) /\ ctLate \in [Tokens!Ids -> [Callers -> Nat]]
    BY DEF TokensInv, Tokens!TypeOK
  <2>2. ctUses[i] + 1 \in Nat
    BY <1>4
  <2>3. ctLate[i] \in [Callers -> Nat] /\ ctLate[i][c] + 1 \in Nat
    BY <1>3, <2>1
  <2>4. [ctLate[i] EXCEPT ![c] = ctLate[i][c] + 1] \in [Callers -> Nat]
    BY <2>3
  <2>5. ctLate' = IF ctIssued[i].exp >= ctNow THEN ctLate
                  ELSE [ctLate EXCEPT ![i] = [ctLate[i] EXCEPT ![c] = ctLate[i][c] + 1]]
    BY <1>1
  <2> QED
    BY <1>1, <1>3, <2>1, <2>2, <2>4, <2>5 DEF Tokens!Unpurged
<1>5. CASE /\ ctIssued[i].binding = binding[c] /\ ctPc' = [ctPc EXCEPT ![c] = "confirmed"]
           /\ UNCHANGED <<token, binding>>
  <2>1. Tokens!TypeOK'
    BY <1>1, <1>3, <1>5, <1>0 DEF TokensInv, Tokens!TypeOK
  <2>2. ASSUME NEW d \in Callers PROVE Confirmed(d)'
    <3>1. CASE d = c
      <4>1. ASSUME ctIssued[i].exp >= ctNow, NEW e \in Callers \ {c}, ctPc[e] = "confirmed", token[e] = i
            PROVE  FALSE
        <5>1. ctUses[i] >= 1
          BY <4>1 DEF TokensInv, Confirmed
        <5>2. i \in spent
          BY <1>2, <1>3, <1>4, <4>1, <5>1 DEF TokensInv, Tokens!OnceWhileValid
        <5> QED
          BY <1>1, <4>1, <5>2 DEF Tokens!Unpurged
      <4>2. /\ ctPc'[c] = "confirmed" /\ \A e \in Callers \ {c} : ctPc'[e] = ctPc[e]
            /\ ctIssued[i].exp >= ctNow => ctUses'[i] >= 1
        BY <1>4, <1>5 DEF TokensInv, Tokens!TypeOK
      <4> QED
        BY <1>1, <1>5, <3>1, <4>1, <4>2 DEF Confirmed
    <3>2. CASE d # c /\ ctPc[d] = "confirmed"
      <4>1. token[d] \in 1..Len(ctIssued) /\ token[d] \in Tokens!Ids
        BY <1>2, <3>2 DEF TokensInv, Tokens!TypeOK
      <4>2. ASSUME ctIssued[token[d]].exp >= ctNow PROVE ctUses'[token[d]] >= 1
        <5>1. ctUses[token[d]] >= 1 /\ ctUses[token[d]] \in Nat
          BY <1>3, <3>2, <4>1, <4>2 DEF TokensInv, Confirmed
        <5> QED
          BY <1>3, <1>4, <4>1, <4>2, <5>1
      <4>3. ASSUME ctIssued[token[d]].exp >= ctNow PROVE token[d] # i
        <5>1. ctUses[token[d]] >= 1
          BY <3>2, <4>3 DEF TokensInv, Confirmed
        <5>2. token[d] = i => i \in spent
          BY <1>2, <1>3, <1>4, <4>1, <4>3, <5>1 DEF TokensInv, Tokens!OnceWhileValid
        <5> QED
          BY <1>1, <4>3, <5>2 DEF Tokens!Unpurged
      <4>4. \A e \in Callers \ {c} : ctPc'[e] = ctPc[e]
        BY <1>5 DEF TokensInv, Tokens!TypeOK
      <4> QED
        BY <1>1, <1>5, <3>2, <4>2, <4>3, <4>4 DEF TokensInv, Confirmed
    <3>3. CASE d # c /\ ctPc[d] # "confirmed"
      BY <1>5, <3>3 DEF TokensInv, Tokens!TypeOK, Confirmed
    <3> QED
      BY <3>1, <3>2, <3>3
  <2> QED
    BY <1>1, <1>2, <1>3, <1>4, <2>1, <2>2, SpendKeepsOnce DEF TokensInv
<1>6. CASE Tokens!Return(c)
  <2>1. Tokens!AnyBinding \in Bindings
    BY ApprovalsAssumption DEF Tokens!TokenAssumption, Tokens!AnyBinding
  <2>2. Tokens!TypeOK'
    BY <1>1, <1>3, <1>6, <1>0, <2>1 DEF TokensInv, Tokens!TypeOK, Tokens!Return
  <2>3. ASSUME NEW d \in Callers PROVE Confirmed(d)'
    <3>1. CASE d = c
      BY <1>6, <3>1 DEF TokensInv, Tokens!TypeOK, Tokens!Return, Confirmed
    <3>2. CASE d # c /\ ctPc[d] = "confirmed"
      <4>1. token[d] \in Tokens!Ids
        BY <1>2, <3>2 DEF TokensInv, Tokens!TypeOK
      <4>3. ASSUME ctIssued[token[d]].exp >= ctNow PROVE ctUses'[token[d]] >= 1
        <5>1. ctUses[token[d]] >= 1 /\ ctUses[token[d]] \in Nat
          BY <1>3, <3>2, <4>1, <4>3 DEF TokensInv, Confirmed
        <5> QED
          BY <1>3, <1>4, <4>1, <4>3, <5>1
      <4> QED
        BY <1>1, <1>6, <3>2, <4>3 DEF TokensInv, Tokens!TypeOK, Tokens!Return, Confirmed
    <3>3. CASE d # c /\ ctPc[d] # "confirmed"
      BY <1>6, <3>3 DEF TokensInv, Tokens!TypeOK, Tokens!Return, Confirmed
    <3> QED
      BY <3>1, <3>2, <3>3
  <2> QED
    BY <1>1, <1>2, <1>3, <1>4, <2>2, <2>3, SpendKeepsOnce DEF TokensInv
<1> QED
  BY <1>5, <1>6 DEF Tokens!Spend

LEMMA TokensStep ==
  ASSUME TokensInv, Tokens!Next
  PROVE  TokensInv'
<1>1. CASE Tokens!Tick
  <2>1. /\ ctNow < LastInstant /\ ctNow' = ctNow + 1
        /\ UNCHANGED <<ctIssued, spent, ctUses, ctLate, ctPc, token, binding>>
    BY <1>1 DEF Tokens!Tick, Tokens!callerVars
  <2>2. /\ ctNow \in Nat /\ LastInstant \in Nat
        /\ \A i \in 1..Len(ctIssued) : ctIssued[i].exp \in Nat
    BY TokenOf, ApprovalsAssumption DEF TokensInv, Tokens!TokenAssumption
  <2>3. ctNow' \in 0..LastInstant
    BY <2>1, <2>2
  <2>0. ctHeld' \in [Tokens!Ids -> SUBSET Callers]
    BY <1>1 DEF Tokens!Tick, TokensInv, Tokens!TypeOK
  <2>4. Tokens!TypeOK'
    BY <2>0, <2>1, <2>3 DEF TokensInv, Tokens!TypeOK, Tokens!Ids
  <2>5. \A i \in 1..Len(ctIssued) : ctIssued[i].exp >= ctNow' => ctIssued[i].exp >= ctNow
    BY <2>1, <2>2
  <2>6. Tokens!OnceWhileValid'
    BY <2>1, <2>5 DEF TokensInv, Tokens!OnceWhileValid
  <2>7. ASSUME NEW c \in Callers PROVE Confirmed(c)'
    <3>1. ctPc[c] = "confirmed" => token[c] \in 1..Len(ctIssued)
      BY TokenOf DEF TokensInv, Tokens!TypeOK
    <3> QED
      BY <2>1, <2>5, <3>1 DEF TokensInv, Confirmed
  <2> QED
    BY <2>1, <2>4, <2>6, <2>7 DEF TokensInv, Tokens!Ids
<1>2. CASE Tokens!Restart
  <2>1. Tokens!AnyBinding \in Bindings
    BY ApprovalsAssumption DEF Tokens!TokenAssumption, Tokens!AnyBinding
  <2>2. Len(ctIssued) \in Nat
    BY TokenOf DEF TokensInv
  <2>3. Tokens!TypeOK'
    BY <1>2, <2>1, <2>2 DEF TokensInv, Tokens!TypeOK, Tokens!Restart, Tokens!historyVars
  <2>4. ASSUME NEW c \in Callers PROVE Confirmed(c)'
    BY <1>2 DEF Tokens!Restart, Tokens!historyVars, Confirmed
  <2> QED
    BY <1>2, <2>3, <2>4 DEF Tokens!Restart, Tokens!historyVars, TokensInv, Tokens!OnceWhileValid, Tokens!Ids
<1>3. ASSUME NEW b \in Bindings, Tokens!Issue(b) PROVE TokensInv'
  BY <1>3, TokensIssue
<1>4. ASSUME NEW c \in Callers, NEW i \in 1..Len(ctIssued), NEW b \in Bindings,
             Tokens!Authenticate(c, i, b)
      PROVE  TokensInv'
  BY <1>4, TokensAuthenticate
<1>5. ASSUME NEW c \in Callers, Tokens!Spend(c) PROVE TokensInv'
  BY <1>5, TokensSpend
<1>6. ASSUME NEW c \in Callers, Tokens!Reject(c) \/ Tokens!Done(c) PROVE TokensInv'
  BY <1>6, TokensReturn DEF Tokens!Reject, Tokens!Done, Tokens!historyVars
<1> QED
  BY <1>1, <1>2, <1>3, <1>4, <1>5, <1>6 DEF Tokens!Next

\* What a token serves after its expiry is asked for by callers that had authenticated it before.
Straddling ==
  \A i \in Tokens!Ids, c \in Callers :
    IF i \in 1..Len(ctIssued) /\ ctIssued[i].exp < ctNow
    THEN /\ ctPc[c] = "authenticated" /\ token[c] = i => c \in ctHeld[i] /\ ctLate[i][c] = 0
         /\ ctLate[i][c] <= 1
         /\ ctLate[i][c] > 0 => c \in ctHeld[i]
    ELSE ctLate[i][c] = 0

\* A step that leaves clock and histories alone, and after which nobody else holds an expired token.
LEMMA StraddlingStays ==
  ASSUME TokensInv, Straddling, UNCHANGED <<ctNow, ctLate, ctHeld, ctIssued>>,
         \A c \in Callers : ctPc'[c] = "authenticated" /\ ctIssued[token'[c]].exp < ctNow =>
                              ctPc[c] = "authenticated" /\ token[c] = token'[c]
  PROVE  Straddling'
BY DEF Straddling, Tokens!Ids

LEMMA StraddlingStep ==
  ASSUME TokensInv, Straddling, Tokens!Next
  PROVE  Straddling'
<1>0. /\ Len(ctIssued) \in Nat /\ ctNow \in Nat /\ LastInstant \in Nat
      /\ \A i \in 1..Len(ctIssued) : ctIssued[i].exp \in Nat /\ i \in Tokens!Ids
  BY TokenOf, ApprovalsAssumption DEF TokensInv, Tokens!TokenAssumption
<1>t. /\ ctPc \in [Callers -> {"idle", "authenticated", "confirmed"}]
      /\ token \in [Callers -> 0..Len(ctIssued)]
      /\ ctLate \in [Tokens!Ids -> [Callers -> Nat]] /\ ctHeld \in [Tokens!Ids -> SUBSET Callers]
  BY DEF TokensInv, Tokens!TypeOK
<1>1. CASE Tokens!Tick
  <2>1. /\ ctNow' = ctNow + 1 /\ UNCHANGED <<ctIssued, ctLate, ctPc, token>>
        /\ ctHeld' = [i \in Tokens!Ids |-> IF i \in 1..Len(ctIssued) /\ ctIssued[i].exp = ctNow
                       THEN {c \in Callers : ctPc[c] = "authenticated" /\ token[c] = i} ELSE ctHeld[i]]
    BY <1>1 DEF Tokens!Tick, Tokens!callerVars
  <2>2. ASSUME NEW i \in Tokens!Ids, NEW c \in Callers
        PROVE  IF i \in 1..Len(ctIssued) /\ ctIssued[i].exp < ctNow'
               THEN /\ ctPc[c] = "authenticated" /\ token[c] = i => c \in ctHeld'[i] /\ ctLate[i][c] = 0
                    /\ ctLate[i][c] <= 1
                    /\ ctLate[i][c] > 0 => c \in ctHeld'[i]
               ELSE ctLate[i][c] = 0
    <3>1. CASE i \in 1..Len(ctIssued) /\ ctIssued[i].exp = ctNow
      <4>1. ctHeld'[i] = {d \in Callers : ctPc[d] = "authenticated" /\ token[d] = i}
        BY <2>1, <3>1
      <4>2. ctLate[i][c] = 0
        BY <1>0, <3>1 DEF Straddling
      <4> QED
        BY <1>0, <2>1, <3>1, <4>1, <4>2
    <3>2. CASE ~(i \in 1..Len(ctIssued) /\ ctIssued[i].exp = ctNow)
      <4>1. ctHeld'[i] = ctHeld[i]
        BY <2>1, <3>2
      <4>2. i \in 1..Len(ctIssued) => (ctIssued[i].exp < ctNow' <=> ctIssued[i].exp < ctNow)
        BY <1>0, <2>1, <3>2
      <4> QED
        BY <4>1, <4>2 DEF Straddling
    <3> QED
      BY <3>1, <3>2
  <2> QED
    BY <2>1, <2>2 DEF Straddling, Tokens!Ids
<1>2. CASE Tokens!Restart
  <2>1. UNCHANGED <<ctNow, ctLate, ctHeld, ctIssued>> /\ \A c \in Callers : ctPc'[c] = "idle"
    BY <1>2 DEF Tokens!Restart, Tokens!historyVars
  <2> QED
    BY <2>1, StraddlingStays
<1>3. ASSUME NEW b \in Bindings, Tokens!Issue(b) PROVE Straddling'
  <2>1. /\ ctIssued' = Append(ctIssued, [binding |-> b, exp |-> ctNow + TTL])
        /\ UNCHANGED <<ctNow, ctLate, ctHeld, ctPc, token>>
    BY <1>3 DEF Tokens!Issue, Tokens!historyVars, Tokens!callerVars
  <2>2. TTL \in Nat /\ ctIssued \in Seq([binding : Bindings, exp : Nat])
    BY ApprovalsAssumption DEF Tokens!TokenAssumption, TokensInv, Tokens!TypeOK
  <2>3. PICK t : t = [binding |-> b, exp |-> ctNow + TTL]
    OBVIOUS
  <2>4. t \in [binding : Bindings, exp : Nat] /\ ~(t.exp < ctNow)
    BY <1>0, <2>2, <2>3
  <2>5. /\ Len(ctIssued') = Len(ctIssued) + 1 /\ ctIssued'[Len(ctIssued) + 1] = t
        /\ \A i \in 1..Len(ctIssued) : ctIssued'[i] = ctIssued[i]
    BY <2>1, <2>2, <2>3, <2>4
  <2>6. \A i \in Tokens!Ids : (i \in 1..Len(ctIssued') /\ ctIssued'[i].exp < ctNow)
                              <=> (i \in 1..Len(ctIssued) /\ ctIssued[i].exp < ctNow)
    BY <1>0, <2>4, <2>5
  <2> QED
    BY <2>1, <2>6 DEF Straddling, Tokens!Ids
<1>4. ASSUME NEW c \in Callers, NEW i \in 1..Len(ctIssued), NEW b \in Bindings,
             Tokens!Authenticate(c, i, b)
      PROVE  Straddling'
  <2>1. /\ UNCHANGED <<ctNow, ctLate, ctHeld, ctIssued>> /\ ctIssued[i].exp >= ctNow
        /\ ctPc' = [ctPc EXCEPT ![c] = "authenticated"] /\ token' = [token EXCEPT ![c] = i]
    BY <1>4 DEF Tokens!Authenticate, Tokens!historyVars
  <2>2. ~(ctIssued[i].exp < ctNow)
    BY <1>0, <2>1
  <2>3. ASSUME NEW d \in Callers, ctPc'[d] = "authenticated" /\ ctIssued[token'[d]].exp < ctNow
        PROVE  ctPc[d] = "authenticated" /\ token[d] = token'[d]
    BY <1>t, <2>1, <2>2, <2>3
  <2> QED
    BY <2>1, <2>3, StraddlingStays
<1>5. ASSUME NEW c \in Callers, Tokens!Spend(c) PROVE Straddling'
  <2> DEFINE i == token[c]
  <2>1. /\ ctPc[c] = "authenticated" /\ UNCHANGED <<ctNow, ctIssued, ctHeld>>
        /\ ctLate' = IF ctIssued[i].exp >= ctNow THEN ctLate ELSE [ctLate EXCEPT ![i][c] = ctLate[i][c] + 1]
    BY <1>5 DEF Tokens!Spend, Tokens!Serves
  <2>2. /\ ctPc'[c] # "authenticated"
        /\ \A d \in Callers : d # c => ctPc'[d] = ctPc[d] /\ token'[d] = token[d]
    BY <1>5, <1>t DEF Tokens!Spend, Tokens!Return
  <2>3. i \in 1..Len(ctIssued) /\ i \in Tokens!Ids
    BY <1>0, <1>t, <2>1 DEF TokensInv, Tokens!TypeOK
  <2>4. CASE ctIssued[i].exp >= ctNow
    <3>1. ctLate' = ctLate
      BY <2>1, <2>4
    <3> QED
      BY <2>1, <2>2, <3>1, StraddlingStays
  <2>5. CASE ~(ctIssued[i].exp >= ctNow)
    <3>1. ctIssued[i].exp < ctNow
      BY <1>0, <2>3, <2>5
    <3>2. c \in ctHeld[i] /\ ctLate[i][c] = 0
      BY <2>1, <2>3, <3>1 DEF Straddling
    <3>3. /\ ctLate'[i][c] = 1
          /\ \A j \in Tokens!Ids, d \in Callers : ~(j = i /\ d = c) => ctLate'[j][d] = ctLate[j][d]
      BY <1>t, <2>1, <2>3, <2>5, <3>2
    <3>4. ASSUME NEW j \in Tokens!Ids, NEW d \in Callers
          PROVE  IF j \in 1..Len(ctIssued) /\ ctIssued[j].exp < ctNow
                 THEN /\ ctPc'[d] = "authenticated" /\ token'[d] = j => d \in ctHeld[j] /\ ctLate'[j][d] = 0
                      /\ ctLate'[j][d] <= 1
                      /\ ctLate'[j][d] > 0 => d \in ctHeld[j]
                 ELSE ctLate'[j][d] = 0
      <4>1. CASE j = i /\ d = c
        BY <2>2, <2>3, <3>1, <3>2, <3>3, <4>1
      <4>2. CASE ~(j = i /\ d = c)
        <5>1. ctLate'[j][d] = ctLate[j][d]
          BY <3>3, <4>2
        <5> QED
          BY <2>2, <5>1 DEF Straddling
      <4> QED
        BY <4>1, <4>2
    <3> QED
      BY <2>1, <3>4 DEF Straddling, Tokens!Ids
  <2> QED
    BY <2>4, <2>5
<1>6. ASSUME NEW c \in Callers, Tokens!Reject(c) \/ Tokens!Done(c) PROVE Straddling'
  <2>1. /\ UNCHANGED <<ctNow, ctLate, ctHeld, ctIssued>>
        /\ ctPc'[c] = "idle" /\ \A d \in Callers : d # c => ctPc'[d] = ctPc[d] /\ token'[d] = token[d]
    BY <1>6, <1>t DEF Tokens!Reject, Tokens!Done, Tokens!Return, Tokens!historyVars
  <2> QED
    BY <2>1, StraddlingStays
<1> QED
  BY <1>1, <1>2, <1>3, <1>4, <1>5, <1>6 DEF Tokens!Next

LEMMA TokensRest ==
  ASSUME TokensInv, Straddling, UNCHANGED tokensVars
  PROVE  TokensInv' /\ Straddling'
BY DEF tokensVars, TokensInv, Straddling, Tokens!TypeOK, Tokens!OnceWhileValid, Tokens!Ids, Confirmed

LEMMA TokensSafe ==
  ASSUME TokensInv, Straddling
  PROVE  /\ Tokens!TypeOK /\ Tokens!OnceWhileValid /\ Tokens!ConfirmedExactly
         /\ Tokens!OnlyStraddlersReplay
<1>1. Tokens!TypeOK /\ Tokens!OnceWhileValid /\ Tokens!ConfirmedExactly
  BY DEF TokensInv, Tokens!ConfirmedExactly, Confirmed
<1>2. Tokens!OnlyStraddlersReplay
  BY DEF Straddling, Tokens!OnlyStraddlersReplay
<1> QED
  BY <1>1, <1>2

LEMMA TokensAlways == AllSpec => [](component = "tokens" => TokensInv /\ Straddling)
<1>1. AllInit => (component = "tokens" => TokensInv /\ Straddling)
  <2>1. Tokens!Init => Straddling
    BY DEF Tokens!Init, Straddling
  <2> QED
    BY <2>1, TokensBegin DEF AllInit
<1>2. (component = "tokens" => TokensInv /\ Straddling) /\ [AllNext]_allVars
        => (component = "tokens" => TokensInv /\ Straddling)'
  BY TokensStep, StraddlingStep, TokensRest DEF AllNext, allVars
<1> QED
  BY <1>1, <1>2, PTL DEF AllSpec

\* A token serves one attempt while it is valid, matching or not, across callers and restarts; a
\* confirmed caller presented one of exactly its binding, and is the only one confirmed by it
\* while it is valid.  Once it has expired it serves only callers that had authenticated it before,
\* each of them once.
THEOREM TokensOnce ==
  AllSpec => [](component = "tokens" =>
                  Tokens!OnceWhileValid /\ Tokens!ConfirmedExactly /\ Tokens!OnlyStraddlersReplay)
<1>1. (component = "tokens" => TokensInv /\ Straddling)
        => (component = "tokens" =>
              Tokens!OnceWhileValid /\ Tokens!ConfirmedExactly /\ Tokens!OnlyStraddlersReplay)
  BY TokensSafe
<1> QED
  BY <1>1, TokensAlways, PTL

-----------------------------------------------------------------------------
(***************************************************************************)
(* The signing key.                                                        *)
(***************************************************************************)

\* What an execution is doing.
Executing(c) ==
  /\ skCall[c].at \in {"idle", "consume", "prepare", "look", "store", "tell", "provision", "sign", "post"}
  /\ skCall[c].at # "idle" => skCall[c].binding.action \in {"prepare", "provision"}

\* Once a key was told nobody finds none any more: who still stores one was about to when it was told.
SigningInv ==
  /\ key \in Nat /\ keys \in Nat
  /\ DOMAIN skCall = Callers
  /\ \A c \in Callers : Executing(c)
  /\ shown # {} => key # 0
  /\ \A s \in shown : Signing!Rivals \subseteq s.rivals
  /\ Signing!ToldKeyStays

LEMMA SigningBegin ==
  ASSUME Signing!Init
  PROVE  SigningInv
BY DEF Signing!Init, Signing!Idle, SigningInv, Executing, Signing!ToldKeyStays

\* What remains to be shown of a step that tells nothing and stores no key: that the call it is
\* about is well-formed, and finds no key only where there is none.
LEMMA SigningGoes ==
  ASSUME SigningInv, UNCHANGED <<key, keys, maker, shown>>, NEW c \in Callers, NEW r, Signing!Goes(c, r),
         r.at \in {"idle", "consume", "prepare", "look", "store", "tell", "provision", "sign", "post"},
         r.at # "idle" => r.binding.action \in {"prepare", "provision"},
         r.at = "store" => key = 0
  PROVE  SigningInv'
<1>1. /\ skCall' = [skCall EXCEPT ![c] = r] /\ DOMAIN skCall' = Callers /\ skCall'[c] = r
      /\ \A d \in Callers : d # c => skCall'[d] = skCall[d]
  BY DEF SigningInv, Signing!Goes
<1>2. ASSUME NEW d \in Callers PROVE Executing(d)'
  BY <1>1 DEF SigningInv, Executing
<1>3. ASSUME NEW s \in shown PROVE Signing!Rivals' \subseteq s.rivals
  <2>1. key # 0 /\ Signing!Rivals \subseteq s.rivals
    BY DEF SigningInv
  <2>2. Signing!Rivals' \subseteq Signing!Rivals
    BY <1>1, <2>1 DEF Signing!Rivals
  <2> QED
    BY <2>1, <2>2
<1> QED
  BY <1>1, <1>2, <1>3 DEF SigningInv, Signing!ToldKeyStays

\* A call that stores a key was about to when any key was told.
LEMMA SigningStores ==
  ASSUME SigningInv, NEW c \in Callers, Signing!StoreKey(c)
  PROVE  SigningInv'
<1>1. /\ skCall[c].at = "store" /\ key' = keys + 1 /\ keys' = keys + 1 /\ shown' = shown /\ maker' = {c}
      /\ skCall' = [skCall EXCEPT ![c] = [at |-> "tell", binding |-> skCall[c].binding]]
  BY DEF Signing!StoreKey, Signing!Steps, Signing!Goes
<1>2. c \in Signing!Rivals
  BY <1>1 DEF Signing!Rivals
<1>3. keys + 1 \in Nat /\ keys + 1 # 0
  BY DEF SigningInv
<1>4. /\ DOMAIN skCall' = Callers /\ skCall'[c].at = "tell" /\ skCall'[c].binding = skCall[c].binding
      /\ \A d \in Callers : d # c => skCall'[d] = skCall[d]
  BY <1>1 DEF SigningInv
<1>5. ASSUME NEW d \in Callers PROVE Executing(d)'
  BY <1>1, <1>4 DEF SigningInv, Executing
<1>6. Signing!Rivals' \subseteq Signing!Rivals
  BY <1>4 DEF Signing!Rivals
<1>7. ASSUME NEW s \in shown PROVE Signing!Rivals' \subseteq s.rivals /\ maker' \subseteq s.rivals
  BY <1>1, <1>2, <1>6 DEF SigningInv
<1> QED
  BY <1>1, <1>3, <1>4, <1>5, <1>7 DEF SigningInv, Signing!ToldKeyStays

LEMMA SigningTells ==
  ASSUME SigningInv, Signing!Tells, UNCHANGED <<key, keys, maker>>, Signing!Rivals' = Signing!Rivals,
         DOMAIN skCall' = Callers, \A c \in Callers : Executing(c)'
  PROVE  SigningInv'
<1>1. ASSUME NEW s \in shown'
      PROVE  key # 0 /\ Signing!Rivals \subseteq s.rivals /\ (key = s.key \/ maker \subseteq s.rivals)
  <2>1. CASE s \in shown
    BY <2>1 DEF SigningInv, Signing!ToldKeyStays
  <2>2. CASE s \notin shown
    <3>1. key # 0 /\ s = [key |-> key, rivals |-> Signing!Rivals]
      BY <1>1, <2>2 DEF Signing!Tells
    <3> QED
      BY <3>1
  <2> QED
    BY <2>1, <2>2
<1> QED
  BY <1>1 DEF SigningInv, Signing!ToldKeyStays

LEMMA SigningStep ==
  ASSUME SigningInv, Signing!Next
  PROVE  SigningInv'
<1>1. ASSUME NEW action \in {"prepare", "provision"}, NEW u \in Urls \cup {NoUrl},
             Signing!Preview(action, u)
      PROVE  SigningInv'
  BY <1>1 DEF Signing!Preview, SigningInv, Executing, Signing!Rivals, Signing!ToldKeyStays
<1>2. ASSUME NEW action \in {"prepare", "provision"}, NEW u \in Urls \cup {NoUrl},
             NEW c \in Callers, Signing!Begin(c, action, u)
      PROVE  SigningInv'
  <2>1. PICK b : b = Signing!Binding(action, u)
    OBVIOUS
  <2>2. b.action = action
    BY <2>1 DEF Signing!Binding
  <2>3. PICK r : r = [at |-> "consume", binding |-> b]
    OBVIOUS
  <2>4. r.at = "consume" /\ r.binding = b
    BY <2>3
  <2>5. Signing!Goes(c, r) /\ UNCHANGED <<key, keys, maker, shown>>
    BY <1>2, <2>1, <2>3 DEF Signing!Begin
  <2> QED
    BY <2>2, <2>4, <2>5, SigningGoes
<1>3. ASSUME NEW c \in Callers, Signing!Consume(c) PROVE SigningInv'
  <2>1. PICK b : b = skCall[c].binding
    OBVIOUS
  <2>2. /\ skCall[c].at = "consume" /\ b.action \in {"prepare", "provision"}
        /\ UNCHANGED <<key, keys, maker, shown>>
    BY <1>3, <2>1 DEF Signing!Consume, SigningInv, Executing, Signing!Rivals
  <2>3. CASE Signing!Goes(c, Signing!Idle)
    <3>1. Signing!Idle.at = "idle"
      BY DEF Signing!Idle
    <3> QED
      BY <2>2, <2>3, <3>1, SigningGoes
  <2>4. CASE Signing!Goes(c, [at |-> b.action, binding |-> b])
    <3>1. PICK r : r = [at |-> b.action, binding |-> b]
      OBVIOUS
    <3>2. r.at = b.action /\ r.binding = b
      BY <3>1
    <3>3. Signing!Goes(c, r)
      BY <2>4, <3>1
    <3>4. r.at \in {"prepare", "provision"}
      BY <2>2, <3>2
    <3> QED
      BY <2>2, <3>2, <3>3, <3>4, SigningGoes
  <2> QED
    BY <1>3, <2>1, <2>3, <2>4 DEF Signing!Consume
<1>4. ASSUME NEW c \in Callers, Signing!Configure(c) \/ Signing!Look(c) PROVE SigningInv'
  <2>1. PICK at \in {"look", "store", "tell"} :
          /\ Signing!Steps(c, at) /\ UNCHANGED <<key, keys, maker, shown>>
          /\ at = "store" => key = 0
    BY <1>4 DEF Signing!Configure, Signing!Look
  <2>2. PICK r : r = [at |-> at, binding |-> skCall[c].binding]
    OBVIOUS
  <2>3. r.at = at /\ r.binding = skCall[c].binding
    BY <2>2
  <2>4. /\ skCall[c].at \in {"prepare", "look"} /\ r.binding.action \in {"prepare", "provision"}
    BY <1>4, <2>3 DEF Signing!Configure, Signing!Look, SigningInv, Executing, Signing!Rivals
  <2>5. Signing!Goes(c, r)
    BY <2>1, <2>2 DEF Signing!Steps
  <2> QED
    BY <2>1, <2>3, <2>4, <2>5, SigningGoes
<1>5. ASSUME NEW c \in Callers, Signing!StoreKey(c) PROVE SigningInv'
  BY <1>5, SigningStores
<1>6. ASSUME NEW c \in Callers, Signing!Tell(c) PROVE SigningInv'
  <2>1. /\ skCall[c].at = "tell" /\ Signing!Tells /\ skCall' = [skCall EXCEPT ![c] = Signing!Idle]
        /\ UNCHANGED <<key, keys, maker>>
    BY <1>6 DEF Signing!Tell, Signing!Goes
  <2>2. /\ DOMAIN skCall' = Callers /\ skCall'[c].at = "idle"
        /\ \A d \in Callers : d # c => skCall'[d] = skCall[d]
    BY <2>1 DEF SigningInv, Signing!Idle
  <2>3. Signing!Rivals' = Signing!Rivals
    BY <2>1, <2>2 DEF Signing!Rivals
  <2>4. ASSUME NEW d \in Callers PROVE Executing(d)'
    BY <2>1, <2>2 DEF SigningInv, Executing
  <2> QED
    BY <2>1, <2>2, <2>3, <2>4, SigningTells
<1>7. CASE Signing!PublicStatus
  <2>1. Signing!Tells /\ UNCHANGED <<key, keys, maker, skCall>>
    BY <1>7 DEF Signing!PublicStatus
  <2>2. Signing!Rivals' = Signing!Rivals /\ \A d \in Callers : Executing(d)'
    BY <2>1 DEF Signing!Rivals, SigningInv, Executing
  <2> QED
    BY <2>1, <2>2, SigningTells DEF SigningInv
<1>8. ASSUME NEW c \in Callers, Signing!Address(c) \/ Signing!Name(c) \/ Signing!Post(c)
      PROVE  SigningInv'
  <2>1. PICK r : /\ Signing!Goes(c, r) /\ r.at \in {"idle", "sign", "post"}
                 /\ r.at # "idle" => r.binding = skCall[c].binding
    BY <1>8 DEF Signing!Address, Signing!Name, Signing!Post, Signing!Idle
  <2>2. skCall[c].at # "idle" /\ UNCHANGED <<key, keys, maker, shown>>
    BY <1>8 DEF Signing!Address, Signing!Name, Signing!Post
  <2>3. skCall[c].binding.action \in {"prepare", "provision"}
    BY <2>2 DEF SigningInv, Executing
  <2> QED
    BY <2>1, <2>2, <2>3, SigningGoes
<1> QED
  BY <1>1, <1>2, <1>3, <1>4, <1>5, <1>6, <1>7, <1>8 DEF Signing!Next

LEMMA SigningRest ==
  ASSUME SigningInv, UNCHANGED signingVars
  PROVE  SigningInv'
BY DEF signingVars, SigningInv, Executing, Signing!Rivals, Signing!ToldKeyStays

LEMMA SigningAlways == AllSpec => [](component = "signing" => SigningInv)
<1>1. AllInit => (component = "signing" => SigningInv)
  BY SigningBegin DEF AllInit
<1>2. (component = "signing" => SigningInv) /\ [AllNext]_allVars => (component = "signing" => SigningInv)'
  BY SigningStep, SigningRest DEF AllNext, allVars
<1> QED
  BY <1>1, <1>2, PTL DEF AllSpec

\* A signing key that was told, to be pinned in the Worker, is replaced by nobody but a call that had
\* found none when it was told and had not stored its own: two first preparations at once.
THEOREM ToldKeyIsKept == AllSpec => [](component = "signing" => Signing!ToldKeyStays)
<1>1. (component = "signing" => SigningInv) => (component = "signing" => Signing!ToldKeyStays)
  BY DEF SigningInv
<1> QED
  BY <1>1, SigningAlways, PTL

\* A token serves one attempt while it is valid, afterwards at most one of each call that was inside
\* when it expired, and confirms exactly its binding; a signing key that was told is replaced only
\* by a first preparation at the same time.
THEOREM SigningHolds == AllSpec => []SigningSafety
<1>1. /\ component = "tokens" => TokensInv /\ Straddling
      /\ component = "signing" => SigningInv
      => SigningSafety
  BY TokensSafe DEF SigningSafety, SigningInv
<1> QED
  BY <1>1, TokensAlways, SigningAlways, PTL

-----------------------------------------------------------------------------
(***************************************************************************)
(* Project scopes.                                                         *)
(***************************************************************************)

\* What the databases hold; an item that is not kept has no rows and no column of its own.
DataTyped ==
  /\ load \in Loads
  /\ status \in [Projects -> {"unused", "active", "inactive"}]
  /\ refs \in [Projects -> 0..MaxRefs]
  /\ kept \subseteq Items
  /\ column \in [Items -> Scopes!Columns]
  /\ revisions \in [Items -> SUBSET Scopes!Columns] /\ restored \subseteq Items \X Scopes!Columns
  /\ scopes \in [Items -> SUBSET Scopes!Columns]
  /\ primary \in [Items -> SUBSET Scopes!Columns]
  /\ \A i \in Items : primary[i] \subseteq scopes[i] /\ (i \notin kept => scopes[i] = {} /\ column[i] = Global)
  /\ audit \in [Items -> {"none", "primary_scope", "set_scopes", "kept_scopes", "unassigned"}]
  /\ files \in [Files -> Scopes!Columns]

\* Where the callers are, and what that implies of what they were given.
CallTyped(c) ==
  /\ psPc[c] # "idle" => c \in load.callers
  /\ psPc[c] \in {"jobChecked"} \cup Scopes!Deleting => psCall[c].project \in Projects
  /\ psPc[c] = "selected" => psCall[c].item \in kept

CallsTyped ==
  /\ psPc \in [Callers -> Scopes!Steps]
  /\ psCall \in [Callers -> Scopes!Calls]
  /\ \A c \in Callers : CallTyped(c)

\* The rows of a project fit, those that are about to be inserted with them.
Inserting(p) == {d \in Callers : psPc[d] = "jobChecked" /\ psCall[d].project = p}
RefsFit == \A p \in Projects : refs[p] + Cardinality(Inserting(p)) <= MaxRefs

ScopesTyped == DataTyped /\ CallsTyped /\ RefsFit

Gone(p) == p \in Projects /\ status[p] = "inactive"

\* Nothing of the store refers to p but what a restoration wrote back, and no file does.
Detached(p) == \A i \in Items : column[i] = p \/ p \in scopes[i] => <<i, p>> \in restored
DetachedFiles(p) == \A f \in Files : files[f] # p

\* What a call of a single caller will write names no deleted project, unless it restores a revision
\* and has not checked it yet; the project it has read of its item is still the item's; and how far a
\* deletion has come.
CallAgrees(c) ==
  /\ psPc[c] # "idle" =>
        /\ \/ ~Gone(psCall[c].project)
           \/ psCall[c].restore /\ psPc[c] \in {"updateChecked", "selected", "stored", "updated"}
        /\ psCall[c].given = Scopes!Unset \/ \A p \in psCall[c].given : ~Gone(p)
  /\ psPc[c] = "updateChecked" /\ ~psCall[c].set /\ psCall[c].item \in kept
        => ~Gone(column[psCall[c].item])
  /\ psPc[c] \in {"stored", "updated", "fetched"} => psCall[c].project = column[psCall[c].item]
  /\ psPc[c] = "createChecked" => ~psCall[c].restore
  /\ psPc[c] = "updated" \/ (psPc[c] = "stored" /\ psCall[c].restore)
        => Scopes!Usable(psCall[c].project) \/ <<psCall[c].item, psCall[c].project>> \in restored
  /\ psPc[c] = "detaching" => psCall[c].ids = Scopes!Affected(psCall[c].project)
  /\ psPc[c] \in {"detached", "filesDetached"} => Detached(psCall[c].project)
  /\ psPc[c] = "filesDetached" => DetachedFiles(psCall[c].project)

AloneAgrees ==
  /\ \A p \in Projects : Gone(p) => refs[p] = 0 /\ Detached(p) /\ DetachedFiles(p)
  /\ \A c \in Callers : CallAgrees(c)

\* The rows of an item agree with its column, or a restoration that wrote to it was refused, or its
\* save is under way.  An item with a primary scope was not left Unassigned: a start would take its
\* Global row away otherwise.
Restored(i) == i \in {r[1] : r \in restored}

RowsAgree(i) ==
  \/ Restored(i)
  \/ Scopes!Unassigned(i)
  \/ primary[i] = {column[i]} /\ column[i] \in scopes[i] /\ audit[i] # "unassigned"

BeingSaved(i, c) == psPc[c] \in {"stored", "updated", "fetched"} /\ psCall[c].item = i

ScopesInv ==
  /\ ScopesTyped
  /\ Scopes!DeletionExcludesReferences
  /\ Scopes!Alone => AloneAgrees
  /\ Scopes!Alone /\ ~load.crash => \A i \in kept : RowsAgree(i) \/ \E c \in Callers : BeingSaved(i, c)

data == <<load, status, refs, kept, column, revisions, scopes, primary, audit, restored, files>>
Turns(c, s, r) == psPc' = [psPc EXCEPT ![c] = s] /\ psCall' = [psCall EXCEPT ![c] = r]

LEMMA LoadOf ==
  ASSUME load \in Loads
  PROVE  /\ load.callers \subseteq Callers /\ load.projects \subseteq Projects
         /\ \A g \in load.given : g \in SUBSET Scopes!Columns
BY ApprovalsAssumption DEF Scopes!ScopesAssumption, Scopes!Columns

LEMMA FieldsOf ==
  ASSUME NEW k \in Scopes!Calls
  PROVE  /\ k.item \in Items /\ k.file \in Files /\ k.project \in Scopes!Columns
         /\ k.set \in BOOLEAN /\ k.given \in (SUBSET Scopes!Columns) \cup {Scopes!Unset}
         /\ k.ids \in SUBSET Items /\ k.restore \in BOOLEAN
BY DEF Scopes!Calls

LEMMA NoCallTyped ==
  /\ Scopes!NoCall \in Scopes!Calls
  /\ Scopes!NoCall.project = Global /\ Scopes!NoCall.given = Scopes!Unset
<1>1. (CHOOSE i \in Items : TRUE) \in Items /\ (CHOOSE f \in Files : TRUE) \in Files
  BY ApprovalsAssumption DEF Scopes!ScopesAssumption
<1>2. Global \in Scopes!Columns
  BY DEF Scopes!Columns
<1> QED
  BY <1>1, <1>2 DEF Scopes!NoCall, Scopes!Calls

\* The calls that a client makes.
SaveCall(i, p, set, g) == [Scopes!NoCall EXCEPT !.item = i, !.project = p, !.set = set, !.given = g]
FileCall(f, p) == [Scopes!NoCall EXCEPT !.file = f, !.project = p]

LEMMA SaveTyped ==
  ASSUME NEW i \in Items, NEW p \in Scopes!Columns, NEW set \in BOOLEAN,
         NEW g \in (SUBSET Scopes!Columns) \cup {Scopes!Unset},
         NEW r, r = SaveCall(i, p, set, g)
  PROVE  /\ r \in Scopes!Calls /\ r.item = i /\ r.project = p /\ r.set = set /\ r.given = g
         /\ ~r.restore
<1>1. (CHOOSE i_1 \in Items : TRUE) \in Items /\ (CHOOSE f \in Files : TRUE) \in Files
  BY ApprovalsAssumption DEF Scopes!ScopesAssumption
<1> QED
  BY <1>1 DEF SaveCall, Scopes!NoCall, Scopes!Calls

LEMMA FileTyped ==
  ASSUME NEW f \in Files, NEW p \in Scopes!Columns,
         NEW r, r = FileCall(f, p)
  PROVE  /\ r \in Scopes!Calls /\ r.file = f /\ r.project = p /\ r.given = Scopes!Unset
<1>1. (CHOOSE i \in Items : TRUE) \in Items /\ (CHOOSE f_1 \in Files : TRUE) \in Files
  BY ApprovalsAssumption DEF Scopes!ScopesAssumption
<1> QED
  BY <1>1 DEF FileCall, Scopes!NoCall, Scopes!Calls

LEMMA ProjectTyped ==
  ASSUME NEW p \in Scopes!Columns, NEW r, r = [Scopes!NoCall EXCEPT !.project = p]
  PROVE  /\ r \in Scopes!Calls /\ r.project = p /\ r.given = Scopes!Unset
<1>1. (CHOOSE i \in Items : TRUE) \in Items /\ (CHOOSE f \in Files : TRUE) \in Files
  BY ApprovalsAssumption DEF Scopes!ScopesAssumption
<1> QED
  BY <1>1 DEF Scopes!NoCall, Scopes!Calls

\* The calls that go on with something they have read.
LEMMA ReadProject ==
  ASSUME NEW k \in Scopes!Calls, NEW p \in Scopes!Columns, NEW r, r = [k EXCEPT !.project = p]
  PROVE  /\ r \in Scopes!Calls /\ r.project = p /\ r.given = k.given /\ r.item = k.item
         /\ r.restore = k.restore
BY DEF Scopes!Calls

LEMMA ReadIds ==
  ASSUME NEW k \in Scopes!Calls, NEW u \in SUBSET Items, NEW r, r = [k EXCEPT !.ids = u]
  PROVE  /\ r \in Scopes!Calls /\ r.project = k.project /\ r.given = k.given /\ r.ids = u
BY DEF Scopes!Calls

LEMMA TurnOf ==
  ASSUME CallsTyped, NEW c \in Callers, NEW s \in Scopes!Steps, NEW r \in Scopes!Calls, Turns(c, s, r)
  PROVE  /\ psPc' \in [Callers -> Scopes!Steps] /\ psCall' \in [Callers -> Scopes!Calls]
         /\ psPc'[c] = s /\ psCall'[c] = r
         /\ \A d \in Callers : d # c => psPc'[d] = psPc[d] /\ psCall'[d] = psCall[d]
BY DEF CallsTyped, Turns

LEMMA CardinalityIs ==
  ASSUME NEW S
  PROVE  Scopes!Cardinality(S) = Cardinality(S)
BY DEF Scopes!Cardinality, Cardinality

LEMMA FiniteIs ==
  ASSUME NEW S, Scopes!IsFiniteSet(S)
  PROVE  IsFiniteSet(S)
BY DEF Scopes!IsFiniteSet, IsFiniteSet

\* With one caller at work every other one is idle.
LEMMA AloneIs ==
  ASSUME ScopesTyped, Scopes!Alone, NEW c \in load.callers, NEW d \in Callers, d # c
  PROVE  psPc[d] = "idle"
<1>1. IsFiniteSet(load.callers)
  <2>1. load.callers \subseteq Callers /\ IsFiniteSet(Callers)
    BY LoadOf, ApprovalsAssumption, FiniteIs DEF ScopesTyped, DataTyped, Scopes!ScopesAssumption
  <2> QED
    BY <2>1, FS_Subset
<1>2. Cardinality(load.callers) = 1
  BY CardinalityIs DEF Scopes!Alone
<1>3. PICK x : load.callers = {x}
  BY <1>1, <1>2, FS_Singleton
<1> QED
  BY <1>3 DEF ScopesTyped, CallsTyped, CallTyped

(* What a turn of a caller leaves to be shown: s is the step it comes to,  *)
(* r what it then holds.                                                   *)

LEMMA CallsTurn ==
  ASSUME DataTyped, CallsTyped, load' = load, NEW c \in load.callers, NEW s \in Scopes!Steps,
         NEW r \in Scopes!Calls, Turns(c, s, r),
         s \in {"jobChecked"} \cup Scopes!Deleting => r.project \in Projects,
         s = "selected" => r.item \in kept',
         \A d \in Callers : d # c /\ psPc[d] = "selected" => psCall[d].item \in kept'
  PROVE  CallsTyped'
<1>1. c \in Callers
  BY LoadOf DEF DataTyped
<1>2. /\ psPc' \in [Callers -> Scopes!Steps] /\ psCall' \in [Callers -> Scopes!Calls]
      /\ psPc'[c] = s /\ psCall'[c] = r
      /\ \A d \in Callers : d # c => psPc'[d] = psPc[d] /\ psCall'[d] = psCall[d]
  BY <1>1, TurnOf
<1>3. ASSUME NEW d \in Callers PROVE CallTyped(d)'
  <2>1. CASE d = c
    BY <1>2, <2>1 DEF CallTyped
  <2>2. CASE d # c
    BY <1>2, <2>2 DEF CallsTyped, CallTyped
  <2> QED
    BY <2>1, <2>2
<1> QED
  BY <1>2, <1>3 DEF CallsTyped

LEMMA InsertingIs ==
  ASSUME NEW p \in Projects
  PROVE  /\ IsFiniteSet(Inserting(p)) /\ Cardinality(Inserting(p)) \in Nat
         /\ ScopesTyped => refs[p] \in Nat /\ MaxRefs \in Nat
<1>1. IsFiniteSet(Inserting(p))
  <2>1. Inserting(p) \subseteq Callers /\ IsFiniteSet(Callers)
    BY ApprovalsAssumption, FiniteIs DEF Inserting, Scopes!ScopesAssumption
  <2> QED
    BY <2>1, FS_Subset
<1>2. MaxRefs \in Nat
  BY ApprovalsAssumption DEF Scopes!ScopesAssumption
<1> QED
  BY <1>1, <1>2, FS_CardinalityType DEF ScopesTyped, DataTyped

\* A turn to or from anything but the insertion of a row.
LEMMA RefsTurn ==
  ASSUME CallsTyped, RefsFit, refs' = refs, NEW c \in Callers, NEW s \in Scopes!Steps,
         NEW r \in Scopes!Calls, Turns(c, s, r), psPc[c] # "jobChecked", s # "jobChecked"
  PROVE  RefsFit'
<1>1. ASSUME NEW p \in Projects PROVE Inserting(p)' = Inserting(p)
  BY TurnOf DEF Inserting
<1> QED
  BY <1>1 DEF RefsFit

LEMMA RefsChecked ==
  ASSUME ScopesTyped, refs' = refs, NEW c \in Callers, NEW r \in Scopes!Calls,
         Turns(c, "jobChecked", r), psPc[c] # "jobChecked",
         refs[r.project] + Cardinality(Inserting(r.project)) < MaxRefs
  PROVE  RefsFit'
<1>1. /\ psPc'[c] = "jobChecked" /\ psCall'[c] = r
      /\ \A d \in Callers : d # c => psPc'[d] = psPc[d] /\ psCall'[d] = psCall[d]
  BY TurnOf DEF ScopesTyped, Scopes!Steps
<1>2. ASSUME NEW p \in Projects PROVE refs[p] + Cardinality(Inserting(p)') <= MaxRefs
  <2>1. CASE p = r.project
    <3>1. Inserting(p)' = Inserting(p) \cup {c} /\ c \notin Inserting(p)
      BY <1>1, <2>1 DEF Inserting
    <3>2. Cardinality(Inserting(p)') = Cardinality(Inserting(p)) + 1
      BY <3>1, InsertingIs, FS_AddElement
    <3> QED
      BY <2>1, <3>2, InsertingIs
  <2>2. CASE p # r.project
    <3>1. Inserting(p)' = Inserting(p)
      BY <1>1, <2>2 DEF Inserting
    <3> QED
      BY <3>1 DEF ScopesTyped, RefsFit
  <2> QED
    BY <2>1, <2>2
<1> QED
  BY <1>2 DEF RefsFit

LEMMA ExclusionTurn ==
  ASSUME ScopesTyped, Scopes!DeletionExcludesReferences, NEW c \in Callers, NEW s \in Scopes!Steps,
         NEW r \in Scopes!Calls, Turns(c, s, r),
         s \in Scopes!Deleting => psPc[c] \in Scopes!Deleting /\ r.project = psCall[c].project,
         \A d \in Callers : psPc[d] \in Scopes!Deleting /\ psPc'[d] \in Scopes!Deleting
           => status'[psCall[d].project] = "active" /\ refs'[psCall[d].project] = 0
  PROVE  Scopes!DeletionExcludesReferences'
<1>1. /\ psPc'[c] = s /\ psCall'[c] = r
      /\ \A d \in Callers : d # c => psPc'[d] = psPc[d] /\ psCall'[d] = psCall[d]
  BY TurnOf DEF ScopesTyped
<1>2. ASSUME NEW d \in Callers, psPc'[d] \in Scopes!Deleting
      PROVE  psPc[d] \in Scopes!Deleting /\ psCall'[d].project = psCall[d].project
  BY <1>1, <1>2
<1> QED
  BY <1>2 DEF Scopes!DeletionExcludesReferences

LEMMA AgreesTurn ==
  ASSUME ScopesTyped, Scopes!Alone, load' = load, NEW c \in load.callers, NEW s \in Scopes!Steps,
         NEW r \in Scopes!Calls, Turns(c, s, r), CallAgrees(c)',
         \A p \in Projects : Gone(p)' => refs'[p] = 0 /\ Detached(p)' /\ DetachedFiles(p)'
  PROVE  AloneAgrees'
<1>1. c \in Callers
  BY LoadOf DEF ScopesTyped, DataTyped
<1>2. ASSUME NEW d \in Callers PROVE CallAgrees(d)'
  <2>1. CASE d # c
    <3>1. psPc'[d] = "idle"
      BY <1>1, <2>1, TurnOf, AloneIs DEF ScopesTyped
    <3> QED
      BY <3>1 DEF CallAgrees
  <2> QED
    BY <2>1
<1> QED
  BY <1>2 DEF AloneAgrees

\* A turn that changes none of the databases.
LEMMA QuietTurn ==
  ASSUME ScopesInv, UNCHANGED data, NEW c \in load.callers, NEW s \in Scopes!Steps,
         NEW r \in Scopes!Calls, Turns(c, s, r), psPc[c] # "jobChecked",
         s \in {"jobChecked"} \cup Scopes!Deleting => r.project \in Projects,
         s = "selected" => r.item \in kept,
         s = "jobChecked" => refs[r.project] + Cardinality(Inserting(r.project)) < MaxRefs,
         s \in Scopes!Deleting =>
           \/ psPc[c] \in Scopes!Deleting /\ r.project = psCall[c].project
           \/ Scopes!WriterFree /\ status[r.project] = "active" /\ refs[r.project] = 0,
         Scopes!Alone /\ AloneAgrees => CallAgrees(c)',
         \A i \in kept : BeingSaved(i, c) =>
           BeingSaved(i, c)' \/ (Scopes!Alone /\ AloneAgrees => RowsAgree(i))
  PROVE  ScopesInv'
<1>1. c \in Callers
  BY LoadOf DEF ScopesInv, ScopesTyped, DataTyped
<1>2. /\ psPc'[c] = s /\ psCall'[c] = r
      /\ \A d \in Callers : d # c => psPc'[d] = psPc[d] /\ psCall'[d] = psCall[d]
  BY <1>1, TurnOf DEF ScopesInv, ScopesTyped
<1>3. UNCHANGED <<load, status, refs, kept, column, revisions, scopes, primary, audit, restored, files>>
  BY DEF data
<1>4. ScopesTyped'
  <2>1. DataTyped'
    BY <1>3 DEF ScopesInv, ScopesTyped, DataTyped
  <2>2. CallsTyped'
    BY <1>3, CallsTurn DEF ScopesInv, ScopesTyped, CallsTyped, CallTyped
  <2>3. RefsFit'
    <3>1. CASE s = "jobChecked"
      BY <1>1, <1>3, <3>1, RefsChecked DEF ScopesInv
    <3>2. CASE s # "jobChecked"
      BY <1>1, <1>3, <3>2, RefsTurn DEF ScopesInv, ScopesTyped
    <3> QED
      BY <3>1, <3>2
  <2> QED
    BY <2>1, <2>2, <2>3 DEF ScopesTyped
<1>5. Scopes!DeletionExcludesReferences'
  <2>1. CASE s \in Scopes!Deleting => psPc[c] \in Scopes!Deleting /\ r.project = psCall[c].project
    BY <1>1, <1>3, <2>1, ExclusionTurn DEF ScopesInv, Scopes!DeletionExcludesReferences
  <2>2. CASE Scopes!WriterFree /\ status[r.project] = "active" /\ refs[r.project] = 0
    BY <1>2, <1>3, <2>2 DEF Scopes!DeletionExcludesReferences, Scopes!WriterFree
  <2> QED
    BY <2>1, <2>2
<1>6. ASSUME Scopes!Alone PROVE AloneAgrees'
  <2>1. AloneAgrees /\ CallAgrees(c)'
    BY <1>6 DEF ScopesInv
  <2>2. ASSUME NEW p \in Projects, Gone(p)' PROVE refs'[p] = 0 /\ Detached(p)' /\ DetachedFiles(p)'
    <3>1. Gone(p)
      BY <1>3, <2>2 DEF Gone
    <3> QED
      BY <1>3, <2>1, <3>1 DEF AloneAgrees, Detached, DetachedFiles
  <2> QED
    BY <1>3, <1>6, <2>1, <2>2, AgreesTurn DEF ScopesInv
<1>7. ASSUME Scopes!Alone, ~load.crash, NEW i \in kept
      PROVE  RowsAgree(i)' \/ \E d \in Callers : BeingSaved(i, d)'
  <2>1. RowsAgree(i) => RowsAgree(i)'
    BY <1>3 DEF RowsAgree, Restored, Scopes!Unassigned, Scopes!IsUnassigned
  <2>2. ASSUME NEW d \in Callers, BeingSaved(i, d) PROVE BeingSaved(i, d)' \/ RowsAgree(i)
    <3>1. CASE d = c
      BY <1>7, <2>2, <3>1 DEF ScopesInv
    <3>2. CASE d # c
      BY <1>2, <1>3, <2>2, <3>2 DEF BeingSaved
    <3> QED
      BY <3>1, <3>2
  <2> QED
    BY <1>7, <2>1, <2>2 DEF ScopesInv
<1>8. Scopes!Alone' = Scopes!Alone
  BY <1>3 DEF Scopes!Alone
<1> QED
  BY <1>3, <1>4, <1>5, <1>6, <1>7, <1>8 DEF ScopesInv

LEMMA QuietEnd ==
  ASSUME ScopesInv, UNCHANGED data, NEW c \in load.callers, Scopes!Ends(c), psPc[c] # "jobChecked",
         \A i \in kept : BeingSaved(i, c) => (Scopes!Alone /\ AloneAgrees => RowsAgree(i))
  PROVE  ScopesInv'
<1>1. Turns(c, "idle", Scopes!NoCall) /\ Scopes!NoCall \in Scopes!Calls
  BY NoCallTyped DEF Scopes!Ends, Turns
<1>2. c \in Callers
  BY LoadOf DEF ScopesInv, ScopesTyped, DataTyped
<1>3. psPc'[c] = "idle"
  BY <1>1, <1>2, TurnOf DEF ScopesInv, ScopesTyped, Scopes!Steps
<1>4. CallAgrees(c)'
  BY <1>3 DEF CallAgrees
<1> QED
  BY <1>1, <1>4, QuietTurn DEF Scopes!Steps, Scopes!Deleting

LEMMA UsableIs ==
  ASSUME NEW p, Scopes!Usable(p)
  PROVE  ~Gone(p)
BY ApprovalsAssumption DEF Scopes!ScopesAssumption, Scopes!Usable, Gone

\* A call begins, after the checks of what it names.
LEMMA QuietStart ==
  ASSUME ScopesInv, UNCHANGED <<load, status, refs, Scopes!knowledge, files>>, NEW c \in load.callers,
         NEW s \in {"jobChecked", "createChecked", "updateChecked", "fileChecked", "deleting"},
         NEW r \in Scopes!Calls, Scopes!Starts(c, s, r), Scopes!Usable(r.project),
         r.given = Scopes!Unset \/ Scopes!Allowed(r.given),
         s = "updateChecked" /\ ~r.set => Scopes!Usable(column[r.item]),
         s = "createChecked" => ~r.restore,
         s \in {"jobChecked", "deleting"} => r.project \in Projects,
         s = "jobChecked" => refs[r.project] + Cardinality(Inserting(r.project)) < MaxRefs,
         s = "deleting" => Scopes!WriterFree /\ status[r.project] = "active" /\ refs[r.project] = 0
  PROVE  ScopesInv'
<1>1. Turns(c, s, r) /\ psPc[c] = "idle"
  BY DEF Scopes!Starts, Scopes!Idle, Turns
<1>2. c \in Callers /\ s \in Scopes!Steps
  BY LoadOf DEF ScopesInv, ScopesTyped, DataTyped, Scopes!Steps, Scopes!Deleting
<1>3. psPc'[c] = s /\ psCall'[c] = r
  BY <1>1, <1>2, TurnOf DEF ScopesInv, ScopesTyped
<1>4. UNCHANGED data /\ status' = status
  BY DEF Scopes!knowledge, data
<1>5. CallAgrees(c)'
  <2>1. ~Gone(r.project) /\ (r.given = Scopes!Unset \/ \A p \in r.given : ~Gone(p))
    BY UsableIs DEF Scopes!Allowed
  <2>2. s = "updateChecked" /\ ~r.set => ~Gone(column[r.item])
    BY UsableIs
  <2> QED
    BY <1>3, <1>4, <2>1, <2>2 DEF data, CallAgrees, Gone
<1>6. \A i \in kept : ~BeingSaved(i, c)
  BY <1>1 DEF BeingSaved
<1> QED
  BY <1>1, <1>2, <1>4, <1>5, <1>6, QuietTurn DEF Scopes!Deleting

LEMMA ScopesChecks ==
  ASSUME ScopesInv, NEW c \in load.callers, NEW p \in load.projects,
         Scopes!CreateJobChecks(c, p) \/ Scopes!DeleteBegins(c, p)
  PROVE  ScopesInv'
<1>1. PICK r : r = [Scopes!NoCall EXCEPT !.project = p]
  OBVIOUS
<1>2. p \in Projects /\ p \in Scopes!Columns
  BY LoadOf DEF ScopesInv, ScopesTyped, DataTyped, Scopes!Columns
<1>3. r \in Scopes!Calls /\ r.project = p /\ r.given = Scopes!Unset
  BY <1>1, <1>2, ProjectTyped
<1>4. CASE Scopes!CreateJobChecks(c, p)
  <2>1. /\ status[p] = "active" /\ Scopes!Starts(c, "jobChecked", r)
        /\ refs[p] + Scopes!Cardinality(Inserting(p)) < MaxRefs
        /\ UNCHANGED <<load, status, refs, Scopes!knowledge, files>>
    BY <1>1, <1>4 DEF Scopes!CreateJobChecks, Inserting
  <2>2. refs[p] + Cardinality(Inserting(p)) < MaxRefs
    BY <2>1, CardinalityIs
  <2> QED
    BY <1>2, <1>3, <2>1, <2>2, QuietStart DEF Scopes!Usable
<1>5. CASE Scopes!DeleteBegins(c, p)
  <2>1. /\ Scopes!WriterFree /\ status[p] = "active" /\ refs[p] = 0 /\ Scopes!Starts(c, "deleting", r)
        /\ UNCHANGED <<load, status, refs, Scopes!knowledge, files>>
    BY <1>1, <1>5 DEF Scopes!DeleteBegins
  <2> QED
    BY <1>2, <1>3, <2>1, QuietStart DEF Scopes!Usable
<1> QED
  BY <1>4, <1>5

LEMMA ScopesSaves ==
  ASSUME ScopesInv, NEW c \in load.callers, NEW i \in Items, NEW p \in Scopes!UsedColumns,
         NEW g \in load.given \cup {Scopes!Unset},
         Scopes!CreateChecks(c, i, p, g) \/ \E set \in BOOLEAN : Scopes!UpdateChecks(c, i, p, set, g)
  PROVE  ScopesInv'
<1>1. p \in Scopes!Columns /\ g \in (SUBSET Scopes!Columns) \cup {Scopes!Unset} /\ Global \in Scopes!Columns
  BY LoadOf DEF ScopesInv, ScopesTyped, DataTyped, Scopes!Columns, Scopes!UsedColumns
<1>2. CASE Scopes!CreateChecks(c, i, p, g)
  <2>0. PICK set \in BOOLEAN : set = TRUE
    OBVIOUS
  <2>1. PICK r : r = SaveCall(i, p, set, g)
    OBVIOUS
  <2>2. /\ Scopes!Usable(p) /\ Scopes!Allowed(g) /\ Scopes!Starts(c, "createChecked", r)
        /\ UNCHANGED <<load, status, refs, Scopes!knowledge, files>>
    BY <1>2, <2>0, <2>1 DEF Scopes!CreateChecks, SaveCall
  <2>3. r \in Scopes!Calls /\ r.project = p /\ r.given = g /\ ~r.restore
    BY <1>1, <2>1, SaveTyped
  <2> QED
    BY <2>2, <2>3, QuietStart
<1>3. ASSUME NEW set \in BOOLEAN, Scopes!UpdateChecks(c, i, p, set, g) PROVE ScopesInv'
  <2>1. PICK q : q = IF set THEN p ELSE Global
    OBVIOUS
  <2>2. PICK r : r = SaveCall(i, q, set, g)
    OBVIOUS
  <2>3. /\ Scopes!Usable(IF set THEN p ELSE column[i]) /\ Scopes!Allowed(g)
        /\ Scopes!Starts(c, "updateChecked", r)
        /\ UNCHANGED <<load, status, refs, Scopes!knowledge, files>>
    BY <1>3, <2>1, <2>2 DEF Scopes!UpdateChecks, SaveCall
  <2>4. q \in Scopes!Columns /\ Scopes!Usable(q)
    BY <1>1, <2>1, <2>3 DEF Scopes!Usable
  <2>5. r \in Scopes!Calls /\ r.project = q /\ r.given = g /\ r.item = i /\ r.set = set
    BY <1>1, <2>2, <2>4, SaveTyped
  <2>6. ~r.set => Scopes!Usable(column[r.item])
    BY <2>3, <2>5
  <2> QED
    BY <2>3, <2>4, <2>5, <2>6, QuietStart
<1> QED
  BY <1>2, <1>3

LEMMA ScopesFileChecks ==
  ASSUME ScopesInv, NEW c \in load.callers, NEW f \in Files, NEW p \in Scopes!UsedColumns,
         Scopes!SaveFileChecks(c, f, p)
  PROVE  ScopesInv'
<1>1. p \in Scopes!Columns
  BY LoadOf DEF ScopesInv, ScopesTyped, DataTyped, Scopes!Columns, Scopes!UsedColumns
<1>2. PICK r : r = FileCall(f, p)
  OBVIOUS
<1>3. r \in Scopes!Calls /\ r.project = p /\ r.given = Scopes!Unset
  BY <1>1, <1>2, FileTyped
<1>4. /\ Scopes!Usable(p) /\ Scopes!Starts(c, "fileChecked", r)
      /\ UNCHANGED <<load, status, refs, Scopes!knowledge, files>>
  BY <1>2 DEF Scopes!SaveFileChecks, FileCall
<1> QED
  BY <1>3, <1>4, QuietStart

\* A restoration names what a revision names, and nothing is known of that.
RestoreCall(i, p) ==
  [Scopes!NoCall EXCEPT !.item = i, !.project = p, !.set = TRUE, !.restore = TRUE]

LEMMA ScopesRestoreReads ==
  ASSUME ScopesInv, NEW c \in load.callers, NEW i \in Items, NEW p \in Scopes!Columns,
         Scopes!RestoreReads(c, i, p)
  PROVE  ScopesInv'
<1>1. PICK r : r = RestoreCall(i, p)
  OBVIOUS
<1>2. r \in Scopes!Calls /\ r.item = i /\ r.project = p /\ r.set /\ r.restore /\ r.given = Scopes!Unset
  <2>1. (CHOOSE i_1 \in Items : TRUE) \in Items /\ (CHOOSE f \in Files : TRUE) \in Files
    BY ApprovalsAssumption DEF Scopes!ScopesAssumption
  <2> QED
    BY <1>1, <2>1 DEF RestoreCall, Scopes!NoCall, Scopes!Calls
<1>3. /\ Turns(c, "updateChecked", r) /\ psPc[c] = "idle"
      /\ UNCHANGED <<load, status, refs, Scopes!knowledge, files>>
  BY <1>1 DEF Scopes!RestoreReads, RestoreCall, Scopes!Starts, Scopes!Idle, Turns
<1>4. "updateChecked" \in Scopes!Steps /\ "updateChecked" \notin Scopes!Deleting /\ c \in Callers
  BY LoadOf DEF ScopesInv, ScopesTyped, DataTyped, Scopes!Steps, Scopes!Deleting
<1>5. psPc'[c] = "updateChecked" /\ psCall'[c] = r
  BY <1>2, <1>3, <1>4, TurnOf DEF ScopesInv, ScopesTyped
<1>6. UNCHANGED data
  BY <1>3 DEF Scopes!knowledge, data
<1>7. CallAgrees(c)'
  BY <1>2, <1>5 DEF CallAgrees
<1>8. \A j \in kept : ~BeingSaved(j, c)
  BY <1>3 DEF BeingSaved
<1> QED
  BY <1>2, <1>3, <1>4, <1>6, <1>7, <1>8, QuietTurn

\* A refused restoration leaves its item with a project that is not active, which is on record.
LEMMA ScopesRestoreRequires ==
  ASSUME ScopesInv, NEW c \in load.callers, Scopes!RestoreRequires(c)
  PROVE  ScopesInv'
<1> DEFINE p == psCall[c].project
<1>1. psPc[c] = "updated" /\ UNCHANGED <<load, status, refs, Scopes!knowledge, files>>
  BY DEF Scopes!RestoreRequires, Scopes!Goes
<1>2. UNCHANGED data /\ status' = status /\ column' = column /\ kept' = kept
  BY <1>1 DEF Scopes!knowledge, data
<1>3. c \in Callers /\ psCall[c] \in Scopes!Calls
  BY LoadOf DEF ScopesInv, ScopesTyped, DataTyped, CallsTyped
<1>4. CASE Scopes!Usable(p)
  <2>1. Scopes!Goes(c, "updated", "fetched")
    BY <1>4 DEF Scopes!RestoreRequires
  <2>2. "fetched" \in Scopes!Steps /\ "fetched" \notin {"jobChecked"} \cup Scopes!Deleting
    BY DEF Scopes!Steps, Scopes!Deleting
  <2>3. Turns(c, "fetched", psCall[c]) /\ psPc'[c] = "fetched" /\ psCall' = psCall
    BY <1>3, <2>1, <2>2 DEF Scopes!Goes, Turns, ScopesInv, ScopesTyped, CallsTyped
  <2>4. ~Gone(p)
    BY <1>4, UsableIs
  <2>5. Scopes!Alone /\ AloneAgrees => CallAgrees(c)'
    <3>1. AloneAgrees => CallAgrees(c)
      BY <1>3 DEF AloneAgrees
    <3> QED
      BY <1>1, <1>2, <2>3, <2>4, <3>1 DEF CallAgrees, Gone, Scopes!Usable
  <2>6. \A j \in kept : BeingSaved(j, c) => BeingSaved(j, c)'
    BY <2>3 DEF BeingSaved
  <2> QED
    BY <1>1, <1>2, <1>3, <2>2, <2>3, <2>5, <2>6, QuietTurn
<1>5. CASE ~Scopes!Usable(p)
  <2>1. Scopes!Ends(c)
    BY <1>5 DEF Scopes!RestoreRequires
  <2>2. ASSUME NEW j \in kept, BeingSaved(j, c), AloneAgrees PROVE RowsAgree(j)
    <3>1. <<j, p>> \in restored
      BY <1>1, <1>3, <1>5, <2>2 DEF AloneAgrees, CallAgrees, BeingSaved
    <3>2. Restored(j)
      BY <3>1 DEF Restored
    <3> QED
      BY <3>2 DEF RowsAgree
  <2> QED
    BY <1>1, <1>2, <2>1, <2>2, QuietEnd
<1> QED
  BY <1>4, <1>5

\* The project of an item that is saved without one is the item's own, which was found active.
LEMMA ScopesUpdateSelects ==
  ASSUME ScopesInv, NEW c \in load.callers, Scopes!UpdateSelects(c)
  PROVE  ScopesInv'
<1> DEFINE i == psCall[c].item
           q == IF psCall[c].set THEN psCall[c].project ELSE column[i]
<1>1. /\ psPc[c] = "updateChecked" /\ UNCHANGED <<load, status, refs, Scopes!knowledge, files>>
  BY DEF Scopes!UpdateSelects
<1>2. UNCHANGED data /\ status' = status
  BY <1>1 DEF Scopes!knowledge, data
<1>3. \A j \in kept : ~BeingSaved(j, c)
  BY <1>1 DEF BeingSaved
<1>4. c \in Callers /\ psCall[c] \in Scopes!Calls /\ DataTyped
  BY LoadOf DEF ScopesInv, ScopesTyped, DataTyped, CallsTyped
<1>5. CASE i \notin kept
  BY <1>1, <1>2, <1>3, <1>5, QuietEnd DEF Scopes!UpdateSelects
<1>6. CASE i \in kept
  <2>1. PICK r : r = [psCall[c] EXCEPT !.project = q]
    OBVIOUS
  <2>2. q \in Scopes!Columns
    BY <1>4, <1>6, FieldsOf DEF DataTyped
  <2>3. r \in Scopes!Calls /\ r.project = q /\ r.given = psCall[c].given /\ r.item = i
        /\ r.restore = psCall[c].restore
    BY <1>4, <2>1, <2>2, ReadProject
  <2>4. Turns(c, "selected", r)
    <3>1. psCall' = [psCall EXCEPT ![c].project = IF psCall[c].set THEN psCall[c].project ELSE column[i]]
      BY <1>6 DEF Scopes!UpdateSelects
    <3> QED
      BY <1>6, <2>1, <3>1 DEF Scopes!UpdateSelects, Turns
  <2>5. psPc'[c] = "selected" /\ psCall'[c] = r
    BY <1>4, <2>3, <2>4, TurnOf DEF ScopesInv, ScopesTyped, Scopes!Steps
  <2>6. ASSUME Scopes!Alone, AloneAgrees PROVE CallAgrees(c)'
    <3>1. CallAgrees(c)
      BY <1>4, <2>6 DEF AloneAgrees
    <3>2. psCall[c].set \/ ~Gone(column[i])
      BY <1>1, <1>6, <3>1 DEF CallAgrees
    <3>3. ~Gone(q) \/ psCall[c].restore
      BY <1>1, <3>1, <3>2 DEF CallAgrees
    <3>4. psCall[c].given = Scopes!Unset \/ \A p \in psCall[c].given : ~Gone(p)
      BY <1>1, <3>1 DEF CallAgrees
    <3> QED
      BY <1>2, <2>3, <2>5, <3>3, <3>4 DEF CallAgrees, Gone, Scopes!Usable
  <2> QED
    BY <1>1, <1>2, <1>3, <1>6, <2>3, <2>4, <2>6, QuietTurn DEF Scopes!Steps, Scopes!Deleting
<1> QED
  BY <1>5, <1>6

LEMMA ScopesFetch ==
  ASSUME ScopesInv, NEW c \in load.callers, Scopes!Fetch(c)
  PROVE  ScopesInv'
<1> DEFINE i == psCall[c].item
<1>1. psPc[c] = "stored" /\ UNCHANGED <<load, status, refs, Scopes!knowledge, files>>
  BY DEF Scopes!Fetch
<1>2. UNCHANGED data /\ status' = status /\ column' = column
  BY <1>1 DEF Scopes!knowledge, data
<1>3. c \in Callers /\ psCall[c] \in Scopes!Calls /\ DataTyped
  BY LoadOf DEF ScopesInv, ScopesTyped, DataTyped, CallsTyped
<1>4. CASE i \notin kept
  <2>1. \A j \in kept : ~BeingSaved(j, c)
    BY <1>4 DEF BeingSaved
  <2> QED
    BY <1>1, <1>2, <1>4, <2>1, QuietEnd DEF Scopes!Fetch
<1>5. CASE i \in kept
  <2>1. PICK r : r = [psCall[c] EXCEPT !.project = column[i]]
    OBVIOUS
  <2>2. column[i] \in Scopes!Columns
    BY <1>3, <1>5, FieldsOf DEF DataTyped
  <2>3. r \in Scopes!Calls /\ r.project = column[i] /\ r.given = psCall[c].given /\ r.item = i
        /\ r.restore = psCall[c].restore
    BY <1>3, <2>1, <2>2, ReadProject
  <2>0. PICK s : s = IF psCall[c].restore THEN "updated" ELSE "fetched"
    OBVIOUS
  <2>4. Turns(c, s, r)
    <3>1. psPc' = [psPc EXCEPT ![c] = s] /\ psCall' = [psCall EXCEPT ![c].project = column[i]]
      BY <1>5, <2>0 DEF Scopes!Fetch
    <3> QED
      BY <2>1, <3>1 DEF Turns
  <2>8. s \in Scopes!Steps /\ s \notin {"jobChecked", "selected"} \cup Scopes!Deleting
    BY <2>0 DEF Scopes!Steps, Scopes!Deleting
  <2>5. psPc'[c] = s /\ psCall'[c] = r
    BY <1>3, <2>3, <2>4, <2>8, TurnOf DEF ScopesInv, ScopesTyped
  <2>6. ASSUME Scopes!Alone, AloneAgrees PROVE CallAgrees(c)'
    <3>1. CallAgrees(c)
      BY <1>3, <2>6 DEF AloneAgrees
    <3>2. column[i] = psCall[c].project
      BY <1>1, <3>1 DEF CallAgrees
    <3>3. psCall[c].given = Scopes!Unset \/ \A p \in psCall[c].given : ~Gone(p)
      BY <1>1, <3>1 DEF CallAgrees
    <3> QED
      BY <1>1, <1>2, <2>0, <2>3, <2>5, <2>8, <3>1, <3>2, <3>3
        DEF data, CallAgrees, Gone, Scopes!Usable, Scopes!Deleting
  <2>7. \A j \in kept : BeingSaved(j, c) => BeingSaved(j, c)'
    BY <1>2, <2>0, <2>3, <2>5 DEF BeingSaved
  <2> QED
    BY <1>1, <1>2, <2>3, <2>4, <2>6, <2>7, <2>8, QuietTurn
<1> QED
  BY <1>4, <1>5

LEMMA ScopesDetachReads ==
  ASSUME ScopesInv, NEW c \in load.callers, Scopes!DetachReads(c)
  PROVE  ScopesInv'
<1> DEFINE u == Scopes!Affected(psCall[c].project)
<1>1. /\ psPc[c] = "deleting" /\ psPc' = [psPc EXCEPT ![c] = "detaching"]
      /\ psCall' = [psCall EXCEPT ![c].ids = u]
      /\ UNCHANGED <<load, status, refs, Scopes!knowledge, files>>
  BY DEF Scopes!DetachReads
<1>2. UNCHANGED data /\ UNCHANGED <<status, kept, scopes, column>>
  BY <1>1 DEF Scopes!knowledge, data
<1>3. c \in Callers /\ psCall[c] \in Scopes!Calls /\ DataTyped /\ psCall[c].project \in Projects
  BY <1>1, LoadOf DEF ScopesInv, ScopesTyped, DataTyped, CallsTyped, CallTyped, Scopes!Deleting
<1>4. PICK r : r = [psCall[c] EXCEPT !.ids = u]
  OBVIOUS
<1>5. u \in SUBSET Items
  BY <1>3 DEF Scopes!Affected, DataTyped
<1>6. r \in Scopes!Calls /\ r.project = psCall[c].project /\ r.given = psCall[c].given /\ r.ids = u
  BY <1>3, <1>4, <1>5, ReadIds
<1>7. Turns(c, "detaching", r)
  BY <1>1, <1>4 DEF Turns
<1>8. psPc'[c] = "detaching" /\ psCall'[c] = r
  BY <1>3, <1>6, <1>7, TurnOf DEF ScopesInv, ScopesTyped, Scopes!Steps, Scopes!Deleting
<1>9. ASSUME Scopes!Alone, AloneAgrees PROVE CallAgrees(c)'
  <2>1. CallAgrees(c)
    BY <1>3, <1>9 DEF AloneAgrees
  <2> QED
    BY <1>1, <1>2, <1>6, <1>8, <2>1 DEF CallAgrees, Gone, Scopes!Affected
<1>10. \A j \in kept : ~BeingSaved(j, c)
  BY <1>1 DEF BeingSaved
<1> QED
  BY <1>1, <1>2, <1>3, <1>6, <1>7, <1>9, <1>10, QuietTurn DEF Scopes!Steps, Scopes!Deleting

LEMMA ScopesDeleteFails ==
  ASSUME ScopesInv, NEW c \in load.callers, Scopes!DeleteFails(c)
  PROVE  ScopesInv'
<1>1. psPc[c] \in Scopes!Deleting /\ Scopes!Ends(c) /\ UNCHANGED data
  BY DEF Scopes!DeleteFails, Scopes!knowledge, data
<1>2. \A i \in kept : ~BeingSaved(i, c)
  BY <1>1 DEF BeingSaved, Scopes!Deleting
<1> QED
  BY <1>1, <1>2, QuietEnd DEF Scopes!Deleting

\* A turn that writes to a database.
LEMMA WritingTurn ==
  ASSUME ScopesInv, NEW c \in load.callers, NEW s \in Scopes!Steps \ {"selected"},
         NEW r \in Scopes!Calls, Turns(c, s, r), load' = load, DataTyped', RefsFit',
         s \in {"jobChecked"} \cup Scopes!Deleting => r.project \in Projects,
         \A d \in Callers : d # c /\ psPc[d] = "selected" => psCall[d].item \in kept',
         s \in Scopes!Deleting => psPc[c] \in Scopes!Deleting /\ r.project = psCall[c].project,
         \A d \in Callers : psPc[d] \in Scopes!Deleting /\ psPc'[d] \in Scopes!Deleting
           => status'[psCall[d].project] = "active" /\ refs'[psCall[d].project] = 0,
         Scopes!Alone /\ AloneAgrees =>
           /\ CallAgrees(c)'
           /\ \A p \in Projects : Gone(p)' => refs'[p] = 0 /\ Detached(p)' /\ DetachedFiles(p)',
         Scopes!Alone /\ AloneAgrees /\ (\A i \in kept : RowsAgree(i) \/ BeingSaved(i, c))
           => \A i \in kept' : RowsAgree(i)' \/ BeingSaved(i, c)'
  PROVE  ScopesInv'
<1>1. c \in Callers
  BY LoadOf DEF ScopesInv, ScopesTyped, DataTyped
<1>2. ScopesTyped'
  BY CallsTurn DEF ScopesInv, ScopesTyped
<1>3. Scopes!DeletionExcludesReferences'
  BY <1>1, ExclusionTurn DEF ScopesInv
<1>4. ASSUME Scopes!Alone PROVE AloneAgrees'
  BY <1>4, AgreesTurn DEF ScopesInv
<1>5. ASSUME Scopes!Alone, ~load.crash, NEW i \in kept'
      PROVE  \/ RowsAgree(i)'
             \/ \E d \in Callers : BeingSaved(i, d)'
  <2>1. ASSUME NEW j \in kept PROVE RowsAgree(j) \/ BeingSaved(j, c)
    <3>1. ASSUME NEW d \in Callers, BeingSaved(j, d) PROVE d = c
      BY <1>5, <3>1, AloneIs DEF ScopesInv, BeingSaved
    <3> QED
      BY <1>5, <3>1 DEF ScopesInv
  <2>2. AloneAgrees
    BY <1>5 DEF ScopesInv
  <2> QED
    BY <1>1, <1>5, <2>1, <2>2
<1>6. Scopes!Alone' = Scopes!Alone
  BY DEF Scopes!Alone
<1> QED
  BY <1>2, <1>3, <1>4, <1>5, <1>6 DEF ScopesInv

LEMMA ActorOf ==
  ASSUME ScopesInv, NEW c \in load.callers
  PROVE  /\ c \in Callers /\ psPc[c] \in Scopes!Steps /\ psCall[c] \in Scopes!Calls
         /\ Turns(c, psPc[c], psCall[c]) <=> UNCHANGED <<psPc, psCall>>
         /\ DataTyped /\ CallTyped(c) /\ RefsFit /\ CallsTyped
<1>1. c \in Callers /\ DataTyped /\ CallTyped(c) /\ RefsFit /\ CallsTyped
  BY LoadOf DEF ScopesInv, ScopesTyped, DataTyped, CallsTyped
<1> QED
  BY <1>1 DEF CallsTyped, Turns

LEMMA EndsTurns ==
  ASSUME NEW c, Scopes!Ends(c)
  PROVE  Turns(c, "idle", Scopes!NoCall) /\ Scopes!NoCall \in Scopes!Calls
         /\ "idle" \in Scopes!Steps /\ "idle" \notin Scopes!Deleting
BY NoCallTyped DEF Scopes!Ends, Turns, Scopes!Steps, Scopes!Deleting

LEMMA GoesTurns ==
  ASSUME ScopesInv, NEW c \in load.callers, NEW from, NEW to \in Scopes!Steps, Scopes!Goes(c, from, to)
  PROVE  /\ Turns(c, to, psCall[c]) /\ psPc[c] = from
         /\ psPc'[c] = to /\ psCall' = psCall
         /\ \A d \in Callers : d # c => psPc'[d] = psPc[d]
BY ActorOf DEF Scopes!Goes, Turns, CallsTyped

\* An idle caller, or one whose call ends, names nothing.
LEMMA IdleAgrees ==
  ASSUME NEW c, psPc'[c] = "idle"
  PROVE  CallAgrees(c)' /\ \A i : ~BeingSaved(i, c)'
BY DEF CallAgrees, BeingSaved

LEMMA ScopesCreateProject ==
  ASSUME ScopesInv, NEW c \in load.callers, NEW p \in load.projects, Scopes!CreateProject(c, p)
  PROVE  ScopesInv'
<1>1. /\ psPc[c] = "idle" /\ Scopes!WriterFree /\ status[p] = "unused"
      /\ status' = [status EXCEPT ![p] = "active"]
      /\ UNCHANGED <<load, refs, kept, column, revisions, scopes, primary, audit, restored, files, psPc, psCall>>
  BY DEF Scopes!CreateProject, Scopes!Idle, Scopes!knowledge, Scopes!caller
<1>2. Turns(c, psPc[c], psCall[c])
  BY <1>1, ActorOf
<1>3. DataTyped'
  BY <1>1, ActorOf DEF DataTyped
<1>4. RefsFit'
  BY <1>1, ActorOf DEF RefsFit, Inserting
<1>5. ASSUME AloneAgrees, NEW q \in Projects, Gone(q)'
      PROVE  refs'[q] = 0 /\ Detached(q)' /\ DetachedFiles(q)'
  <2>1. Gone(q)
    BY <1>1, <1>5, ActorOf DEF DataTyped, Gone
  <2> QED
    BY <1>1, <1>5, <2>1 DEF AloneAgrees, Detached, DetachedFiles
<1>6. CallAgrees(c)'
  BY <1>1, IdleAgrees
<1>7. ASSUME NEW i \in kept, RowsAgree(i) \/ BeingSaved(i, c)
      PROVE  RowsAgree(i)' \/ BeingSaved(i, c)'
  BY <1>1, <1>7 DEF RowsAgree, Restored, BeingSaved, Scopes!Unassigned, Scopes!IsUnassigned
<1>8. \A d \in Callers : psPc[d] \notin Scopes!Deleting
  BY <1>1 DEF Scopes!WriterFree
<1>9. "idle" \in Scopes!Steps \ {"selected"} /\ "idle" \notin {"jobChecked"} \cup Scopes!Deleting
  BY DEF Scopes!Steps, Scopes!Deleting
<1> QED
  BY <1>1, <1>2, <1>3, <1>4, <1>5, <1>6, <1>7, <1>8, <1>9, WritingTurn, ActorOf DEF CallsTyped, CallTyped

\* The row that was about to be inserted is.
LEMMA ScopesCreateJobInserts ==
  ASSUME ScopesInv, NEW c \in load.callers, Scopes!CreateJobInserts(c)
  PROVE  ScopesInv'
<1>0. PICK p : p = psCall[c].project
  OBVIOUS
<1>1. /\ psPc[c] = "jobChecked" /\ Scopes!WriterFree /\ Scopes!Ends(c)
      /\ refs' = [refs EXCEPT ![p] = @ + 1]
      /\ UNCHANGED <<load, status, kept, column, revisions, scopes, primary, audit, restored, files>>
  BY <1>0 DEF Scopes!CreateJobInserts, Scopes!knowledge
<1>2. p \in Projects /\ c \in Callers
  BY <1>0, <1>1, ActorOf DEF CallTyped
<1>3. /\ psPc'[c] = "idle" /\ psPc[c] = "jobChecked"
      /\ \A d \in Callers : d # c => psPc'[d] = psPc[d] /\ psCall'[d] = psCall[d]
  BY <1>1, <1>2, EndsTurns, TurnOf, ActorOf
<1>4. /\ refs[p] \in Nat /\ MaxRefs \in Nat /\ refs[p] + Cardinality(Inserting(p)) <= MaxRefs
      /\ Cardinality(Inserting(p)) \in Nat /\ IsFiniteSet(Inserting(p))
  BY <1>2, InsertingIs, ActorOf DEF RefsFit, ScopesInv
<1>5. /\ Inserting(p)' = Inserting(p) \ {c} /\ c \in Inserting(p)
      /\ \A q \in Projects : q # p => Inserting(q)' = Inserting(q)
  BY <1>0, <1>2, <1>3 DEF Inserting
<1>6. Cardinality(Inserting(p)') = Cardinality(Inserting(p)) - 1 /\ Cardinality(Inserting(p)') \in Nat
  <2>1. IsFiniteSet(Inserting(p)')
    BY <1>4, <1>5, FS_Subset
  <2> QED
    BY <1>4, <1>5, <2>1, FS_RemoveElement, FS_CardinalityType
<1>7. /\ refs \in [Projects -> 0..MaxRefs] /\ refs'[p] = refs[p] + 1
      /\ \A q \in Projects : q # p => refs'[q] = refs[q]
  BY <1>1, <1>2, ActorOf DEF DataTyped
<1>8. DataTyped'
  <2>1. refs[p] + 1 \in 0..MaxRefs
    BY <1>4, <1>6
  <2>2. refs' \in [Projects -> 0..MaxRefs]
    BY <1>1, <1>2, <1>7, <2>1
  <2> QED
    BY <1>1, <2>2, ActorOf DEF DataTyped
<1>9. RefsFit'
  <2>1. ASSUME NEW q \in Projects PROVE refs'[q] + Cardinality(Inserting(q)') <= MaxRefs
    <3>1. CASE q = p
      BY <1>4, <1>6, <1>7, <3>1
    <3>2. CASE q # p
      BY <1>5, <1>7, <3>2, ActorOf DEF RefsFit
    <3> QED
      BY <3>1, <3>2
  <2> QED
    BY <2>1 DEF RefsFit
<1>10. ASSUME AloneAgrees, NEW q \in Projects, Gone(q)'
       PROVE  refs'[q] = 0 /\ Detached(q)' /\ DetachedFiles(q)'
  <2>1. Gone(q)
    BY <1>1, <1>10 DEF Gone
  <2>2. q # p
    BY <1>0, <1>2, <1>3, <1>10, <2>1 DEF AloneAgrees, CallAgrees
  <2> QED
    BY <1>1, <1>7, <1>10, <2>1, <2>2 DEF AloneAgrees, Detached, DetachedFiles
<1>11. ASSUME NEW i \in kept, RowsAgree(i) \/ BeingSaved(i, c) PROVE RowsAgree(i)'
  BY <1>1, <1>11 DEF RowsAgree, Restored, BeingSaved, Scopes!Unassigned, Scopes!IsUnassigned
<1>12. \A d \in Callers : psPc[d] \notin Scopes!Deleting
  BY <1>1 DEF Scopes!WriterFree
<1>13. "idle" \in Scopes!Steps \ {"selected"} /\ "idle" \notin {"jobChecked"} \cup Scopes!Deleting
  BY DEF Scopes!Steps, Scopes!Deleting
<1>14. CallAgrees(c)' /\ \A d \in Callers : psPc[d] = "selected" => psCall[d].item \in kept'
  BY <1>1, <1>3, IdleAgrees, ActorOf DEF CallsTyped, CallTyped
<1> QED
  BY <1>1, <1>8, <1>9, <1>10, <1>11, <1>12, <1>13, <1>14, EndsTurns, WritingTurn

LEMMA ScopesDeleteJob ==
  ASSUME ScopesInv, NEW c \in load.callers, NEW p \in load.projects, Scopes!DeleteJob(c, p)
  PROVE  ScopesInv'
<1>1. /\ psPc[c] = "idle" /\ Scopes!WriterFree /\ refs[p] > 0 /\ refs' = [refs EXCEPT ![p] = @ - 1]
      /\ UNCHANGED <<load, status, kept, column, revisions, scopes, primary, audit, restored, files, psPc, psCall>>
  BY DEF Scopes!DeleteJob, Scopes!Idle, Scopes!knowledge, Scopes!caller
<1>2. Turns(c, psPc[c], psCall[c]) /\ p \in Projects
  BY <1>1, ActorOf, LoadOf DEF DataTyped
<1>3. /\ refs[p] \in Nat /\ MaxRefs \in Nat /\ refs[p] <= MaxRefs
      /\ refs \in [Projects -> 0..MaxRefs] /\ refs'[p] = refs[p] - 1
      /\ \A q \in Projects : q # p => refs'[q] = refs[q]
  BY <1>1, <1>2, ActorOf, InsertingIs DEF DataTyped, ScopesInv
<1>4. DataTyped'
  <2>1. refs[p] - 1 \in 0..MaxRefs
    BY <1>1, <1>3
  <2>2. refs' \in [Projects -> 0..MaxRefs]
    BY <1>1, <1>2, <1>3, <2>1
  <2> QED
    BY <1>1, <2>2, ActorOf DEF DataTyped
<1>5. RefsFit'
  <2>1. ASSUME NEW q \in Projects PROVE refs'[q] + Cardinality(Inserting(q)') <= MaxRefs
    <3>1. Inserting(q)' = Inserting(q) /\ Cardinality(Inserting(q)) \in Nat
      BY <1>1, InsertingIs DEF Inserting
    <3>2. refs[q] + Cardinality(Inserting(q)) <= MaxRefs
      BY ActorOf DEF RefsFit
    <3> QED
      BY <1>3, <3>1, <3>2
  <2> QED
    BY <2>1 DEF RefsFit
<1>6. ASSUME AloneAgrees, NEW q \in Projects, Gone(q)'
      PROVE  refs'[q] = 0 /\ Detached(q)' /\ DetachedFiles(q)'
  <2>1. Gone(q) /\ refs[q] = 0
    BY <1>1, <1>6 DEF AloneAgrees, Gone
  <2>2. q # p
    BY <1>1, <2>1
  <2> QED
    BY <1>1, <1>3, <1>6, <2>1, <2>2 DEF AloneAgrees, Detached, DetachedFiles
<1>7. CallAgrees(c)'
  BY <1>1, IdleAgrees
<1>8. ASSUME NEW i \in kept, RowsAgree(i) \/ BeingSaved(i, c) PROVE RowsAgree(i)'
  BY <1>1, <1>8 DEF RowsAgree, Restored, BeingSaved, Scopes!Unassigned, Scopes!IsUnassigned
<1>9. \A d \in Callers : psPc[d] \notin Scopes!Deleting
  BY <1>1 DEF Scopes!WriterFree
<1>10. "idle" \in Scopes!Steps \ {"selected"} /\ "idle" \notin {"jobChecked"} \cup Scopes!Deleting
  BY DEF Scopes!Steps, Scopes!Deleting
<1> QED
  BY <1>1, <1>2, <1>4, <1>5, <1>6, <1>7, <1>8, <1>9, <1>10, WritingTurn, ActorOf DEF CallsTyped, CallTyped

LEMMA ScopesCreateInserts ==
  ASSUME ScopesInv, NEW c \in load.callers, Scopes!CreateInserts(c)
  PROVE  ScopesInv'
<1>0. PICK i, p : i = psCall[c].item /\ p = psCall[c].project
  OBVIOUS
<1>1. psPc[c] = "createChecked" /\ UNCHANGED <<load, status, refs, files>>
  BY DEF Scopes!CreateInserts
<1>2. i \in Items /\ p \in Scopes!Columns /\ c \in Callers
  BY <1>0, ActorOf, FieldsOf
<1>3. CASE i \in kept
  <2>1. UNCHANGED data /\ Scopes!Ends(c)
    BY <1>0, <1>1, <1>3 DEF Scopes!CreateInserts, Scopes!knowledge, data
  <2>2. \A j \in kept : ~BeingSaved(j, c)
    BY <1>1 DEF BeingSaved
  <2> QED
    BY <1>1, <2>1, <2>2, QuietEnd
<1>4. CASE i \notin kept
  <2>1. /\ kept' = kept \cup {i} /\ column' = [column EXCEPT ![i] = p]
        /\ revisions' = [revisions EXCEPT ![i] = @ \cup {p}]
        /\ Scopes!Goes(c, "createChecked", "stored") /\ UNCHANGED <<scopes, primary, audit, restored>>
    BY <1>0, <1>4 DEF Scopes!CreateInserts
  <2>2. "stored" \in Scopes!Steps \ {"selected"} /\ "stored" \notin {"jobChecked"} \cup Scopes!Deleting
    BY DEF Scopes!Steps, Scopes!Deleting
  <2>3. /\ Turns(c, "stored", psCall[c]) /\ psPc'[c] = "stored" /\ psCall' = psCall
        /\ \A d \in Callers : d # c => psPc'[d] = psPc[d]
    BY <2>1, <2>2, GoesTurns
  <2>4. DataTyped'
    BY <1>1, <1>2, <1>4, <2>1, ActorOf DEF DataTyped
  <2>5. RefsFit'
    BY <1>1, <1>2, <2>2, <2>3, ActorOf, RefsTurn
  <2>6. \A d \in Callers : psPc[d] = "selected" => psCall[d].item \in kept'
    BY <2>1, ActorOf DEF CallsTyped, CallTyped
  <2>7. \A d \in Callers : psPc[d] \in Scopes!Deleting
          => status'[psCall[d].project] = "active" /\ refs'[psCall[d].project] = 0
    BY <1>1 DEF ScopesInv, Scopes!DeletionExcludesReferences
  <2>8. ASSUME AloneAgrees
        PROVE  /\ CallAgrees(c)'
               /\ \A q \in Projects : Gone(q)' => refs'[q] = 0 /\ Detached(q)' /\ DetachedFiles(q)'
    <3>1. CallAgrees(c) /\ ~Gone(p)
      BY <1>0, <1>1, <1>2, <2>8 DEF AloneAgrees, CallAgrees
    <3>4. column'[i] = p
      BY <1>2, <2>1, ActorOf DEF DataTyped
    <3>2. CallAgrees(c)'
      BY <1>0, <1>1, <2>1, <2>3, <3>1, <3>4 DEF CallAgrees, Gone, Scopes!Usable
    <3>3. ASSUME NEW q \in Projects, Gone(q)' PROVE refs'[q] = 0 /\ Detached(q)' /\ DetachedFiles(q)'
      <4>1. Gone(q) /\ q # p
        BY <1>1, <3>1, <3>3 DEF Gone
      <4> QED
        BY <1>1, <1>2, <2>1, <2>8, <4>1, ActorOf DEF AloneAgrees, Detached, DetachedFiles, DataTyped
    <3> QED
      BY <3>2, <3>3
  <2>9. ASSUME \A j \in kept : RowsAgree(j) \/ BeingSaved(j, c), NEW j \in kept'
        PROVE  RowsAgree(j)' \/ BeingSaved(j, c)'
    <3>1. CASE j = i
      BY <1>0, <2>3, <3>1 DEF BeingSaved
    <3>2. CASE j # i
      BY <1>1, <1>2, <2>1, <2>9, <3>2, ActorOf
        DEF RowsAgree, Restored, BeingSaved, Scopes!Unassigned, Scopes!IsUnassigned, DataTyped
    <3> QED
      BY <3>1, <3>2
  <2> QED
    BY <1>1, <2>2, <2>3, <2>4, <2>5, <2>6, <2>7, <2>8, <2>9, ActorOf, WritingTurn
<1> QED
  BY <1>3, <1>4

LEMMA ScopesUpdateWrites ==
  ASSUME ScopesInv, NEW c \in load.callers, Scopes!UpdateWrites(c)
  PROVE  ScopesInv'
<1>0. PICK i, p : i = psCall[c].item /\ p = psCall[c].project
  OBVIOUS
<1>1. /\ Scopes!Goes(c, "selected", "stored") /\ column' = [column EXCEPT ![i] = p]
      /\ revisions' = [revisions EXCEPT ![i] = @ \cup {p}]
      /\ restored' = IF psCall[c].restore /\ ~Scopes!Usable(p) THEN restored \cup {<<i, p>>} ELSE restored
      /\ UNCHANGED <<load, status, refs, kept, scopes, primary, audit, files>>
  BY <1>0 DEF Scopes!UpdateWrites
<1>2. "stored" \in Scopes!Steps \ {"selected"} /\ "stored" \notin {"jobChecked"} \cup Scopes!Deleting
  BY DEF Scopes!Steps, Scopes!Deleting
<1>3. /\ Turns(c, "stored", psCall[c]) /\ psPc[c] = "selected" /\ psPc'[c] = "stored" /\ psCall' = psCall
      /\ \A d \in Callers : d # c => psPc'[d] = psPc[d]
  BY <1>1, <1>2, GoesTurns
<1>4. i \in kept /\ i \in Items /\ p \in Scopes!Columns /\ c \in Callers
  BY <1>0, <1>3, ActorOf, FieldsOf DEF CallTyped
<1>5. DataTyped'
  BY <1>1, <1>4, ActorOf DEF DataTyped
<1>6. RefsFit'
  BY <1>1, <1>2, <1>3, <1>4, ActorOf, RefsTurn
<1>7. \A d \in Callers : psPc[d] = "selected" => psCall[d].item \in kept'
  BY <1>1, ActorOf DEF CallsTyped, CallTyped
<1>8. \A d \in Callers : psPc[d] \in Scopes!Deleting
        => status'[psCall[d].project] = "active" /\ refs'[psCall[d].project] = 0
  BY <1>1 DEF ScopesInv, Scopes!DeletionExcludesReferences
<1>9. ASSUME AloneAgrees
      PROVE  /\ CallAgrees(c)'
             /\ \A q \in Projects : Gone(q)' => refs'[q] = 0 /\ Detached(q)' /\ DetachedFiles(q)'
  <2>1. CallAgrees(c) /\ (~Gone(p) \/ psCall[c].restore)
    BY <1>0, <1>3, <1>4, <1>9 DEF AloneAgrees, CallAgrees
  <2>4. column'[i] = p /\ column' \in [Items -> Scopes!Columns]
    BY <1>1, <1>4, ActorOf DEF DataTyped
  <2>2. CallAgrees(c)'
    BY <1>0, <1>1, <1>3, <2>1, <2>4 DEF CallAgrees, Gone, Scopes!Usable
  <2>3. ASSUME NEW q \in Projects, Gone(q)' PROVE refs'[q] = 0 /\ Detached(q)' /\ DetachedFiles(q)'
    <3>1. Gone(q)
      BY <1>1, <2>3 DEF Gone
    <3>2. ASSUME NEW j \in Items, column'[j] = q \/ q \in scopes'[j] PROVE <<j, q>> \in restored'
      <4>1. CASE column[j] = q \/ q \in scopes[j]
        BY <1>1, <1>9, <3>1, <4>1 DEF AloneAgrees, Detached
      <4>2. CASE j = i /\ q = p
        <5>1. ~Scopes!Usable(p) /\ psCall[c].restore
          BY <2>1, <3>1, <4>2, UsableIs
        <5> QED
          BY <1>1, <4>2, <5>1
      <4> QED
        BY <1>1, <1>4, <3>2, <4>1, <4>2, ActorOf DEF DataTyped
    <3> QED
      BY <1>1, <1>9, <3>1, <3>2 DEF AloneAgrees, Detached, DetachedFiles
  <2> QED
    BY <2>2, <2>3
<1>10. ASSUME \A j \in kept : RowsAgree(j) \/ BeingSaved(j, c), NEW j \in kept'
       PROVE  RowsAgree(j)' \/ BeingSaved(j, c)'
  <2>1. CASE j = i
    BY <1>0, <1>3, <2>1 DEF BeingSaved
  <2>2. CASE j # i
    BY <1>1, <1>3, <1>4, <1>10, <2>2, ActorOf
      DEF RowsAgree, Restored, BeingSaved, Scopes!Unassigned, Scopes!IsUnassigned, DataTyped
  <2> QED
    BY <2>1, <2>2
<1> QED
  BY <1>1, <1>2, <1>3, <1>5, <1>6, <1>7, <1>8, <1>9, <1>10, ActorOf, WritingTurn

\* The item gets its column as its primary scope.
LEMMA ScopesApply ==
  ASSUME ScopesInv, NEW c \in load.callers, Scopes!Apply(c)
  PROVE  ScopesInv'
<1>0. PICK i, p, g : i = psCall[c].item /\ p = psCall[c].project /\ g = psCall[c].given
  OBVIOUS
<1>1. psPc[c] = "fetched" /\ Scopes!Ends(c)
      /\ UNCHANGED <<load, status, refs, kept, column, revisions, files>>
  BY DEF Scopes!Apply
<1>2. /\ i \in Items /\ p \in Scopes!Columns /\ c \in Callers
      /\ g \in (SUBSET Scopes!Columns) \cup {Scopes!Unset}
  BY <1>0, ActorOf, FieldsOf
<1>3. CASE i \notin kept
  <2>1. UNCHANGED data
    BY <1>0, <1>1, <1>3 DEF Scopes!Apply, data
  <2>2. \A j \in kept : ~BeingSaved(j, c)
    BY <1>0, <1>3 DEF BeingSaved
  <2> QED
    BY <1>1, <2>1, <2>2, QuietEnd
<1>4. CASE i \in kept
  <2>1. PICK given : given = IF g = Scopes!Unset THEN scopes[i] \ primary[i] ELSE g
    OBVIOUS
  <2>2. /\ scopes' = [scopes EXCEPT ![i] = {p} \cup given] /\ primary' = [primary EXCEPT ![i] = {p}]
        /\ audit' = [audit EXCEPT ![i] = IF g = Scopes!Unset THEN "primary_scope" ELSE "set_scopes"]
        /\ restored' = {r \in restored : r[1] = i => r[2] \in scopes'[i]}
    BY <1>0, <1>4, <2>1 DEF Scopes!Apply
  <2>3. given \in SUBSET Scopes!Columns
    BY <1>2, <2>1, ActorOf DEF DataTyped
  <2>4. /\ psPc'[c] = "idle"
        /\ \A d \in Callers : d # c => psPc'[d] = psPc[d] /\ psCall'[d] = psCall[d]
    BY <1>1, <1>2, EndsTurns, TurnOf, ActorOf
  <2>5. DataTyped'
    BY <1>1, <1>2, <1>4, <2>2, <2>3, ActorOf DEF DataTyped
  <2>6. RefsFit'
    BY <1>1, <1>2, EndsTurns, ActorOf, RefsTurn
  <2>7. \A d \in Callers : psPc[d] = "selected" => psCall[d].item \in kept'
    BY <1>1, ActorOf DEF CallsTyped, CallTyped
  <2>8. \A d \in Callers : psPc[d] \in Scopes!Deleting
          => status'[psCall[d].project] = "active" /\ refs'[psCall[d].project] = 0
    BY <1>1 DEF ScopesInv, Scopes!DeletionExcludesReferences
  <2>9. CallAgrees(c)'
    BY <2>4, IdleAgrees
  <2>10. ASSUME AloneAgrees, NEW q \in Projects, Gone(q)'
         PROVE  refs'[q] = 0 /\ Detached(q)' /\ DetachedFiles(q)'
    <3>1. Gone(q) /\ CallAgrees(c)
      BY <1>1, <1>2, <2>10 DEF Gone, AloneAgrees
    <3>2. q # p /\ (g = Scopes!Unset \/ q \notin g)
      BY <1>0, <1>1, <3>1 DEF CallAgrees
    <3>3. q # column[i]
      BY <1>0, <1>1, <3>1, <3>2 DEF CallAgrees
    <3>4. q \in {p} \cup given => q \in scopes[i]
      BY <2>1, <3>2
    <3>5. /\ scopes'[i] = {p} \cup given
          /\ \A j \in Items : j # i => scopes'[j] = scopes[j]
      BY <1>2, <2>2, ActorOf DEF DataTyped
    <3>6. ASSUME NEW j \in Items, column'[j] = q \/ q \in scopes'[j] PROVE <<j, q>> \in restored'
      <4>1. <<j, q>> \in restored /\ (j = i => q \in scopes'[i])
        BY <1>1, <2>10, <3>1, <3>3, <3>4, <3>5, <3>6 DEF AloneAgrees, Detached
      <4> QED
        BY <2>2, <4>1
    <3> QED
      BY <1>1, <2>10, <3>1, <3>6 DEF AloneAgrees, Detached, DetachedFiles
  <2>11. ASSUME AloneAgrees, \A j \in kept : RowsAgree(j) \/ BeingSaved(j, c), NEW j \in kept'
         PROVE  RowsAgree(j)'
    <3>1. CASE j = i
      <4>1. p = column[i]
        BY <1>0, <1>1, <1>2, <2>11 DEF AloneAgrees, CallAgrees
      <4>2. /\ column'[i] = column[i] /\ primary'[i] = {p} /\ p \in scopes'[i]
            /\ audit'[i] # "unassigned"
        BY <1>1, <1>2, <2>2, ActorOf DEF DataTyped
      <4> QED
        BY <3>1, <4>1, <4>2 DEF RowsAgree
    <3>2. CASE j # i
      <4>1. RowsAgree(j) /\ j \in Items
        BY <1>0, <1>1, <2>11, <3>2, ActorOf DEF BeingSaved, DataTyped
      <4>2. Restored(j) => Restored(j)'
        BY <2>2, <3>2 DEF Restored
      <4> QED
        BY <1>1, <1>2, <2>2, <3>2, <4>1, <4>2, ActorOf
          DEF RowsAgree, Restored, Scopes!Unassigned, Scopes!IsUnassigned, DataTyped
    <3> QED
      BY <3>1, <3>2
  <2> QED
    BY <1>1, <2>5, <2>6, <2>7, <2>8, <2>9, <2>10, <2>11, EndsTurns, WritingTurn DEF Scopes!Deleting
<1> QED
  BY <1>3, <1>4

LEMMA ScopesDeleteItem ==
  ASSUME ScopesInv, NEW c \in load.callers, NEW i \in Items, Scopes!DeleteItem(c, i)
  PROVE  ScopesInv'
<1>1. /\ psPc[c] = "idle" /\ Scopes!StoreFree /\ i \in kept /\ kept' = kept \ {i}
      /\ column' = [column EXCEPT ![i] = Global] /\ scopes' = [scopes EXCEPT ![i] = {}]
      /\ primary' = [primary EXCEPT ![i] = {}]
      /\ restored' = {r \in restored : r[1] # i}
      /\ UNCHANGED <<load, status, refs, revisions, audit, files, psPc, psCall>>
  BY DEF Scopes!DeleteItem, Scopes!Idle, Scopes!caller
<1>2. Turns(c, psPc[c], psCall[c]) /\ c \in Callers
  BY <1>1, ActorOf
<1>3. Global \in Scopes!Columns /\ Global \notin Projects
  BY ApprovalsAssumption DEF Scopes!Columns, Scopes!ScopesAssumption
<1>4. DataTyped'
  BY <1>1, <1>3, ActorOf DEF DataTyped
<1>5. RefsFit'
  BY <1>1, ActorOf DEF RefsFit, Inserting
<1>6. \A d \in Callers : psPc[d] # "selected"
  BY <1>1 DEF Scopes!StoreFree
<1>7. \A d \in Callers : psPc[d] \in Scopes!Deleting
        => status'[psCall[d].project] = "active" /\ refs'[psCall[d].project] = 0
  BY <1>1 DEF ScopesInv, Scopes!DeletionExcludesReferences
<1>8. CallAgrees(c)'
  BY <1>1, IdleAgrees
<1>9. ASSUME AloneAgrees, NEW q \in Projects, Gone(q)'
      PROVE  refs'[q] = 0 /\ Detached(q)' /\ DetachedFiles(q)'
  <2>1. Gone(q) /\ q # Global
    BY <1>1, <1>3, <1>9 DEF Gone
  <2>2. ASSUME NEW j \in Items, column'[j] = q \/ q \in scopes'[j] PROVE <<j, q>> \in restored'
    <3>1. j # i /\ (column[j] = q \/ q \in scopes[j])
      BY <1>1, <2>1, <2>2, ActorOf DEF DataTyped
    <3>2. <<j, q>> \in restored
      BY <1>9, <2>1, <3>1 DEF AloneAgrees, Detached
    <3> QED
      BY <1>1, <3>1, <3>2
  <2> QED
    BY <1>1, <1>9, <2>1, <2>2 DEF AloneAgrees, Detached, DetachedFiles
<1>10. ASSUME \A j \in kept : RowsAgree(j) \/ BeingSaved(j, c), NEW j \in kept' PROVE RowsAgree(j)'
  <2>1. RowsAgree(j) /\ j \in kept /\ j # i /\ j \in Items
    BY <1>1, <1>10, ActorOf DEF BeingSaved, DataTyped
  <2>2. Restored(j) => Restored(j)'
    BY <1>1, <2>1 DEF Restored
  <2> QED
    BY <1>1, <2>1, <2>2, ActorOf DEF RowsAgree, Restored, Scopes!Unassigned, Scopes!IsUnassigned, DataTyped
<1>11. "idle" \in Scopes!Steps \ {"selected"} /\ "idle" \notin {"jobChecked"} \cup Scopes!Deleting
  BY DEF Scopes!Steps, Scopes!Deleting
<1> QED
  BY <1>1, <1>2, <1>4, <1>5, <1>6, <1>7, <1>8, <1>9, <1>10, <1>11, ActorOf, WritingTurn

LEMMA ScopesSaveFile ==
  ASSUME ScopesInv, NEW c \in load.callers, Scopes!SaveFileInserts(c)
  PROVE  ScopesInv'
<1>0. PICK f, p : f = psCall[c].file /\ p = psCall[c].project
  OBVIOUS
<1>1. /\ psPc[c] = "fileChecked" /\ files' = [files EXCEPT ![f] = p] /\ Scopes!Ends(c)
      /\ UNCHANGED <<load, status, refs, kept, column, revisions, scopes, primary, audit, restored>>
  BY <1>0 DEF Scopes!SaveFileInserts, Scopes!knowledge
<1>2. f \in Files /\ p \in Scopes!Columns /\ c \in Callers
  BY <1>0, ActorOf, FieldsOf
<1>3. psPc'[c] = "idle"
  BY <1>1, <1>2, EndsTurns, TurnOf, ActorOf
<1>4. DataTyped'
  BY <1>1, <1>2, ActorOf DEF DataTyped
<1>5. RefsFit'
  BY <1>1, <1>2, EndsTurns, ActorOf, RefsTurn
<1>6. \A d \in Callers : psPc[d] = "selected" => psCall[d].item \in kept'
  BY <1>1, ActorOf DEF CallsTyped, CallTyped
<1>7. \A d \in Callers : psPc[d] \in Scopes!Deleting
        => status'[psCall[d].project] = "active" /\ refs'[psCall[d].project] = 0
  BY <1>1 DEF ScopesInv, Scopes!DeletionExcludesReferences
<1>8. CallAgrees(c)'
  BY <1>3, IdleAgrees
<1>9. ASSUME AloneAgrees, NEW q \in Projects, Gone(q)'
      PROVE  refs'[q] = 0 /\ Detached(q)' /\ DetachedFiles(q)'
  <2>1. Gone(q) /\ q # p
    BY <1>0, <1>1, <1>2, <1>9 DEF Gone, AloneAgrees, CallAgrees
  <2> QED
    BY <1>1, <1>2, <1>9, <2>1, ActorOf DEF AloneAgrees, Detached, DetachedFiles, DataTyped
<1>10. ASSUME \A j \in kept : RowsAgree(j) \/ BeingSaved(j, c), NEW j \in kept' PROVE RowsAgree(j)'
  BY <1>1, <1>10 DEF RowsAgree, Restored, BeingSaved, Scopes!Unassigned, Scopes!IsUnassigned
<1> QED
  BY <1>1, <1>4, <1>5, <1>6, <1>7, <1>8, <1>9, <1>10, EndsTurns, WritingTurn DEF Scopes!Deleting

\* What a detach makes of the rows of each item.
LEMMA DetachOf ==
  ASSUME ScopesInv, NEW c \in load.callers, Scopes!Detach(c),
         NEW p, p = psCall[c].project, NEW ids, ids = psCall[c].ids, NEW i \in Items
  PROVE  /\ i \notin ids => /\ column'[i] = column[i] /\ scopes'[i] = scopes[i]
                            /\ primary'[i] = primary[i] /\ audit'[i] = audit[i]
         /\ i \in ids => /\ scopes'[i] = scopes[i] \ {p}
                         /\ \/ /\ scopes'[i] = {} /\ column'[i] = Global /\ primary'[i] = {}
                               /\ audit'[i] = "unassigned"
                            \/ /\ column'[i] \in scopes'[i] /\ primary'[i] = {column'[i]}
                               /\ audit'[i] = "kept_scopes"
<1> DEFINE rest == [j \in Items |-> scopes[j] \ {psCall[c].project}]
<1>2. PICK heir \in [psCall[c].ids -> Scopes!Columns] :
         /\ \A j \in psCall[c].ids : heir[j] \in Scopes!Heirs(j, rest[j])
         /\ LET new == [j \in psCall[c].ids |-> Scopes!DetachOne(j, rest[j], heir[j])] IN
            /\ column' = [j \in Items |-> IF j \in psCall[c].ids THEN new[j].column ELSE column[j]]
            /\ scopes' = [j \in Items |-> IF j \in psCall[c].ids THEN rest[j] ELSE scopes[j]]
            /\ primary' = [j \in Items |-> IF j \in psCall[c].ids THEN new[j].primary ELSE primary[j]]
            /\ audit' = [j \in Items |-> IF j \in psCall[c].ids THEN new[j].audit ELSE audit[j]]
  BY DEF Scopes!Detach
<1>3. CASE i \notin ids
  BY <1>2, <1>3
<1>4. CASE i \in ids
  <2>1. PICK r, h, m : r = rest[i] /\ h = heir[i] /\ m = Scopes!DetachOne(i, r, h)
    OBVIOUS
  <2>2. /\ column'[i] = m.column /\ scopes'[i] = r /\ primary'[i] = m.primary /\ audit'[i] = m.audit
    BY <1>2, <1>4, <2>1
  <2>3. r = scopes[i] \ {p}
    BY <2>1
  <2>4. CASE r = {}
    BY <1>4, <2>1, <2>2, <2>3, <2>4 DEF Scopes!DetachOne
  <2>5. CASE r # {}
    <3>1. h \in Scopes!Heirs(i, r)
      BY <1>2, <1>4, <2>1
    <3>2. h \in r
      BY <2>5, <3>1 DEF Scopes!Heirs
    <3> QED
      BY <1>4, <2>1, <2>2, <2>3, <2>5, <3>2 DEF Scopes!DetachOne
  <2> QED
    BY <2>4, <2>5
<1> QED
  BY <1>3, <1>4

LEMMA ScopesDetach ==
  ASSUME ScopesInv, NEW c \in load.callers, Scopes!Detach(c)
  PROVE  ScopesInv'
<1>0. PICK ids, p : ids = psCall[c].ids /\ p = psCall[c].project
  OBVIOUS
<1>1. /\ Scopes!Goes(c, "detaching", "detached") /\ UNCHANGED <<load, status, refs, kept, revisions, restored, files>>
      /\ DOMAIN column' = Items /\ DOMAIN scopes' = Items /\ DOMAIN primary' = Items
      /\ DOMAIN audit' = Items
      /\ column' = [i \in Items |-> column'[i]] /\ scopes' = [i \in Items |-> scopes'[i]]
      /\ primary' = [i \in Items |-> primary'[i]] /\ audit' = [i \in Items |-> audit'[i]]
  BY DEF Scopes!Detach
<1>2. "detached" \in Scopes!Steps \ {"selected"} /\ "detached" \in Scopes!Deleting
      /\ "detaching" \in Scopes!Deleting
  BY DEF Scopes!Steps, Scopes!Deleting
<1>3. /\ Turns(c, "detached", psCall[c]) /\ psPc[c] = "detaching" /\ psPc'[c] = "detached"
      /\ psCall' = psCall /\ \A d \in Callers : d # c => psPc'[d] = psPc[d]
  BY <1>1, <1>2, GoesTurns
<1>4. p \in Projects /\ ids \subseteq Items /\ c \in Callers
  BY <1>0, <1>2, <1>3, ActorOf, FieldsOf DEF CallTyped
<1>5. Global \in Scopes!Columns /\ Global \notin Projects
  BY ApprovalsAssumption DEF Scopes!Columns, Scopes!ScopesAssumption
<1>6. DataTyped'
  <2>1. ASSUME NEW i \in Items
        PROVE  /\ column'[i] \in Scopes!Columns /\ scopes'[i] \in SUBSET Scopes!Columns
               /\ primary'[i] \subseteq scopes'[i]
               /\ audit'[i] \in {"none", "primary_scope", "set_scopes", "kept_scopes", "unassigned"}
               /\ i \notin kept => scopes'[i] = {} /\ column'[i] = Global
    <3>1. CASE i \notin ids
      BY <1>0, <3>1, DetachOf, ActorOf DEF DataTyped
    <3>2. CASE i \in ids
      <4>1. scopes[i] \in SUBSET Scopes!Columns /\ (i \notin kept => scopes[i] = {})
        BY ActorOf DEF DataTyped
      <4> QED
        BY <1>0, <1>5, <3>2, <4>1, DetachOf
    <3> QED
      BY <3>1, <3>2
  <2> QED
    BY <1>1, <2>1, ActorOf DEF DataTyped
<1>7. RefsFit'
  BY <1>1, <1>2, <1>3, <1>4, ActorOf, RefsTurn
<1>8. \A d \in Callers : psPc[d] = "selected" => psCall[d].item \in kept'
  BY <1>1, ActorOf DEF CallsTyped, CallTyped
<1>9. \A d \in Callers : psPc[d] \in Scopes!Deleting
        => status'[psCall[d].project] = "active" /\ refs'[psCall[d].project] = 0
  BY <1>1 DEF ScopesInv, Scopes!DeletionExcludesReferences
<1>10. ASSUME AloneAgrees, NEW q \in Projects, Gone(q) \/ q = p PROVE Detached(q)'
  <2>1. ASSUME NEW i \in Items, column'[i] = q \/ q \in scopes'[i] PROVE <<i, q>> \in restored
    <3>1. CASE i \in ids
      <4>1. q \in scopes[i] \ {p}
        BY <1>0, <1>5, <2>1, <3>1, DetachOf
      <4> QED
        BY <1>10, <4>1 DEF AloneAgrees, Detached
    <3>2. CASE i \notin ids
      <4>1. column'[i] = column[i] /\ scopes'[i] = scopes[i]
        BY <1>0, <3>2, DetachOf
      <4>2. ids = Scopes!Affected(p)
        BY <1>0, <1>3, <1>4, <1>10 DEF AloneAgrees, CallAgrees
      <4>3. i \notin kept => scopes[i] = {} /\ column[i] = Global
        BY ActorOf DEF DataTyped
      <4> QED
        BY <1>5, <1>10, <2>1, <3>2, <4>1, <4>2, <4>3 DEF AloneAgrees, Detached, Scopes!Affected
    <3> QED
      BY <3>1, <3>2
  <2> QED
    BY <1>1, <2>1 DEF Detached
<1>11. ASSUME AloneAgrees
       PROVE  /\ CallAgrees(c)'
              /\ \A q \in Projects : Gone(q)' => refs'[q] = 0 /\ Detached(q)' /\ DetachedFiles(q)'
  <2>1. CallAgrees(c) /\ Detached(p)'
    BY <1>4, <1>10, <1>11 DEF AloneAgrees
  <2>2. CallAgrees(c)'
    <3>1. Detached(psCall[c].project)'
      BY <1>0, <1>3, <2>1 DEF Detached
    <3> QED
      BY <1>1, <1>3, <2>1, <3>1 DEF CallAgrees, Gone, Scopes!Usable
  <2>3. ASSUME NEW q \in Projects, Gone(q)' PROVE refs'[q] = 0 /\ Detached(q)' /\ DetachedFiles(q)'
    <3>1. Gone(q)
      BY <1>1, <2>3 DEF Gone
    <3> QED
      BY <1>1, <1>10, <1>11, <3>1 DEF AloneAgrees, DetachedFiles
  <2> QED
    BY <2>2, <2>3
<1>12. ASSUME \A j \in kept : RowsAgree(j) \/ BeingSaved(j, c), NEW j \in kept' PROVE RowsAgree(j)'
  <2>1. RowsAgree(j) /\ j \in Items /\ j \in kept
    BY <1>1, <1>3, <1>12, ActorOf DEF BeingSaved, DataTyped
  <2>2. CASE j \notin ids
    <3>1. column'[j] = column[j] /\ scopes'[j] = scopes[j] /\ primary'[j] = primary[j] /\ audit'[j] = audit[j]
      BY <1>0, <2>1, <2>2, DetachOf
    <3> QED
      BY <1>1, <2>1, <3>1 DEF RowsAgree, Restored, Scopes!Unassigned, Scopes!IsUnassigned
  <2>3. CASE j \in ids
    <3>1. \/ scopes'[j] = {} /\ column'[j] = Global /\ audit'[j] = "unassigned"
          \/ column'[j] \in scopes'[j] /\ primary'[j] = {column'[j]} /\ audit'[j] = "kept_scopes"
      BY <1>0, <2>1, <2>3, DetachOf
    <3> QED
      BY <1>1, <2>1, <3>1 DEF RowsAgree, Restored, Scopes!Unassigned, Scopes!IsUnassigned
  <2> QED
    BY <2>2, <2>3
<1> QED
  BY <1>0, <1>1, <1>2, <1>3, <1>4, <1>6, <1>7, <1>8, <1>9, <1>11, <1>12, ActorOf, WritingTurn

LEMMA ScopesDetachFiles ==
  ASSUME ScopesInv, NEW c \in load.callers, Scopes!DetachFiles(c)
  PROVE  ScopesInv'
<1>0. PICK p : p = psCall[c].project
  OBVIOUS
<1>1. /\ Scopes!Goes(c, "detached", "filesDetached")
      /\ files' = [f \in Files |-> IF files[f] = p THEN Global ELSE files[f]]
      /\ UNCHANGED <<load, status, refs, kept, column, revisions, scopes, primary, audit, restored>>
  BY <1>0 DEF Scopes!DetachFiles, Scopes!knowledge
<1>2. "filesDetached" \in Scopes!Steps \ {"selected"} /\ "filesDetached" \in Scopes!Deleting
      /\ "detached" \in Scopes!Deleting
  BY DEF Scopes!Steps, Scopes!Deleting
<1>3. /\ Turns(c, "filesDetached", psCall[c]) /\ psPc[c] = "detached" /\ psPc'[c] = "filesDetached"
      /\ psCall' = psCall /\ \A d \in Callers : d # c => psPc'[d] = psPc[d]
  BY <1>1, <1>2, GoesTurns
<1>4. p \in Projects /\ c \in Callers
  BY <1>0, <1>2, <1>3, ActorOf DEF CallTyped
<1>5. Global \in Scopes!Columns /\ Global \notin Projects
  BY ApprovalsAssumption DEF Scopes!Columns, Scopes!ScopesAssumption
<1>6. DataTyped'
  BY <1>1, <1>5, ActorOf DEF DataTyped
<1>7. RefsFit'
  BY <1>1, <1>2, <1>3, <1>4, ActorOf, RefsTurn
<1>8. \A d \in Callers : psPc[d] = "selected" => psCall[d].item \in kept'
  BY <1>1, ActorOf DEF CallsTyped, CallTyped
<1>9. \A d \in Callers : psPc[d] \in Scopes!Deleting
        => status'[psCall[d].project] = "active" /\ refs'[psCall[d].project] = 0
  BY <1>1 DEF ScopesInv, Scopes!DeletionExcludesReferences
<1>10. ASSUME AloneAgrees
       PROVE  /\ CallAgrees(c)'
              /\ \A q \in Projects : Gone(q)' => refs'[q] = 0 /\ Detached(q)' /\ DetachedFiles(q)'
  <2>1. CallAgrees(c)
    BY <1>4, <1>10 DEF AloneAgrees
  <2>2. DetachedFiles(p)' /\ p # Global
    BY <1>1, <1>4, <1>5 DEF DetachedFiles
  <2>3. CallAgrees(c)'
    <3>1. Detached(psCall[c].project)' /\ DetachedFiles(psCall[c].project)'
      BY <1>0, <1>1, <1>3, <2>1, <2>2 DEF Detached, DetachedFiles, CallAgrees
    <3> QED
      BY <1>1, <1>3, <2>1, <3>1 DEF CallAgrees, Gone, Scopes!Usable
  <2>4. ASSUME NEW q \in Projects, Gone(q)' PROVE refs'[q] = 0 /\ Detached(q)' /\ DetachedFiles(q)'
    <3>1. Gone(q) /\ q # Global
      BY <1>1, <1>5, <2>4 DEF Gone
    <3> QED
      BY <1>1, <1>10, <3>1 DEF AloneAgrees, Detached, DetachedFiles
  <2> QED
    BY <2>3, <2>4
<1>11. ASSUME \A j \in kept : RowsAgree(j) \/ BeingSaved(j, c), NEW j \in kept' PROVE RowsAgree(j)'
  BY <1>1, <1>3, <1>11 DEF RowsAgree, Restored, BeingSaved, Scopes!Unassigned, Scopes!IsUnassigned
<1> QED
  BY <1>0, <1>1, <1>2, <1>3, <1>4, <1>6, <1>7, <1>8, <1>9, <1>10, <1>11, ActorOf, WritingTurn

\* The deletion ends: everything has been detached, and no job was there to begin with.
LEMMA ScopesDeactivate ==
  ASSUME ScopesInv, NEW c \in load.callers, Scopes!Deactivate(c)
  PROVE  ScopesInv'
<1>0. PICK p : p = psCall[c].project
  OBVIOUS
<1>1. /\ psPc[c] = "filesDetached" /\ status' = [status EXCEPT ![p] = "inactive"] /\ Scopes!Ends(c)
      /\ UNCHANGED <<load, refs, kept, column, revisions, scopes, primary, audit, restored, files>>
  BY <1>0 DEF Scopes!Deactivate, Scopes!knowledge
<1>2. "filesDetached" \in Scopes!Deleting
  BY DEF Scopes!Deleting
<1>3. p \in Projects /\ c \in Callers
  BY <1>0, <1>1, <1>2, ActorOf DEF CallTyped
<1>4. psPc'[c] = "idle"
  BY <1>1, <1>3, EndsTurns, TurnOf, ActorOf
<1>5. refs[p] = 0 /\ \A d \in Callers \ {c} : psPc[d] \notin Scopes!Deleting
  BY <1>0, <1>1, <1>2, <1>3 DEF ScopesInv, Scopes!DeletionExcludesReferences
<1>6. DataTyped'
  BY <1>1, <1>3, ActorOf DEF DataTyped
<1>7. RefsFit'
  BY <1>1, <1>3, EndsTurns, ActorOf, RefsTurn
<1>8. \A d \in Callers : psPc[d] = "selected" => psCall[d].item \in kept'
  BY <1>1, ActorOf DEF CallsTyped, CallTyped
<1>9. \A d \in Callers : ~(psPc[d] \in Scopes!Deleting /\ psPc'[d] \in Scopes!Deleting)
  BY <1>4, <1>5 DEF Scopes!Deleting
<1>10. CallAgrees(c)'
  BY <1>4, IdleAgrees
<1>11. ASSUME AloneAgrees, NEW q \in Projects, Gone(q)'
       PROVE  refs'[q] = 0 /\ Detached(q)' /\ DetachedFiles(q)'
  <2>1. CASE q = p
    <3>1. Detached(p) /\ DetachedFiles(p)
      BY <1>0, <1>1, <1>3, <1>11 DEF AloneAgrees, CallAgrees
    <3> QED
      BY <1>1, <1>5, <2>1, <3>1 DEF Detached, DetachedFiles
  <2>2. CASE q # p
    <3>1. Gone(q)
      BY <1>1, <1>3, <1>11, <2>2, ActorOf DEF Gone, DataTyped
    <3> QED
      BY <1>1, <1>11, <3>1 DEF AloneAgrees, Detached, DetachedFiles
  <2> QED
    BY <2>1, <2>2
<1>12. ASSUME \A j \in kept : RowsAgree(j) \/ BeingSaved(j, c), NEW j \in kept' PROVE RowsAgree(j)'
  BY <1>1, <1>12 DEF RowsAgree, Restored, BeingSaved, Scopes!Unassigned, Scopes!IsUnassigned
<1> QED
  BY <1>1, <1>6, <1>7, <1>8, <1>9, <1>10, <1>11, <1>12, EndsTurns, WritingTurn DEF Scopes!Deleting

\* What a start makes of the rows of each item.
LEMMA RestartOf ==
  ASSUME ScopesInv, Scopes!Restart, NEW i \in Items
  PROVE  /\ column'[i] = column[i] /\ audit'[i] = audit[i]
         /\ scopes'[i] \subseteq scopes[i] \cup {column[i]} /\ primary'[i] \subseteq scopes'[i]
         /\ i \notin kept => scopes'[i] = {}
         /\ Scopes!Unassigned(i) => scopes'[i] = {}
         /\ i \in kept /\ column[i] \in scopes[i] /\ primary[i] = {column[i]} /\ audit[i] # "unassigned"
              => scopes'[i] = scopes[i] /\ primary'[i] = primary[i]
<1>1. /\ scopes' = [j \in Items |-> IF j \notin kept THEN {}
                                    ELSE IF Scopes!IsUnassigned(j) THEN Scopes!Backfilled(j) \ {Global}
                                         ELSE Scopes!Backfilled(j)]
      /\ primary' = [j \in Items |-> IF j \notin kept THEN {}
                                     ELSE Scopes!BackfilledPrimary(j) \cap scopes'[j]]
      /\ column' = column /\ audit' = audit
  BY DEF Scopes!Restart
<1>2. /\ scopes'[i] = IF i \notin kept THEN {}
                      ELSE IF Scopes!IsUnassigned(i) THEN Scopes!Backfilled(i) \ {Global}
                           ELSE Scopes!Backfilled(i)
      /\ primary'[i] = IF i \notin kept THEN {} ELSE Scopes!BackfilledPrimary(i) \cap scopes'[i]
  BY <1>1
<1>3. Scopes!Unassigned(i) => scopes'[i] = {}
  BY <1>2 DEF Scopes!Unassigned, Scopes!IsUnassigned, Scopes!Backfilled
<1>4. ASSUME i \in kept, column[i] \in scopes[i], primary[i] = {column[i]}, audit[i] # "unassigned"
      PROVE  scopes'[i] = scopes[i] /\ primary'[i] = primary[i]
  <2>1. ~Scopes!IsUnassigned(i)
    BY <1>4 DEF Scopes!IsUnassigned
  <2>2. scopes'[i] = scopes[i]
    BY <1>2, <1>4, <2>1 DEF Scopes!Backfilled
  <2>3. Scopes!BackfilledPrimary(i) = primary[i]
    BY <1>4 DEF Scopes!BackfilledPrimary
  <2> QED
    BY <1>2, <1>4, <2>2, <2>3
<1> QED
  BY <1>1, <1>2, <1>3, <1>4 DEF Scopes!Backfilled

LEMMA ScopesRestart ==
  ASSUME ScopesInv, Scopes!Restart
  PROVE  ScopesInv'
<1>1. /\ load.crash \/ \A c \in Callers : psPc[c] = "idle"
      /\ DOMAIN scopes' = Items /\ DOMAIN primary' = Items
      /\ scopes' = [i \in Items |-> scopes'[i]] /\ primary' = [i \in Items |-> primary'[i]]
      /\ psPc' = [c \in Callers |-> "idle"] /\ psCall' = [c \in Callers |-> Scopes!NoCall]
      /\ UNCHANGED <<load, status, refs, kept, column, revisions, audit, restored, files>>
  BY DEF Scopes!Restart, Scopes!Idle
<1>2. \A c \in Callers : psPc'[c] = "idle"
  BY <1>1
<1>3. DataTyped
  BY DEF ScopesInv, ScopesTyped
<1>4. DataTyped'
  <2>1. ASSUME NEW i \in Items
        PROVE  /\ scopes'[i] \in SUBSET Scopes!Columns /\ primary'[i] \subseteq scopes'[i]
               /\ i \notin kept => scopes'[i] = {} /\ column[i] = Global
    BY <1>3, RestartOf DEF DataTyped
  <2> QED
    BY <1>1, <1>3, <2>1 DEF DataTyped
<1>5. CallsTyped'
  BY <1>1, <1>2, NoCallTyped DEF CallsTyped, CallTyped, Scopes!Steps, Scopes!Deleting
<1>6. RefsFit'
  <2>1. ASSUME NEW p \in Projects PROVE refs'[p] + Cardinality(Inserting(p)') <= MaxRefs
    <3>1. Inserting(p)' = {}
      BY <1>2 DEF Inserting
    <3>2. Cardinality(Inserting(p)') = 0
      BY <3>1, FS_EmptySet
    <3>3. refs'[p] \in Nat /\ refs'[p] <= MaxRefs /\ MaxRefs \in Nat
      BY <1>1, <1>3, ApprovalsAssumption DEF DataTyped, Scopes!ScopesAssumption
    <3> QED
      BY <3>2, <3>3
  <2> QED
    BY <2>1 DEF RefsFit
<1>7. Scopes!DeletionExcludesReferences'
  BY <1>2 DEF Scopes!DeletionExcludesReferences, Scopes!Deleting
<1>8. ASSUME AloneAgrees PROVE AloneAgrees'
  <2>1. ASSUME NEW q \in Projects, Gone(q)' PROVE refs'[q] = 0 /\ Detached(q)' /\ DetachedFiles(q)'
    <3>1. Gone(q)
      BY <1>1, <2>1 DEF Gone
    <3>2. ASSUME NEW i \in Items, column'[i] = q \/ q \in scopes'[i] PROVE <<i, q>> \in restored
      BY <1>8, <3>1, <3>2, RestartOf DEF AloneAgrees, Detached
    <3> QED
      BY <1>1, <1>8, <3>1, <3>2 DEF AloneAgrees, Detached, DetachedFiles
  <2> QED
    BY <1>2, <2>1, IdleAgrees DEF AloneAgrees
<1>9. ASSUME Scopes!Alone, ~load.crash, NEW i \in kept PROVE RowsAgree(i)'
  <2>1. RowsAgree(i) /\ i \in Items
    BY <1>1, <1>3, <1>9 DEF ScopesInv, BeingSaved, DataTyped
  <2>2. column'[i] = column[i] /\ audit'[i] = audit[i] /\ i \in kept'
    BY <1>1
  <2>3. CASE Scopes!Unassigned(i)
    <3>1. scopes'[i] = {}
      BY <2>1, <2>3, RestartOf
    <3> QED
      BY <2>2, <2>3, <3>1 DEF RowsAgree, Restored, Scopes!Unassigned, Scopes!IsUnassigned
  <2>5. CASE Restored(i)
    BY <1>1, <2>5 DEF RowsAgree, Restored
  <2>4. CASE ~Scopes!Unassigned(i) /\ ~Restored(i)
    <3>1. primary[i] = {column[i]} /\ column[i] \in scopes[i] /\ audit[i] # "unassigned"
      BY <2>1, <2>4 DEF RowsAgree
    <3>2. scopes'[i] = scopes[i] /\ primary'[i] = primary[i]
      BY <1>9, <2>1, <3>1, RestartOf
    <3> QED
      BY <2>2, <3>1, <3>2 DEF RowsAgree
  <2> QED
    BY <2>3, <2>4, <2>5
<1>10. Scopes!Alone' = Scopes!Alone /\ load' = load /\ kept' = kept
  BY <1>1 DEF Scopes!Alone
<1> QED
  BY <1>4, <1>5, <1>6, <1>7, <1>8, <1>9, <1>10 DEF ScopesInv, ScopesTyped

LEMMA ScopesBegin ==
  ASSUME Scopes!Init
  PROVE  ScopesInv
<1>1. /\ MaxRefs \in Nat /\ Global \in Scopes!Columns /\ Scopes!NoCall \in Scopes!Calls
      /\ "idle" \in Scopes!Steps /\ "idle" \notin Scopes!Deleting
  BY ApprovalsAssumption, NoCallTyped
    DEF Scopes!ScopesAssumption, Scopes!Columns, Scopes!Steps, Scopes!Deleting
<1>2. DataTyped
  BY <1>1 DEF Scopes!Init, DataTyped
<1>3. CallsTyped
  BY <1>1 DEF Scopes!Init, CallsTyped, CallTyped
<1>4. RefsFit
  <2>1. ASSUME NEW p \in Projects PROVE refs[p] + Cardinality(Inserting(p)) <= MaxRefs
    <3>1. Inserting(p) = {} /\ refs[p] = 0
      BY DEF Scopes!Init, Inserting
    <3>2. Cardinality(Inserting(p)) = 0
      BY <3>1, FS_EmptySet
    <3> QED
      BY <1>1, <3>1, <3>2
  <2> QED
    BY <2>1 DEF RefsFit
<1>5. Scopes!DeletionExcludesReferences
  BY <1>1 DEF Scopes!Init, Scopes!DeletionExcludesReferences
<1>6. AloneAgrees
  BY DEF Scopes!Init, AloneAgrees, Gone, CallAgrees
<1>7. kept = {}
  BY DEF Scopes!Init
<1> QED
  BY <1>2, <1>3, <1>4, <1>5, <1>6, <1>7 DEF ScopesInv, ScopesTyped

LEMMA ScopesStep ==
  ASSUME ScopesInv, Scopes!Next
  PROVE  ScopesInv'
<1>1. ASSUME NEW c \in load.callers, NEW p \in load.projects,
             Scopes!CreateProject(c, p) \/ Scopes!CreateJobChecks(c, p) \/ Scopes!DeleteJob(c, p)
      PROVE  ScopesInv'
  BY <1>1, ScopesCreateProject, ScopesChecks, ScopesDeleteJob
<1>2. ASSUME NEW c \in load.callers, Scopes!CreateJobInserts(c) PROVE ScopesInv'
  BY <1>2, ScopesCreateJobInserts
<1>3. ASSUME NEW c \in load.callers, Scopes!Saves(c) PROVE ScopesInv'
  <2>1. ASSUME NEW i \in Items, NEW p \in Scopes!UsedColumns, NEW g \in load.given \cup {Scopes!Unset},
               Scopes!CreateChecks(c, i, p, g) \/ \E set \in BOOLEAN : Scopes!UpdateChecks(c, i, p, set, g)
        PROVE  ScopesInv'
    BY <2>1, ScopesSaves
  <2>2. ASSUME NEW i \in Items, Scopes!DeleteItem(c, i) PROVE ScopesInv'
    BY <2>2, ScopesDeleteItem
  <2>3. ASSUME \/ Scopes!CreateInserts(c) \/ Scopes!UpdateSelects(c) \/ Scopes!UpdateWrites(c)
               \/ Scopes!Fetch(c) \/ Scopes!RestoreRequires(c) \/ Scopes!Apply(c)
               \/ Scopes!SaveFileInserts(c)
        PROVE  ScopesInv'
    BY <2>3, ScopesCreateInserts, ScopesUpdateSelects, ScopesUpdateWrites, ScopesFetch,
       ScopesRestoreRequires, ScopesApply, ScopesSaveFile
  <2>4. ASSUME NEW f \in Files, NEW p \in Scopes!UsedColumns, Scopes!SaveFileChecks(c, f, p)
        PROVE  ScopesInv'
    BY <2>4, ScopesFileChecks
  <2>5. ASSUME NEW i \in Items, NEW p \in Scopes!Columns, Scopes!RestoreReads(c, i, p) PROVE ScopesInv'
    BY <2>5, ScopesRestoreReads
  <2> QED
    BY <1>3, <2>1, <2>2, <2>3, <2>4, <2>5 DEF Scopes!Saves
<1>4. ASSUME NEW c \in load.callers, Scopes!Deletes(c) PROVE ScopesInv'
  <2>1. ASSUME NEW p \in load.projects, Scopes!DeleteBegins(c, p) PROVE ScopesInv'
    BY <2>1, ScopesChecks
  <2> QED
    BY <1>4, <2>1, ScopesDetachReads, ScopesDetach, ScopesDetachFiles, ScopesDeactivate, ScopesDeleteFails
      DEF Scopes!Deletes
<1> QED
  BY <1>1, <1>2, <1>3, <1>4, ScopesRestart DEF Scopes!Next

LEMMA ScopesRest ==
  ASSUME ScopesInv, UNCHANGED scopesVars
  PROVE  ScopesInv'
<1>1. UNCHANGED <<load, status, refs, kept, column, revisions, scopes, primary, audit, restored, files, psPc, psCall>>
  BY DEF scopesVars
<1>2. ScopesTyped'
  BY <1>1 DEF ScopesInv, ScopesTyped, DataTyped, CallsTyped, CallTyped, RefsFit, Inserting
<1>3. Scopes!DeletionExcludesReferences' /\ Scopes!Alone' = Scopes!Alone
  BY <1>1 DEF ScopesInv, Scopes!DeletionExcludesReferences, Scopes!Alone
<1>4. AloneAgrees => AloneAgrees'
  BY <1>1 DEF AloneAgrees, Gone, Detached, DetachedFiles, CallAgrees, Scopes!Affected, Scopes!Usable
<1>5. \A i : RowsAgree(i)' = RowsAgree(i) /\ \A c : BeingSaved(i, c)' = BeingSaved(i, c)
  BY <1>1 DEF RowsAgree, Restored, BeingSaved, Scopes!Unassigned, Scopes!IsUnassigned
<1> QED
  BY <1>1, <1>2, <1>3, <1>4, <1>5 DEF ScopesInv

LEMMA ScopesAlways == AllSpec => [](component = "scopes" => ScopesInv)
<1>1. AllInit => (component = "scopes" => ScopesInv)
  BY ScopesBegin DEF AllInit
<1>2. (component = "scopes" => ScopesInv) /\ [AllNext]_allVars => (component = "scopes" => ScopesInv)'
  BY ScopesStep, ScopesRest DEF AllNext, allVars
<1> QED
  BY <1>1, <1>2, PTL DEF AllSpec

LEMMA ScopesSafe ==
  ASSUME ScopesInv
  PROVE  /\ Scopes!TypeOK /\ Scopes!DeletionExcludesReferences
         /\ Scopes!DeletedIsDetached /\ Scopes!PrimaryAgrees
<1>1. Scopes!TypeOK
  BY DEF ScopesInv, ScopesTyped, DataTyped, CallsTyped, Scopes!TypeOK
<1>2. Scopes!DeletedIsDetached
  BY DEF ScopesInv, AloneAgrees, Gone, Detached, DetachedFiles, Scopes!DeletedIsDetached
<1>3. Scopes!PrimaryAgrees
  <2>1. SUFFICES ASSUME Scopes!Alone, ~load.crash, \A c \in Callers : psPc[c] = "idle", NEW i \in kept
                 PROVE  Restored(i) \/ Scopes!Unassigned(i)
                        \/ (primary[i] = {column[i]} /\ column[i] \in scopes[i])
    BY DEF Scopes!PrimaryAgrees, Scopes!Idle, Restored
  <2>2. RowsAgree(i)
    BY <2>1 DEF ScopesInv, BeingSaved
  <2> QED
    BY <2>2 DEF RowsAgree
<1> QED
  BY <1>1, <1>2, <1>3 DEF ScopesInv

\* Nothing refers to a project while it is being deleted, whoever else is at work and wherever the
\* process ends; once a single caller has deleted it nothing refers to it but the items into which a
\* revision that names it was restored since; and where nothing crashed in the middle the scope rows
\* of an item agree with its column, except where such a restoration was refused.
THEOREM ScopesHold == AllSpec => []ScopesSafety
<1>1. (component = "scopes" => ScopesInv) => ScopesSafety
  BY ScopesSafe DEF ScopesSafety
<1> QED
  BY <1>1, ScopesAlways, PTL

Stays ==
  \A i \in kept \cap kept' : Scopes!Unassigned(i) =>
    \/ Scopes!Unassigned(i)'
    \/ \E c \in Callers : psCall[c].item = i /\ (Scopes!UpdateWrites(c) \/ Scopes!Apply(c))

LEMMA UnassignedStep ==
  ASSUME ScopesInv, Scopes!Next
  PROVE  Stays
<1> SUFFICES ASSUME NEW i \in kept \cap kept', Scopes!Unassigned(i)
             PROVE  \/ Scopes!Unassigned(i)'
                    \/ \E c \in Callers : psCall[c].item = i /\ (Scopes!UpdateWrites(c) \/ Scopes!Apply(c))
  BY DEF Stays
<1>1. i \in kept /\ i \in kept' /\ i \in Items /\ DataTyped
  BY DEF ScopesInv, ScopesTyped, DataTyped
<1>2. ASSUME column'[i] = column[i], scopes'[i] = scopes[i], audit'[i] = audit[i]
      PROVE  Scopes!Unassigned(i)'
  BY <1>1, <1>2 DEF Scopes!Unassigned, Scopes!IsUnassigned
<1>3. CASE Scopes!Restart
  BY <1>1, <1>3, RestartOf DEF Scopes!Unassigned, Scopes!IsUnassigned
<1>4. ASSUME NEW c \in load.callers, NEW p \in load.projects,
             \/ Scopes!CreateProject(c, p) \/ Scopes!CreateJobChecks(c, p) \/ Scopes!DeleteJob(c, p)
             \/ Scopes!DeleteBegins(c, p)
      PROVE  Scopes!Unassigned(i)'
  BY <1>2, <1>4 DEF Scopes!CreateProject, Scopes!CreateJobChecks, Scopes!DeleteJob,
       Scopes!DeleteBegins, Scopes!knowledge
<1>5. ASSUME NEW c \in load.callers,
             \/ Scopes!CreateJobInserts(c) \/ Scopes!UpdateSelects(c) \/ Scopes!Fetch(c)
             \/ Scopes!RestoreRequires(c) \/ Scopes!SaveFileInserts(c) \/ Scopes!DetachReads(c) \/ Scopes!DetachFiles(c)
             \/ Scopes!Deactivate(c) \/ Scopes!DeleteFails(c)
      PROVE  Scopes!Unassigned(i)'
  BY <1>2, <1>5 DEF Scopes!CreateJobInserts, Scopes!UpdateSelects, Scopes!Fetch, Scopes!RestoreRequires,
       Scopes!SaveFileInserts,
       Scopes!DetachReads, Scopes!DetachFiles, Scopes!Deactivate, Scopes!DeleteFails, Scopes!knowledge
<1>6. ASSUME NEW c \in load.callers, NEW j \in Items, NEW p \in Scopes!UsedColumns,
             NEW g \in load.given \cup {Scopes!Unset},
             Scopes!CreateChecks(c, j, p, g) \/ \E set \in BOOLEAN : Scopes!UpdateChecks(c, j, p, set, g)
      PROVE  Scopes!Unassigned(i)'
  BY <1>2, <1>6 DEF Scopes!CreateChecks, Scopes!UpdateChecks, Scopes!knowledge
<1>13. ASSUME NEW c \in load.callers, NEW j \in Items, NEW p \in Scopes!Columns, Scopes!RestoreReads(c, j, p)
       PROVE  Scopes!Unassigned(i)'
  BY <1>2, <1>13 DEF Scopes!RestoreReads, Scopes!knowledge
<1>7. ASSUME NEW c \in load.callers, NEW f \in Files, NEW p \in Scopes!UsedColumns,
             Scopes!SaveFileChecks(c, f, p)
      PROVE  Scopes!Unassigned(i)'
  BY <1>2, <1>7 DEF Scopes!SaveFileChecks, Scopes!knowledge
<1>8. ASSUME NEW c \in load.callers, NEW j \in Items, Scopes!DeleteItem(c, j) PROVE Scopes!Unassigned(i)'
  BY <1>1, <1>2, <1>8 DEF Scopes!DeleteItem, DataTyped
<1>9. ASSUME NEW c \in load.callers, Scopes!CreateInserts(c) PROVE Scopes!Unassigned(i)'
  <2>1. \/ UNCHANGED <<column, scopes, audit>>
        \/ /\ psCall[c].item # i /\ UNCHANGED <<scopes, audit>>
           /\ column' = [column EXCEPT ![psCall[c].item] = psCall[c].project]
    BY <1>1, <1>9 DEF Scopes!CreateInserts, Scopes!knowledge
  <2> QED
    BY <1>1, <1>2, <2>1 DEF DataTyped
<1>10. ASSUME NEW c \in load.callers, Scopes!UpdateWrites(c) \/ Scopes!Apply(c), psCall[c].item # i
       PROVE  Scopes!Unassigned(i)'
  BY <1>1, <1>2, <1>10 DEF Scopes!UpdateWrites, Scopes!Apply, DataTyped
<1>11. ASSUME NEW c \in load.callers, Scopes!Detach(c) PROVE Scopes!Unassigned(i)'
  <2>1. PICK p, ids : p = psCall[c].project /\ ids = psCall[c].ids
    OBVIOUS
  <2>2. CASE i \notin ids
    BY <1>1, <1>2, <1>11, <2>1, <2>2, DetachOf
  <2>3. CASE i \in ids
    <3>1. scopes[i] = {} /\ scopes'[i] = scopes[i] \ {p}
      BY <1>1, <1>11, <2>1, <2>3, DetachOf DEF Scopes!Unassigned
    <3>2. scopes'[i] = {} /\ column'[i] = Global /\ audit'[i] = "unassigned"
      BY <1>1, <1>11, <2>1, <2>3, <3>1, DetachOf
    <3> QED
      BY <1>1, <3>2 DEF Scopes!Unassigned, Scopes!IsUnassigned
  <2> QED
    BY <2>2, <2>3
<1>12. load.callers \subseteq Callers
  BY <1>1, LoadOf DEF DataTyped
<1> QED
  BY <1>3, <1>4, <1>5, <1>6, <1>7, <1>8, <1>9, <1>10, <1>11, <1>12, <1>13
    DEF Scopes!Next, Scopes!Saves, Scopes!Deletes

\* What a deletion left Unassigned stays so, across starts that give every item a scope row, until
\* somebody saves it.
THEOREM UnassignedForGood == AllSpec => UnassignedStays
<1>1. (component = "scopes" => ScopesInv) /\ [AllNext]_allVars => [Stays]_Scopes!vars
  <2>1. CASE component = "scopes" /\ Scopes!Next
    BY <2>1, UnassignedStep
  <2>2. CASE UNCHANGED scopesVars
    BY <2>2 DEF scopesVars, Scopes!vars, Scopes!knowledge, Scopes!caller
  <2> QED
    BY <2>1, <2>2 DEF AllNext, allVars
<1> QED
  BY <1>1, ScopesAlways, PTL DEF AllSpec, UnassignedStays, Scopes!UnassignedStays, Stays

-----------------------------------------------------------------------------
(***************************************************************************)
(* The table of pending previews, for any number of callers, operations,   *)
(* live states and rows and any TTL and horizon.                           *)
(***************************************************************************)

\* The value of the locals of a caller that is not in a call.
LEMMA NoCallType == NoCall \in Calls
  BY ApprovalAssumption DEF NoCall, Calls

\* A clock value that a caller has read is not ahead of the clock.
StampsBehind == \A c \in Callers : call[c].stamp <= now

\* The bookkeeping that makes a row one-shot: an authorisation leaves the row
\* marked or gone, and a row that was never inserted has authorised nothing.
Spending ==
    /\ \A i \in Ids : uses[i] \in {0, 1}
    /\ \A i \in Ids : uses[i] = 1 => i \in 1..Len(issued) /\ i \notin present \ consumed

\* A row that a caller holds has been spent, and only executions hold rows.
HeldSpent ==
    \A c \in Callers :
        IF pc[c] = "applying" THEN held[c] \in Ids /\ uses[held[c]] = 1 ELSE held[c] = 0

\* The inductive invariant: types, the bookkeeping, and what callers hold.
IInv == TypeOK /\ StampsBehind /\ Spending /\ HeldSpent /\ ExactApproval /\ UnspentStaysOpen

-----------------------------------------------------------------------------
\* The row that an INSERT adds.
NewRow(c) == [op |-> call[c].op, state |-> call[c].state, expires |-> call[c].stamp + TTL]

\* Rows of the table, typed.
LEMMA RowTypes ==
    ASSUME TypeOK
    PROVE  /\ Len(issued) \in Nat /\ Len(issued) <= MaxRows /\ MaxRows \in Nat
           /\ present \subseteq 1..Len(issued) /\ consumed \subseteq present
           /\ \A i \in 1..Len(issued) : issued[i].expires \in Nat
           /\ now \in Nat /\ \A c \in Callers : call[c].stamp \in Nat
  <1>1. issued \in Seq([op : Operations, state : States, expires : Nat])
    BY DEF TypeOK
  <1> DEFINE R == [op : Operations, state : States, expires : Nat]
  <1>2. \A i \in 1..Len(issued) : issued[i] \in R
    <2> HIDE DEF R
    <2>1. issued \in Seq(R)
      BY <1>1 DEF R
    <2> QED BY <2>1
  <1>3. \A i \in 1..Len(issued) : issued[i].expires \in Nat
    BY <1>2
  <1>4. now \in Nat /\ Len(issued) <= MaxRows
    BY ApprovalAssumption DEF TypeOK
  <1>5. \A c \in Callers : call[c] \in Calls
    BY DEF TypeOK
  <1>6. \A c \in Callers : call[c].stamp \in 0..Horizon
    BY <1>5 DEF Calls
  <1>7. \A c \in Callers : call[c].stamp \in Nat
    BY <1>6, ApprovalAssumption
  <1>8. present \subseteq 1..Len(issued) /\ consumed \subseteq present
    BY DEF TypeOK
  <1> QED BY <1>1, <1>3, <1>4, <1>7, <1>8, ApprovalAssumption

\* What an INSERT does: one open row at the end that has authorised nothing.
LEMMA Inserted ==
    ASSUME IInv, NEW c \in Callers, IssueInserts(c)
    PROVE  /\ issued' \in Seq([op : Operations, state : States, expires : Nat])
           /\ Len(issued) \in Nat /\ Len(issued') = Len(issued) + 1 /\ Len(issued') <= MaxRows
           /\ \A i \in 1..Len(issued) : issued'[i] = issued[i]
           /\ present' = present \cup {Len(issued) + 1}
           /\ Len(issued) + 1 \notin present /\ Len(issued) + 1 \notin consumed
  <1>1. call[c] \in Calls /\ TTL \in Nat /\ Horizon \in Nat /\ MaxRows \in Nat
    BY ApprovalAssumption DEF IInv, TypeOK
  <1>2. call[c].stamp \in 0..Horizon /\ call[c].op \in Operations /\ call[c].state \in States
    BY <1>1 DEF Calls
  <1>3. call[c].stamp + TTL \in Nat
    BY <1>1, <1>2
  <1>4. NewRow(c) \in [op : Operations, state : States, expires : Nat]
    BY <1>2, <1>3 DEF NewRow
  <1>5. /\ issued \in Seq([op : Operations, state : States, expires : Nat])
        /\ issued' = Append(issued, NewRow(c)) /\ Len(issued) < MaxRows
        /\ present' = present \cup {Len(issued) + 1}
    BY DEF IInv, TypeOK, IssueInserts, NewRow
  <1>6. /\ issued' \in Seq([op : Operations, state : States, expires : Nat])
        /\ Len(issued') = Len(issued) + 1
        /\ \A i \in 1..Len(issued) : issued'[i] = issued[i]
    BY <1>4, <1>5
  <1>7. Len(issued) \in Nat
    BY <1>5
  <1>8. Len(issued') <= MaxRows
    BY <1>1, <1>5, <1>6, <1>7
  <1>9. Len(issued) + 1 \notin present /\ Len(issued) + 1 \notin consumed
    BY <1>7 DEF IInv, TypeOK
  <1> QED BY <1>5, <1>6, <1>7, <1>8, <1>9

\* What a consumption does: the one row it takes was open and unexpired.
LEMMA Consumed ==
    ASSUME IInv, NEW c \in Callers, Consume(c)
    PROVE  \E i \in 1..Len(issued) :
              /\ i \in Ids /\ i \in present \ consumed /\ uses[i] = 0
              /\ issued[i].expires >= call[c].stamp
              /\ issued[i].op = call[c].op /\ issued[i].state = call[c].state
              /\ present' = Unexpired(call[c].stamp)
              /\ consumed' = (consumed \cap present') \cup {i}
              /\ i \in present'
              /\ uses' = [uses EXCEPT ![i] = 1]
              /\ held' = [held EXCEPT ![c] = i]
  <1>1. PICK i \in Matches(c) :
           /\ present' = Unexpired(call[c].stamp)
           /\ consumed' = (consumed \cap present') \cup {i}
           /\ uses' = [uses EXCEPT ![i] = @ + 1]
           /\ held' = [held EXCEPT ![c] = i]
    BY DEF Consume
  <1>2. /\ i \in present \ consumed /\ i \in Unexpired(call[c].stamp)
        /\ issued[i].expires >= call[c].stamp
        /\ issued[i].op = call[c].op /\ issued[i].state = call[c].state
    BY <1>1 DEF Matches, Unexpired
  <1>3. i \in 1..Len(issued) /\ Len(issued) \in Nat /\ Len(issued) <= MaxRows /\ MaxRows \in Nat
    BY <1>2, RowTypes DEF IInv
  <1>4. i \in Ids
    BY <1>3 DEF Ids
  <1>5. uses[i] = 0
    BY <1>2, <1>4 DEF IInv, Spending
  <1>6. uses' = [uses EXCEPT ![i] = 1]
    BY <1>1, <1>5
  <1> QED BY <1>1, <1>2, <1>3, <1>4, <1>5, <1>6
-----------------------------------------------------------------------------
LEMMA IInvInit == Init => IInv
  <1> SUFFICES ASSUME Init PROVE IInv
    OBVIOUS
  <1>1. /\ issued \in Seq([op : Operations, state : States, expires : Nat])
        /\ Len(issued) = 0 /\ now = 0 /\ MaxRows \in Nat /\ Horizon \in Nat
    BY ApprovalAssumption DEF Init
  <1>2. TypeOK
    BY <1>1, NoCallType DEF Init, TypeOK
  <1>3. StampsBehind
    BY <1>1 DEF Init, StampsBehind, NoCall
  <1>4. Spending /\ HeldSpent /\ ExactApproval
    BY <1>1 DEF Init, Spending, HeldSpent, ExactApproval
  <1>5. UnspentStaysOpen
    BY <1>1 DEF UnspentStaysOpen
  <1> QED BY <1>2, <1>3, <1>4, <1>5 DEF IInv

\* Steps that leave the table alone: only the caller's locals, the live state
\* and the clock move.
LEMMA TableUntouched ==
    ASSUME IInv, UNCHANGED table, TypeOK', StampsBehind', now' \in 0..Horizon, now <= now',
           \A c \in Callers :
              IF pc'[c] = "applying"
              THEN pc[c] = "applying" /\ held'[c] = held[c] /\ call'[c] = call[c]
              ELSE held'[c] = 0
    PROVE  IInv'
  <1>1. /\ issued' = issued /\ present' = present /\ consumed' = consumed /\ uses' = uses
    BY DEF table
  <1>2. Spending'
    BY <1>1 DEF IInv, Spending
  <1>3. HeldSpent'
    BY <1>1 DEF IInv, HeldSpent
  <1>4. ExactApproval'
    <2> SUFFICES ASSUME NEW c \in Callers, pc'[c] = "applying"
                 PROVE  /\ held'[c] \in 1..Len(issued')
                        /\ issued'[held'[c]].op = call'[c].op
                        /\ issued'[held'[c]].state = call'[c].state
                        /\ issued'[held'[c]].expires >= call'[c].stamp
                        /\ \A d \in Callers \ {c} : held'[d] # held'[c]
      BY DEF ExactApproval
    <2>1. pc[c] = "applying" /\ held'[c] = held[c] /\ call'[c] = call[c]
      OBVIOUS
    <2>2. /\ held[c] \in 1..Len(issued)
          /\ issued[held[c]].op = call[c].op /\ issued[held[c]].state = call[c].state
          /\ issued[held[c]].expires >= call[c].stamp
          /\ \A d \in Callers \ {c} : held[d] # held[c]
      BY <2>1 DEF IInv, ExactApproval
    <2>3. Len(issued) \in Nat /\ held[c] # 0
      BY <2>2 DEF IInv, TypeOK
    <2>4. \A d \in Callers \ {c} : held'[d] # held'[c]
      BY <2>1, <2>2, <2>3
    <2> QED BY <1>1, <2>1, <2>2, <2>4
  <1>5. UnspentStaysOpen'
    <2> SUFFICES ASSUME NEW i \in 1..Len(issued), uses[i] = 0, issued[i].expires >= now'
                 PROVE  i \in present \ consumed
      BY <1>1 DEF UnspentStaysOpen
    <2>1. issued[i].expires \in Nat /\ now \in Nat /\ now' \in Nat
      BY RowTypes, ApprovalAssumption DEF IInv
    <2>2. issued[i].expires >= now
      BY <2>1
    <2> QED BY <2>2 DEF IInv, UnspentStaysOpen
  <1> QED BY <1>2, <1>3, <1>4, <1>5 DEF IInv

LEMMA IInvNext == IInv /\ [Next]_vars => IInv'
  <1> SUFFICES ASSUME IInv, [Next]_vars PROVE IInv'
    OBVIOUS
  <1> USE ApprovalAssumption
  <1>0. /\ TypeOK /\ StampsBehind /\ now \in Nat /\ Horizon \in Nat /\ now <= Horizon
        /\ Len(issued) \in Nat
    BY DEF IInv, TypeOK
  <1>1. CASE Tick
    <2>1. TypeOK' /\ StampsBehind'
      BY <1>0, <1>1 DEF Tick, TypeOK, StampsBehind, callerVars, table, Calls
    <2>2. now' \in 0..Horizon /\ now <= now' /\ UNCHANGED <<table, callerVars>>
      BY <1>0, <1>1 DEF Tick
    <2>3. \A d \in Callers :
             IF pc'[d] = "applying"
             THEN pc[d] = "applying" /\ held'[d] = held[d] /\ call'[d] = call[d]
             ELSE held'[d] = 0
      BY <1>0, <2>2 DEF callerVars, IInv, HeldSpent
    <2> QED BY <2>1, <2>2, <2>3, TableUntouched
  <1>2. CASE Restart
    <2>1. TypeOK'
      BY <1>0, <1>2, NoCallType DEF Restart, TypeOK, table
    <2>2. StampsBehind'
      BY <1>0, <1>2 DEF Restart, StampsBehind, NoCall
    <2> QED BY <1>0, <1>2, <2>1, <2>2, TableUntouched DEF Restart
  <1>3. ASSUME NEW c \in Callers, NEW o \in Operations, PreviewReads(c, o)
        PROVE  IInv'
    <2>1. [op |-> o, state |-> state, id |-> 0, stamp |-> 0] \in Calls
      BY <1>0 DEF TypeOK, Calls
    <2>2. TypeOK'
      BY <1>0, <1>3, <2>1 DEF PreviewReads, TypeOK, table
    <2>3. StampsBehind'
      BY <1>0, <1>3 DEF PreviewReads, StampsBehind, TypeOK
    <2>4. \A d \in Callers :
             IF pc'[d] = "applying"
             THEN pc[d] = "applying" /\ held'[d] = held[d] /\ call'[d] = call[d]
             ELSE held'[d] = 0
      BY <1>0, <1>3 DEF PreviewReads, TypeOK, IInv, HeldSpent
    <2>5. now' \in 0..Horizon /\ now <= now' /\ UNCHANGED table
      BY <1>0, <1>3 DEF PreviewReads
    <2> QED BY <2>2, <2>3, <2>4, <2>5, TableUntouched
  <1>4. ASSUME NEW c \in Callers, NEW o \in Operations, NEW i \in 0..Len(issued),
               ExecuteReads(c, o, i)
        PROVE  IInv'
    <2>1. [op |-> o, state |-> state, id |-> i, stamp |-> now] \in Calls
      BY <1>0 DEF TypeOK, Calls
    <2>2. TypeOK'
      BY <1>0, <1>4, <2>1 DEF ExecuteReads, TypeOK, table
    <2>3. StampsBehind'
      BY <1>0, <1>4 DEF ExecuteReads, StampsBehind, TypeOK
    <2>4. \A d \in Callers :
             IF pc'[d] = "applying"
             THEN pc[d] = "applying" /\ held'[d] = held[d] /\ call'[d] = call[d]
             ELSE held'[d] = 0
      BY <1>0, <1>4 DEF ExecuteReads, TypeOK, IInv, HeldSpent
    <2>5. now' \in 0..Horizon /\ now <= now' /\ UNCHANGED table
      BY <1>0, <1>4 DEF ExecuteReads
    <2> QED BY <2>2, <2>3, <2>4, <2>5, TableUntouched
  <1>5. ASSUME NEW c \in Callers,
               Return(c), UNCHANGED <<now, table>>, state' \in States
        PROVE  IInv'
    <2>1. TypeOK'
      BY <1>0, <1>5, NoCallType DEF Return, TypeOK, table
    <2>2. StampsBehind'
      BY <1>0, <1>5 DEF Return, StampsBehind, NoCall, TypeOK
    <2>3. \A d \in Callers :
             IF pc'[d] = "applying"
             THEN pc[d] = "applying" /\ held'[d] = held[d] /\ call'[d] = call[d]
             ELSE held'[d] = 0
      BY <1>0, <1>5 DEF Return, TypeOK, IInv, HeldSpent
    <2>4. now' \in 0..Horizon /\ now <= now' /\ UNCHANGED table
      BY <1>0, <1>5
    <2> QED BY <2>1, <2>2, <2>3, <2>4, TableUntouched
  <1>6. ASSUME NEW c \in Callers, IssuePurges(c)
        PROVE  IInv'
    <2>1. /\ present' = Unexpired(now) /\ consumed' = consumed \cap Unexpired(now)
          /\ UNCHANGED <<now, state, issued, uses, held>>
          /\ Unexpired(now) \subseteq present
          /\ pc[c] = "issuing" /\ pc' = [pc EXCEPT ![c] = "inserting"]
          /\ call' = [call EXCEPT ![c].stamp = now]
      BY <1>6 DEF IssuePurges, Purge, Unexpired
    <2>2. [call[c] EXCEPT !.stamp = now] \in Calls
      BY <1>0 DEF TypeOK, Calls
    <2>3. TypeOK'
      BY <1>0, <2>1, <2>2 DEF TypeOK
    <2>4. StampsBehind'
      BY <1>0, <2>1 DEF StampsBehind, TypeOK, Calls
    <2>5. Spending'
      BY <2>1 DEF IInv, Spending
    <2>6. HeldSpent'
      BY <2>1 DEF IInv, HeldSpent, TypeOK
    <2>7. ExactApproval'
      BY <2>1 DEF IInv, ExactApproval, TypeOK
    <2>8. UnspentStaysOpen'
      BY <2>1 DEF IInv, UnspentStaysOpen, Unexpired
    <2> QED BY <2>3, <2>4, <2>5, <2>6, <2>7, <2>8 DEF IInv
  <1>7. ASSUME NEW c \in Callers, IssueInserts(c)
        PROVE  IInv'
    <2>1. /\ Return(c) /\ UNCHANGED <<now, state, consumed, uses>> /\ pc[c] = "inserting"
      BY <1>7 DEF IssueInserts
    <2>2. /\ issued' \in Seq([op : Operations, state : States, expires : Nat])
          /\ Len(issued') = Len(issued) + 1 /\ Len(issued') <= MaxRows
          /\ \A i \in 1..Len(issued) : issued'[i] = issued[i]
          /\ present' = present \cup {Len(issued) + 1}
          /\ Len(issued) + 1 \notin present /\ Len(issued) + 1 \notin consumed
      BY <1>7, Inserted
    <2>3. TypeOK'
      <3>1. /\ present' \subseteq 1..Len(issued') /\ consumed' \subseteq present'
            /\ 0..Len(issued) \subseteq 0..Len(issued')
        BY <1>0, <2>1, <2>2, RowTypes
      <3>2. held' \in [Callers -> 0..Len(issued)]
        BY <1>0, <2>1 DEF Return, TypeOK
      <3>3. held' \in [Callers -> 0..Len(issued')]
        BY <3>1, <3>2
      <3>4. /\ pc' \in [Callers -> {"idle", "issuing", "inserting", "consuming", "applying"}]
            /\ call' \in [Callers -> Calls]
        BY <1>0, <2>1, NoCallType DEF Return, TypeOK
      <3> QED BY <1>0, <2>1, <2>2, <3>1, <3>3, <3>4 DEF TypeOK
    <2>4. StampsBehind'
      BY <1>0, <2>1 DEF Return, StampsBehind, NoCall, TypeOK
    <2>5. Spending'
      BY <1>0, <2>1, <2>2 DEF IInv, Spending
    <2>6. HeldSpent'
      BY <2>1 DEF IInv, HeldSpent, Return, TypeOK
    <2>7. ExactApproval'
      <3> SUFFICES ASSUME NEW d \in Callers, pc'[d] = "applying"
                   PROVE  /\ held'[d] \in 1..Len(issued')
                          /\ issued'[held'[d]].op = call'[d].op
                          /\ issued'[held'[d]].state = call'[d].state
                          /\ issued'[held'[d]].expires >= call'[d].stamp
                          /\ \A e \in Callers \ {d} : held'[e] # held'[d]
        BY DEF ExactApproval
      <3>1. d # c /\ pc[d] = "applying" /\ held'[d] = held[d] /\ call'[d] = call[d]
        BY <2>1 DEF Return, TypeOK, IInv
      <3>2. /\ held[d] \in 1..Len(issued)
            /\ issued[held[d]].op = call[d].op /\ issued[held[d]].state = call[d].state
            /\ issued[held[d]].expires >= call[d].stamp
            /\ \A e \in Callers \ {d} : held[e] # held[d]
        BY <3>1 DEF IInv, ExactApproval
      <3>3. \A e \in Callers \ {d} : held'[e] # held'[d]
        BY <1>0, <2>1, <3>1, <3>2 DEF Return, TypeOK
      <3> QED BY <1>0, <2>2, <3>1, <3>2, <3>3
    <2>8. UnspentStaysOpen'
      <3> SUFFICES ASSUME NEW i \in 1..Len(issued'), uses[i] = 0, issued'[i].expires >= now
                   PROVE  i \in present' \ consumed
        BY <2>1 DEF UnspentStaysOpen
      <3>1. CASE i = Len(issued) + 1
        BY <2>2, <3>1
      <3>2. CASE i \in 1..Len(issued)
        <4>1. issued[i].expires >= now
          BY <2>2, <3>2
        <4> QED BY <2>2, <3>2, <4>1 DEF IInv, UnspentStaysOpen
      <3> QED BY <1>0, <2>2, <3>1, <3>2
    <2> QED BY <2>3, <2>4, <2>5, <2>6, <2>7, <2>8 DEF IInv
  <1>8. ASSUME NEW c \in Callers, Consume(c)
        PROVE  IInv'
    <2>1. PICK i \in 1..Len(issued) :
              /\ i \in Ids /\ i \in present \ consumed /\ uses[i] = 0
              /\ issued[i].expires >= call[c].stamp
              /\ issued[i].op = call[c].op /\ issued[i].state = call[c].state
              /\ present' = Unexpired(call[c].stamp)
              /\ consumed' = (consumed \cap present') \cup {i}
              /\ i \in present'
              /\ uses' = [uses EXCEPT ![i] = 1]
              /\ held' = [held EXCEPT ![c] = i]
      BY <1>8, Consumed
    <2>2. /\ pc' = [pc EXCEPT ![c] = "applying"] /\ UNCHANGED <<now, state, issued, call>>
      BY <1>8 DEF Consume
    <2>3. Unexpired(call[c].stamp) \subseteq present
      BY DEF Unexpired
    <2>4. TypeOK'
      <3>1. present' \subseteq 1..Len(issued) /\ consumed' \subseteq present'
        BY <1>0, <2>1, <2>3, RowTypes
      <3>2. uses' \in [Ids -> Nat] /\ held' \in [Callers -> 0..Len(issued)]
        BY <1>0, <2>1 DEF TypeOK
      <3>3. pc' \in [Callers -> {"idle", "issuing", "inserting", "consuming", "applying"}]
        BY <1>0, <2>2 DEF TypeOK
      <3> QED BY <1>0, <2>2, <3>1, <3>2, <3>3 DEF TypeOK
    <2>5. StampsBehind'
      BY <1>0, <2>2 DEF StampsBehind
    <2>6. Spending'
      BY <1>0, <2>1, <2>2, <2>3 DEF IInv, Spending, TypeOK
    <2>7. HeldSpent'
      BY <1>0, <2>1, <2>2 DEF IInv, HeldSpent, TypeOK
    <2>8. \A d \in Callers : pc[d] = "applying" => held[d] # i
      BY <2>1 DEF IInv, HeldSpent
    <2>9. ExactApproval'
      <3>1. \A d \in Callers \ {c} : held'[d] = held[d] /\ pc'[d] = pc[d]
        BY <1>0, <2>1, <2>2 DEF TypeOK
      <3>2. held'[c] = i
        BY <1>0, <2>1 DEF TypeOK
      <3>3. \A d \in Callers : held[d] # i
        BY <1>0, <2>1, <2>8 DEF IInv, HeldSpent
      <3> QED BY <1>0, <2>1, <2>2, <3>1, <3>2, <3>3 DEF IInv, ExactApproval
    <2>10. UnspentStaysOpen'
      <3> SUFFICES ASSUME NEW j \in 1..Len(issued), uses'[j] = 0, issued[j].expires >= now
                   PROVE  j \in present' \ consumed'
        BY <2>2 DEF UnspentStaysOpen
      <3>1. j # i /\ uses[j] = 0
        BY <1>0, <2>1 DEF TypeOK
      <3>2. j \in present \ consumed
        BY <3>1 DEF IInv, UnspentStaysOpen
      <3>3. issued[j].expires \in Nat /\ call[c].stamp \in Nat /\ call[c].stamp <= now
        BY <1>0, RowTypes DEF StampsBehind
      <3>4. j \in Unexpired(call[c].stamp)
        BY <1>0, <3>2, <3>3 DEF Unexpired
      <3> QED BY <2>1, <3>1, <3>2, <3>4
    <2> QED BY <2>4, <2>5, <2>6, <2>7, <2>9, <2>10 DEF IInv
  <1>9. CASE UNCHANGED vars
    BY <1>9 DEF vars, table, callerVars, IInv, TypeOK, StampsBehind, Spending, HeldSpent,
                ExactApproval, UnspentStaysOpen, Unexpired
  <1>10. ASSUME NEW c \in Callers, Deny(c) \/ ConsumeFails(c) \/ ApplyFails(c)
         PROVE  IInv'
    BY <1>0, <1>5, <1>10 DEF Deny, ConsumeFails, ApplyFails, TypeOK
  <1>11. ASSUME NEW c \in Callers, NEW s \in States, Apply(c, s)
         PROVE  IInv'
    BY <1>5, <1>11 DEF Apply
  <1> QED BY <1>1, <1>2, <1>3, <1>4, <1>6, <1>7, <1>8, <1>9, <1>10, <1>11
          DEF Next, Preview, Execute
-----------------------------------------------------------------------------
\* Every reachable state satisfies the inductive invariant.
LEMMA Invariance == Spec => []IInv
  BY IInvInit, IInvNext, PTL DEF Spec

\* The table holds only rows that were inserted, and every variable its type.
THEOREM TypeCorrect == Spec => []TypeOK
  <1>1. IInv => TypeOK
    BY DEF IInv
  <1> QED BY <1>1, Invariance, PTL

\* consume_matching is one-shot: no purge, restart or interleaving of callers
\* with old and new clocks lets one preview authorise two executions.
THEOREM OneShot == Spec => []SpentForGood
  <1>1. IInv => SpentForGood
    BY DEF IInv, Spending, SpentForGood
  <1> QED BY <1>1, Invariance, PTL

\* Executions in progress hold distinct previews of what they are doing.
THEOREM ExactlyApproved == Spec => []ExactApproval
  <1>1. IInv => ExactApproval
    BY DEF IInv
  <1> QED BY <1>1, Invariance, PTL

\* An unspent preview can be consumed until its last second.
THEOREM NoFalseDenial == Spec => []UnspentStaysOpen
  <1>1. IInv => UnspentStaysOpen
    BY DEF IInv
  <1> QED BY <1>1, Invariance, PTL
-----------------------------------------------------------------------------
\* A step of the table is a step of the abstract promise or leaves it alone.
LEMMA StepRefines == IInv /\ [Next]_vars => [Promise!Next]_<<1..Len(issued), uses>>
  <1> SUFFICES ASSUME IInv, [Next]_vars PROVE [Promise!Next]_<<1..Len(issued), uses>>
    OBVIOUS
  <1>1. ASSUME NEW c \in Callers, IssueInserts(c)
        PROVE  Promise!Next
    <2>1. Len(issued') = Len(issued) + 1 /\ Len(issued) \in Nat /\ Len(issued') <= MaxRows
      BY <1>1, Inserted
    <2>2. Len(issued) + 1 \in Ids /\ uses' = uses
      BY <1>1, <2>1, ApprovalAssumption DEF Ids, IssueInserts
    <2>3. Promise!Issue(Len(issued) + 1)
      BY <2>1, <2>2 DEF Promise!Issue
    <2> QED BY <2>2, <2>3 DEF Promise!Next
  <1>2. ASSUME NEW c \in Callers, Consume(c)
        PROVE  Promise!Next
    <2>1. PICK i \in 1..Len(issued) : i \in Ids /\ uses[i] = 0 /\ uses' = [uses EXCEPT ![i] = 1]
      BY <1>2, Consumed
    <2>2. Promise!Use(i)
      BY <1>2, <2>1 DEF Promise!Use, Consume
    <2> QED BY <2>1, <2>2 DEF Promise!Next
  <1>3. ASSUME UNCHANGED <<issued, uses>>
        PROVE  UNCHANGED <<1..Len(issued), uses>>
    BY <1>3
  <1> QED
    BY <1>1, <1>2, <1>3
    DEF Next, Preview, Execute, Tick, Restart, PreviewReads, IssuePurges, ExecuteReads,
        Deny, ConsumeFails, Apply, ApplyFails, vars, table

\* Refinement: the table of pending previews implements OneShotApproval.
THEOREM Refinement == Spec => ImplementsOneShot
  <1>1. Init => Promise!Init
    BY DEF Init, Promise!Init
  <1> QED BY <1>1, StepRefines, Invariance, PTL DEF Spec, ImplementsOneShot, Promise!Spec

\* An execution that names no preview never chooses among several.
THEOREM Unambiguous == Spec => NeverGuesses
  <1>1. IInv /\ [Next]_vars =>
          [ \A c \in Callers :
              (pc[c] = "consuming" /\ pc'[c] = "applying" /\ call[c].id = 0) =>
                 \A i \in 1..Len(issued) :
                     (/\ issued[i].op = call[c].op /\ issued[i].state = call[c].state
                      /\ issued[i].expires >= now)
                     => uses'[i] > 0 ]_vars
    <2> SUFFICES ASSUME IInv, Next, NEW c \in Callers,
                        pc[c] = "consuming", pc'[c] = "applying", call[c].id = 0,
                        NEW i \in 1..Len(issued),
                        issued[i].op = call[c].op, issued[i].state = call[c].state,
                        issued[i].expires >= now
                 PROVE  uses'[i] > 0
      OBVIOUS
    <2>1. Consume(c)
      BY DEF Next, Preview, Execute, Tick, Restart, PreviewReads, IssuePurges, IssueInserts,
             ExecuteReads, Consume, Deny, ConsumeFails, Apply, ApplyFails, Return, callerVars,
             IInv, TypeOK
    <2>2. PICK j \in Matches(c) : Matches(c) = {j} /\ uses' = [uses EXCEPT ![j] = @ + 1]
      BY <2>1 DEF Consume
    <2>3. /\ i \in Ids /\ uses[i] \in {0, 1} /\ uses \in [Ids -> Nat] /\ j \in Ids
      <3>1. TypeOK /\ Spending
        BY DEF IInv
      <3>2. Len(issued) \in Nat /\ Len(issued) <= MaxRows /\ MaxRows \in Nat /\ present \subseteq 1..Len(issued)
        BY <3>1, RowTypes
      <3>3. i \in Ids
        BY <3>2 DEF Ids
      <3>4. j \in present
        BY <2>2 DEF Matches, Unexpired
      <3>5. j \in Ids
        BY <3>2, <3>4 DEF Ids
      <3>6. uses \in [Ids -> Nat]
        BY <3>1 DEF TypeOK
      <3>7. uses[i] \in {0, 1}
        BY <3>1, <3>3 DEF Spending
      <3> QED BY <3>3, <3>5, <3>6, <3>7
    <2>4. CASE uses[i] = 1
      BY <2>2, <2>3, <2>4
    <2>5. CASE uses[i] = 0
      <3>1. i \in present \ consumed
        BY <2>5 DEF IInv, UnspentStaysOpen
      <3>2. issued[i].expires >= call[c].stamp
        BY RowTypes DEF IInv, StampsBehind
      <3>3. i \in Matches(c)
        BY <3>1, <3>2 DEF Matches, Unexpired
      <3> QED BY <2>2, <2>3, <2>5, <3>3
    <2> QED BY <2>3, <2>4, <2>5
  <1> QED BY <1>1, Invariance, PTL DEF Spec, NeverGuesses

=============================================================================
