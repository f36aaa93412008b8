------------------------ MODULE ClickClassification ------------------------
(***************************************************************************)
(* What a query makes of the clicks it reads: the likelihood that a mail   *)
(* provider's scanner and not a person asked for a link                    *)
(* (provider_classification.py).  A click is a record                      *)
(* [id, delivery, link, print, at, visitor], a visitor a record [address,  *)
(* agent, country, browser, proxy, relayed]: proxy is a provider's known   *)
(* one, relayed a source that names some proxy; times are milliseconds.    *)
(* Everything here is a function of the set of clicks the query read, for  *)
(* the code sorts what it reads by time and id.                            *)
(***************************************************************************)
EXTENDS Integers, Sequences, FiniteSets, FiniteSetsExt, SequencesExt

BurstSpan == 2000      \* _MULTI_LINK_BURST_SECONDS
NearSpan == 15000

Before(a, b) == a.at < b.at \/ (a.at = b.at /\ a.id < b.id)

\* at each place the click that has as many before it
InOrder(es) ==
  [i \in 1..Cardinality(es) |-> CHOOSE x \in es : Cardinality({y \in es : Before(y, x)}) = i - 1]

\* clicks of one delivery by one fingerprint, and clicks on one link of one delivery, by time
Alike(es, e) == InOrder({x \in es : x.delivery = e.delivery /\ x.print = e.print})
SameLink(es, e) == InOrder({x \in es : x.delivery = e.delivery /\ x.link = e.link})

\* a plausible slip: only the clicks before this one are looked at
DistanceBackOnly(es, e) ==
  LET s == Alike(es, e)
      here == CHOOSE i \in DOMAIN s : s[i] = e
      back == {i \in 1..here - 1 : s[i].link # e.link /\ e.at - s[i].at <= BurstSpan}
  IN IF back = {} THEN {} ELSE {e.at - s[Max(back)].at}

\* _multi_link_burst_evidence: from each click leftwards and rightwards to the first click on
\* another link, as long as it is near; the nearer of both, {} without one
Distance(es, e) ==
  LET s == Alike(es, e)
      here == CHOOSE i \in DOMAIN s : s[i] = e
      Other(i) == s[i].link # e.link
      back == {i \in 1..here - 1 : Other(i) /\ e.at - s[i].at <= BurstSpan}
      on == {i \in here + 1..Len(s) : Other(i) /\ s[i].at - e.at <= BurstSpan}
      found == (IF back = {} THEN {} ELSE {e.at - s[Max(back)].at})
               \cup (IF on = {} THEN {} ELSE {s[Min(on)].at - e.at})
  IN IF found = {} THEN {} ELSE {Min(found)}

Points(delta) ==
  CASE delta <= 100 -> 95
    [] delta > 100 /\ delta <= 250 -> 90
    [] delta > 250 /\ delta <= 1000 -> 80
    [] OTHER -> 70

\* the request before this one on the same link, if it is near
Nearest(es, e) ==
  LET s == SameLink(es, e)
      here == CHOOSE i \in DOMAIN s : s[i] = e
  IN IF here > 1 /\ e.at - s[here - 1].at <= NearSpan THEN {s[here - 1]} ELSE {}

\* a plausible slip: every earlier click near this one counts as another visitor's
ChangeAny(p, e) == IF e.at - p.at <= 5000 THEN 80 ELSE 60

Change(p, e) ==
  LET If(b, n) == IF b THEN n ELSE 0
  IN If(p.print # e.print, IF e.at - p.at <= 5000 THEN 55 ELSE 35)
     + If(p.visitor.country # e.visitor.country, 15)
     + If(p.visitor.browser # e.visitor.browser, 10)
     + If(p.visitor.agent # e.visitor.agent, 10)

LinksOf(es, e) == {x.link : x \in {y \in es : y.delivery = e.delivery /\ y.print = e.print}}

\* a plausible slip: the fingerprint speaks for a person in a burst, too
ScoreMitigated(es, e) ==
  LET sum == 5 + SumSet({Change(p, e) : p \in Nearest(es, e)}) + SumSet({Points(d) : d \in Distance(es, e)})
             - (IF Cardinality(LinksOf(es, e)) >= 2 THEN 25 ELSE 0) + (IF e.visitor.relayed THEN 25 ELSE 0)
  IN IF e.visitor.proxy THEN 100 ELSE Max({0, Min({100, sum})})

\* classify_click_events; a fingerprint seen on several links speaks for a person, unless in a burst
Score(es, e) ==
  LET near == Nearest(es, e)
      burst == Distance(es, e)
      sum == 5 + SumSet({Change(p, e) : p \in near}) + SumSet({Points(d) : d \in burst})
             - (IF Cardinality(LinksOf(es, e)) >= 2 /\ burst = {} THEN 25 ELSE 0)
             + (IF e.visitor.relayed THEN 25 ELSE 0)
  IN IF e.visitor.proxy THEN 100 ELSE Max({0, Min({100, sum})})

Class(es, e) ==
  CASE e.visitor.proxy -> "known_email_proxy"
    [] ~e.visitor.proxy /\ Score(es, e) >= 70 -> "likely_email_provider"
    [] ~e.visitor.proxy /\ Score(es, e) \in 35..69 -> "uncertain"
    [] OTHER -> "likely_human"

\* summarize_click_classification: what counts as a scanner's
Provider(es, e) == Class(es, e) \in {"known_email_proxy", "likely_email_provider"}

-----------------------------------------------------------------------------
(* The same, said without an order.                                        *)

\* clicks on other links by the same fingerprint, near this one
Company(es, e) ==
  {x \in es : /\ x.delivery = e.delivery /\ x.print = e.print /\ x.link # e.link
               /\ x.at - e.at \in (-BurstSpan)..BurstSpan}

Apart(x, e) == IF x.at < e.at THEN e.at - x.at ELSE x.at - e.at

\* _multi_link_burst_evidence, "symmetric cross-link burst evidence": whoever has company has
\* evidence with the distance to the nearest of it, and company has evidence of being no farther
EvidenceIsNearestOf(es) ==
  \A e \in es :
    /\ Distance(es, e) = IF Company(es, e) = {} THEN {} ELSE {Min({Apart(x, e) : x \in Company(es, e)})}
    /\ \A x \in Company(es, e) : \E d \in Distance(es, x) : d <= Apart(x, e)

=============================================================================
