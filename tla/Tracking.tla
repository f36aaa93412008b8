------------------------------ MODULE Tracking ------------------------------
(***************************************************************************)
(* Opens and clicks of delivered mail as they are recorded                 *)
(* (email_analytics.py, link_tracking.py), the private table beside them   *)
(* that holds addresses for a while (tracking_telemetry_v971.py), and what *)
(* queries answer (link_tracking_queries.py, the WebGUI).                  *)
(*                                                                         *)
(* Requests of different visitors are served at once.  A visitor stands    *)
(* for address, user agent and what is read from them; the fingerprint is  *)
(* a keyed hash of both.  No two requests read the clock at one instant    *)
(* (it counts microseconds in the code, milliseconds here).                *)
(***************************************************************************)
EXTENDS ClickClassification

CONSTANTS
  Deliveries,
  Links,       \* by delivery, its links
  Visitors,    \* [address, agent, country, browser, proxy, relayed]
  Threads,
  Pauses,      \* what may pass between two requests, ms
  Retention,   \* SENSITIVE_RETENTION_DAYS, ms
  AmpLife,     \* 31 days, ms: how long an AMP token is good
  MaxPauses,   \* bound: pauses
  Mixes        \* bound: [kinds, threads, events] of the requests of one behaviour

TrackingAssumption ==
  /\ \A v \in Visitors : v.proxy \in BOOLEAN /\ v.relayed \in BOOLEAN
  /\ Pauses \subseteq Nat /\ Retention \in Nat /\ Mixes # {}
  /\ \A m \in Mixes : m.threads \subseteq Threads

VARIABLES
  mix,        \* the requests of this behaviour
  now, pauses,
  opens,      \* tracking_opens, in the order of ids
  clicks,     \* tracking_clicks
  generics,   \* generic_tracking_clicks, numbered by themselves; a generic link is a number of Links
  count,      \* tracking_deliveries.open_count
  sidecar,    \* tracking_sensitive_telemetry: [kind, id, at, address]
  call,       \* the request each thread serves
  asked,      \* requests so far
  shown       \* history: what the dashboard showed last

vars == <<mix, now, pauses, opens, clicks, generics, count, sidecar, call, asked, shown>>

Idle == [at |-> "idle"]
Fingerprint(v) == <<v.address, v.agent>>
Goes(c, to) == call' = [call EXCEPT ![c] = to]

Init ==
  /\ mix \in Mixes
  /\ now = 0 /\ pauses = 0
  /\ opens = <<>> /\ clicks = <<>> /\ generics = <<>>
  /\ count = [d \in Deliveries |-> 0]
  /\ sidecar = {} /\ call = [c \in Threads |-> Idle] /\ asked = 0
  /\ shown = {}

Pause(ms) ==
  /\ pauses < MaxPauses
  /\ now' = now + ms /\ pauses' = pauses + 1
  /\ UNCHANGED <<mix, opens, clicks, generics, count, sidecar, call, asked, shown>>

\* a request arrives and reads the clock; an AMP view needs a token that is still good
Request(c, kind, d, l, v) ==
  /\ call[c] = Idle /\ asked < mix.events
  /\ kind = "amp_xhr" => now < AmpLife
  /\ now' = now + 1 /\ asked' = asked + 1
  /\ Goes(c, [at |-> "insert", kind |-> kind, delivery |-> d, link |-> l, visitor |-> v, time |-> now + 1,
              id |-> 0])
  /\ UNCHANGED <<mix, pauses, opens, clicks, generics, count, sidecar, shown>>

\* _record_delivery_event: the event and the count in one transaction
InsertOpen(c) ==
  /\ call[c].at = "insert" /\ call[c].kind \notin {"click", "generic"}
  /\ LET q == call[c]
     IN /\ opens' = Append(opens, [id |-> Len(opens) + 1, delivery |-> q.delivery, at |-> q.time,
                                   visitor |-> q.visitor])
        /\ count' = [count EXCEPT ![q.delivery] = @ + 1]
        /\ Goes(c, [q EXCEPT !.at = "locate"])
  /\ UNCHANGED <<mix, now, pauses, clicks, generics, sidecar, asked, shown>>

\* LinkTrackingStore.record_click answers the id of its row
InsertClick(c) ==
  /\ call[c].at = "insert" /\ call[c].kind = "click"
  /\ LET q == call[c]
     IN /\ clicks' = Append(clicks, [id |-> Len(clicks) + 1, delivery |-> q.delivery, link |-> q.link,
                                     print |-> Fingerprint(q.visitor), at |-> q.time, visitor |-> q.visitor])
        /\ Goes(c, [q EXCEPT !.at = "persist", !.id = Len(clicks) + 1])
  /\ UNCHANGED <<mix, now, pauses, opens, generics, count, sidecar, asked, shown>>

\* GenericTrackedLinkStore.record_click: the address goes nowhere but into the fingerprint
InsertGeneric(c) ==
  /\ call[c].at = "insert" /\ call[c].kind = "generic"
  /\ LET q == call[c]
     IN generics' = Append(generics, [id |-> Len(generics) + 1, link |-> q.link,
                                      print |-> Fingerprint(q.visitor), at |-> q.time])
  /\ Goes(c, Idle)
  /\ UNCHANGED <<mix, now, pauses, opens, clicks, count, sidecar, asked, shown>>

\* a plausible slip: the latest open of the delivery
LatestOfDelivery(q) == {o \in ToSet(opens) : o.delivery = q.delivery}

\* _latest_open_event_id: the open of the delivery at the instant the answer gave
OfItsInstant(q) == {o \in ToSet(opens) : o.delivery = q.delivery /\ o.at = q.time}

Locate(c) ==
  /\ call[c].at = "locate"
  /\ LET ids == {o.id : o \in OfItsInstant(call[c])}
     IN Goes(c, IF ids = {} THEN Idle ELSE [call[c] EXCEPT !.at = "persist", !.id = Max(ids)])
  /\ UNCHANGED <<mix, now, pauses, opens, clicks, generics, count, sidecar, asked, shown>>

Table(q) == IF q.kind = "click" THEN "click" ELSE "open"

\* an upsert by kind and id
Persist(c) ==
  /\ call[c].at = "persist"
  /\ LET q == call[c]
     IN sidecar' = {s \in sidecar : ~(s.kind = Table(q) /\ s.id = q.id)}
                   \cup {[kind |-> Table(q), id |-> q.id, at |-> q.time, address |-> q.visitor.address]}
  /\ Goes(c, [call[c] EXCEPT !.at = "retain"])
  /\ UNCHANGED <<mix, now, pauses, opens, clicks, generics, count, asked, shown>>

\* enforce_sensitive_retention
Retained == {s \in sidecar : s.at >= now - Retention}

Retain(c) ==
  /\ call[c].at = "retain"
  /\ sidecar' = Retained
  /\ Goes(c, Idle)
  /\ UNCHANGED <<mix, now, pauses, opens, clicks, generics, count, asked, shown>>

\* a request dies with the process, or fails where only the log tells; installation retains
Restart ==
  /\ \E c \in Threads : call[c] # Idle
  /\ call' = [c \in Threads |-> Idle]
  /\ sidecar' = Retained
  /\ UNCHANGED <<mix, now, pauses, opens, clicks, generics, count, asked, shown>>

\* the events of one table that have a private row, joined with it
Shown(kind, events) ==
  {[kind |-> kind, event |-> p[1], address |-> p[2].address, time |-> now] :
     p \in {q \in ToSet(events) \X Retained : q[2].kind = kind /\ q[2].id = q[1].id}}

\* sensitive_events_for_account
Look ==
  /\ sidecar' = Retained
  /\ shown' = Shown("open", opens) \cup Shown("click", clicks)
  /\ UNCHANGED <<mix, now, pauses, opens, clicks, generics, count, call, asked>>

Serve(c) == InsertOpen(c) \/ InsertClick(c) \/ InsertGeneric(c) \/ Locate(c) \/ Persist(c) \/ Retain(c)

Asks(c) ==
  \E d \in Deliveries, v \in Visitors :
    \/ \E kind \in mix.kinds \ {"click", "generic"} : Request(c, kind, d, 0, v)
    \/ \E kind \in mix.kinds \cap {"click", "generic"}, l \in Links[d] : Request(c, kind, d, l, v)

Next ==
  \/ \E ms \in Pauses : Pause(ms)
  \/ \E c \in mix.threads : Asks(c) \/ Serve(c)
  \/ Restart
  \/ Look

Spec == Init /\ [][Next]_vars

-----------------------------------------------------------------------------
(* Queries over the clicks: all of them, and those of one link.            *)

Clicks == ToSet(clicks)
OfLink(l) == {e \in Clicks : e.link = l}

-----------------------------------------------------------------------------

\* What the dashboard shows beside an event is the address the event came from, however the
\* requests of a delivery were served at once, and never an address older than the retention.
ShowsItsOwnAddress ==
  \A s \in shown : s.address = s.event.visitor.address /\ s.event.at >= s.time - Retention

\* The scan for bursts, which walks the sorted clicks to both sides and stops at the first click
\* on another link, finds the nearest one of all, and finds it from both of its ends.
EvidenceIsNearest == EvidenceIsNearestOf(Clicks)

\* "Strong scanner/provider evidence" (CHANGELOG.md:465, :473): a click of a burst is told as a
\* provider's, though what the same fingerprint did elsewhere speaks for a person.
BurstTold == \A e \in Clicks : Company(Clicks, e) # {} => Provider(Clicks, e)

\* A person who clicks alone, however often and whatever the query reads, is not taken for one.
PersonSpared ==
  \A e \in Clicks :
    /\ ~e.visitor.proxy /\ Company(Clicks, e) = {}
    /\ \A x \in OfLink(e.link) : x.print = e.print
    => \A es \in {Clicks, OfLink(e.link)} : ~Provider(es, e)

\* The burst is told by every query, that of one link (list_click_events) included.
BurstToldByLink == \A e \in Clicks : Company(Clicks, e) # {} => Provider(OfLink(e.link), e)

=============================================================================
