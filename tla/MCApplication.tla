---------------------------- MODULE MCApplication ---------------------------
(***************************************************************************)
(* The application around the mailbox, one component to a behaviour: they  *)
(* share no state.                                                         *)
(*                                                                         *)
(* tasks: two clients and one task on a clock of three instants.  runtime: *)
(* one writer with killed containers and a failed download; two writers    *)
(* with forced refreshes that fail; a start script that fails.  files: two *)
(* contents, of one and two units, and room for three: three callers that  *)
(* never die, or one that may die anywhere.  links: one file that may be   *)
(* created again, one page, links of earlier releases, two threads that    *)
(* meet with two kinds of request.  telemetry: opens, views and clicks of  *)
(* two visitors, with pauses within and beyond the thresholds.  keys: two  *)
(* threads and two restarts around each file that holds a secret.          *)
(* releases: two callers, a time to live of two instants and one release   *)
(* that is published meanwhile.  index: one item with a short and a long   *)
(* text, two callers.  retrieval: an item of the project, a global one and *)
(* one of another owner, with a budget that holds two.                     *)
(***************************************************************************)
EXTENDS TaskRegistry, Sequences, TLC

CONSTANTS
  c1, c2, j1, nobody,
  Writers, MaxVersion, ControlLoads,                             \* of runtime
  Savers, Files, Contents, Size, MaxFiles, MaxTotal, StoreLoads, \* of files
  LinkedFiles, LinkedContents, NoContent, Pages, Labels, LinkKeys, NoKey, Historic,
  MaxChain, MaxNow, MaxCaps, MaxLinks, MaxGeneric, Mixes,        \* of links
  Threads,                                                       \* of links and those that follow
  Routines, MaxKeys, MaxStarts, MaxFaults,                       \* of keys
  CurrentRelease, Ttl, LastInstant, MaxReleases,                 \* of releases
  Items, Texts, Pieces, Projects, Global, MaxRevision, MaxCalls, MaxDeleted,  \* of index
  Entries, Foreign, Priority, EntrySize, FirstSaved, Questions, TopN, Limit, Budget,
  Least, Cut, Marker, MaxQuestions, MaxRewrites,                 \* of retrieval
  Deliveries, Links, Visitors, Pauses, Retention, AmpLife, MaxPauses, RequestLoads  \* of telemetry

Killed == [writers |-> {"w1"}, writes |-> 2, faults |-> 1, crashes |-> 2,
           check |-> TRUE, refresh |-> FALSE, startFails |-> FALSE]
Refreshed == [writers |-> {"w1", "w2"}, writes |-> 2, faults |-> 3, crashes |-> 0,
              check |-> FALSE, refresh |-> TRUE, startFails |-> FALSE]
Unstartable == [writers |-> {"w1"}, writes |-> 1, faults |-> 0, crashes |-> 1,
                check |-> TRUE, refresh |-> FALSE, startFails |-> TRUE]
RuntimeLoads == {Killed, Refreshed, Unstartable}

SizeOf == [short |-> 1, long |-> 2]
Mortal == [callers |-> {"c1"}, crash |-> TRUE]
FileLoads == {Mortal, [callers |-> {"c1", "c2", "c3"}, crash |-> FALSE]}

LinkTo(kind, n) == [to |-> [kind |-> kind, n |-> n], cap |-> 0, made |-> 1]
HistoricLinks == <<LinkTo("mail", 2), LinkTo("mail", 3), LinkTo("page", 1), LinkTo("file", 1)>>
LinkMixes == {{"create", "compose"}, {"create", "follow"}, {"compose", "follow"}}

PiecesOf == [short |-> 1, long |-> 2]

StartingWith == [a |-> [on |-> TRUE, always |-> FALSE, primary |-> "p"],
               b |-> [on |-> TRUE, always |-> TRUE, primary |-> "global"],
               c |-> [on |-> TRUE, always |-> FALSE, primary |-> "foreign"]]
Question(kind, ps, global, query) == [kind |-> kind, projects |-> ps, global |-> global, query |-> query]
AskedOf == {Question("list", {"p"}, TRUE, FALSE), Question("search", {}, TRUE, TRUE),
              Question("context", {"p"}, TRUE, TRUE), Question("context", {"p"}, FALSE, FALSE),
              Question("global", {}, TRUE, FALSE)}

Visitor(address, country) ==
  [address |-> address, agent |-> "x", country |-> country, browser |-> "x", proxy |-> FALSE,
   relayed |-> address = "b"]
SomeVisitors == {Visitor("a", "IT"), Visitor("b", "US")}
LinksOfOne == <<{1, 2}>>
PriorityOf == [a |-> 2, b |-> 1, c |-> 1]
CharactersOf == [a |-> 700, b |-> 400, c |-> 200]

RequestMixes == {[kinds |-> {"pixel", "amp_xhr"}, threads |-> {"c1", "c2"}, events |-> 2],
                 [kinds |-> {"click", "generic"}, threads |-> {"c1", "c2"}, events |-> 2],
                 [kinds |-> {"click"}, threads |-> {"c1"}, events |-> 3]}

VARIABLES
  component,   \* the part this behaviour is about
  rcLoad, control, tmp, content, writers, boot, installed, current, running, newest, approved, uncleared,
  writes, rcFaults, crashes,
  fsLoad, rows, blobs, fsCalls, leftBytes,
  flMix, flFile, flNow, caps, links, generic, flCall, flServed, flTold, refused,
  trMix, trNow, pauses, opens, clicks, generics, trCount, sidecar, trCall, asked, shown,
  routine, kfFile, keys, at, mine, held, signed, interrupted, unsynced, starts, kfFaults,
  forcible, rlNow, published, cache, rlCall, attempts, answer,
  kiItem, chunks, history, active, loaded, kiCall, kiOverlapped, kiCount,
  krItem, scopes, krCall, wasIn, wasOn, krTold, krCalls, edits

Runtime == INSTANCE RuntimeControl WITH
  Loads <- ControlLoads, load <- rcLoad, faults <- rcFaults

Store == INSTANCE FileStore WITH
  Callers <- Savers, Loads <- StoreLoads, load <- fsLoad, calls <- fsCalls, left <- leftBytes

Shared == INSTANCE FileLinks WITH
  Callers <- Threads, Files <- LinkedFiles, Contents <- LinkedContents, Keys <- LinkKeys,
  mix <- flMix, file <- flFile, now <- flNow, call <- flCall, served <- flServed, told <- flTold

Telemetry == INSTANCE Tracking WITH
  Mixes <- RequestLoads, mix <- trMix, now <- trNow, count <- trCount, call <- trCall

Secrets == INSTANCE KeyFiles WITH
  file <- kfFile, faults <- kfFaults

Lookup == INSTANCE ReleaseLookup WITH
  Callers <- Threads, Current <- CurrentRelease, Horizon <- LastInstant, now <- rlNow,
  call <- rlCall

Index == INSTANCE KnowledgeIndex WITH
  Callers <- Threads, item <- kiItem, call <- kiCall, overlapped <- kiOverlapped,
  count <- kiCount

Retrieval == INSTANCE KnowledgeRetrieval WITH
  Items <- Entries, Size <- EntrySize, Start <- FirstSaved, Asks <- Questions,
  MaxCalls <- MaxQuestions, MaxEdits <- MaxRewrites,
  item <- krItem, call <- krCall, told <- krTold, calls <- krCalls

runtimeVars == <<rcLoad, control, tmp, content, writers, boot, installed, current, running, newest, approved, uncleared,
  writes, rcFaults, crashes>>
filesVars == <<fsLoad, rows, blobs, fsCalls, leftBytes>>
linksVars == <<flMix, flFile, flNow, caps, links, generic, flCall, flServed, flTold, refused>>
telemetryVars == <<trMix, trNow, pauses, opens, clicks, generics, trCount, sidecar, trCall, asked, shown>>
keysVars == <<routine, kfFile, keys, at, mine, held, signed, interrupted, unsynced, starts, kfFaults>>
releasesVars == <<forcible, rlNow, published, cache, rlCall, attempts, answer>>
indexVars == <<kiItem, chunks, history, active, loaded, kiCall, kiOverlapped, kiCount>>
retrievalVars == <<krItem, scopes, krCall, wasIn, wasOn, krTold, krCalls, edits>>
allVars == <<component, vars, runtimeVars, filesVars, linksVars, telemetryVars, keysVars, releasesVars, indexVars, retrievalVars>>

AllInit ==
  /\ component \in {"tasks", "runtime", "files", "links", "telemetry", "keys", "releases", "index", "retrieval"}
  /\ Init
  /\ Runtime!Init /\ Store!Init /\ Shared!Init /\ Telemetry!Init /\ Secrets!Init /\ Lookup!Init /\ Index!Init /\ Retrieval!Init
  \* one initial state of each component that does not act
  /\ component # "tasks" => row = [j \in Jobs |-> Missing]
  /\ component # "runtime" => rcLoad = CHOOSE l \in ControlLoads : TRUE
  /\ component # "files" => fsLoad = CHOOSE l \in StoreLoads : TRUE
  /\ component # "links" => flMix = CHOOSE m \in Mixes : TRUE
  /\ component # "telemetry" => trMix = CHOOSE m \in RequestLoads : TRUE
  /\ component # "keys" => routine = CHOOSE r \in Routines : TRUE
  /\ component # "releases" => ~forcible

AllNext ==
  /\ UNCHANGED component
  /\ \/ component = "tasks" /\ Next /\ UNCHANGED <<runtimeVars, filesVars, linksVars, telemetryVars, keysVars, releasesVars, indexVars, retrievalVars>>
     \/ component = "runtime" /\ Runtime!Next /\ UNCHANGED <<vars, filesVars, linksVars, telemetryVars, keysVars, releasesVars, indexVars, retrievalVars>>
     \/ component = "files" /\ Store!Next /\ UNCHANGED <<vars, runtimeVars, linksVars, telemetryVars, keysVars, releasesVars, indexVars, retrievalVars>>
     \/ component = "links" /\ Shared!Next /\ UNCHANGED <<vars, runtimeVars, filesVars, telemetryVars, keysVars, releasesVars, indexVars, retrievalVars>>
     \/ component = "telemetry" /\ Telemetry!Next /\ UNCHANGED <<vars, runtimeVars, filesVars, linksVars, keysVars, releasesVars, indexVars, retrievalVars>>
     \/ component = "keys" /\ Secrets!Next /\ UNCHANGED <<vars, runtimeVars, filesVars, linksVars, telemetryVars, releasesVars, indexVars, retrievalVars>>
     \/ component = "releases" /\ Lookup!Next /\ UNCHANGED <<vars, runtimeVars, filesVars, linksVars, telemetryVars, keysVars, indexVars, retrievalVars>>
     \/ component = "index" /\ Index!Next /\ UNCHANGED <<vars, runtimeVars, filesVars, linksVars, telemetryVars, keysVars, releasesVars, retrievalVars>>
     \/ component = "retrieval" /\ Retrieval!Next /\ UNCHANGED <<vars, runtimeVars, filesVars, linksVars, telemetryVars, keysVars, releasesVars, indexVars>>

AllSpec == AllInit /\ [][AllNext]_allVars

-----------------------------------------------------------------------------
ASSUME ApplicationAssumption ==
  /\ Runtime!ConstantsAssumption /\ Store!ConstantsAssumption /\ Shared!LinksAssumption
  /\ Secrets!KeyFilesAssumption /\ Lookup!LookupAssumption /\ Index!IndexAssumption
  /\ Retrieval!RetrievalAssumption /\ Telemetry!TrackingAssumption
  /\ ControlLoads # {} /\ StoreLoads # {} /\ Mixes # {} /\ Routines # {}

\* See the comments of these parts in the modules they come from; ServedOnce, NoResurrection
\* and CompletedImmutable are those of TaskRegistry, which this module extends.

\* While no two calls overlap, a task keeps the schedule the client gave.
TasksSafety == component = "tasks" => TypeOK /\ RowConsistent /\ KeepsSchedule /\ HistoryTellsStatus

\* A one-shot release is started once unless the bootstrap could not take its name back, and a
\* release that worked is started when no other can be.
\* Nobody is told that no newer release exists when one did at the time of the check, and the
\* lookup is repeated once in a time to live.
RuntimeSafety ==
  /\ component = "runtime" =>
       Runtime!TypeOK /\ Runtime!OneShotServedOnce /\ Runtime!KeepsWorkingRelease
  /\ component = "releases" => Lookup!NoFalseNegative /\ Lookup!AttemptsSpaced

\* What was accepted is what the control file holds, and what the first restart runs.
RuntimeSteps == Runtime!InstalledAsAccepted /\ Runtime!FirstRestart

\* The store keeps its limits; one caller's files have their bytes, and bytes without a file are
\* those that a failed or killed call left.  What is signed is signed with the one key that stays in
\* its file, and an empty key file is being filled.
FilesSafety ==
  /\ component = "files" =>
       Store!TypeOK /\ Store!WithinLimits /\ Store!StoredHasBlob /\ Store!NoOrphanBlob
  /\ component = "keys" => Secrets!TypeOK /\ Secrets!OneKey /\ Secrets!EmptyIsBeingFilled

\* Whoever follows a link gets the file it was made for, or with a URL that expires and was made
\* for an id what is stored under the id by then; a key makes one link; no link that is made leads
\* through another.
LinksSafety ==
  component = "links" =>
    Shared!ServedExactly /\ Shared!KeyMakesOneLink /\ Shared!NeverThroughAnother

\* An event is shown with its own address, and read with the evidence nearest to it; bursts are
\* told as a scanner's, and a person who clicks alone is not taken for one.
TelemetrySafety ==
  component = "telemetry" =>
    Telemetry!ShowsItsOwnAddress /\ Telemetry!EvidenceIsNearest /\ Telemetry!BurstTold /\ Telemetry!PersonSpared

\* Each revision of an item stays, and a vector is of the text beside it.
IndexSafety == component = "index" => Index!TypeOK /\ Index!CurrentIsKept /\ Index!VectorOfItsText

\* Answers name enabled items of the scopes asked for, and pinned ones fit in the budget.
RetrievalSafety ==
  component = "retrieval" => Retrieval!TypeOK /\ Retrieval!AnswersAreScoped /\ Retrieval!AlwaysWithinBudget
=============================================================================
