------------------------------- MODULE MCMail -------------------------------
(***************************************************************************)
(* What reads and changes mailboxes, one component to a behaviour: they    *)
(* share no state, so nothing is added by letting them meet.               *)
(*                                                                         *)
(* cache: two UIDs, a service and a WebGUI that ask, one recreation, two   *)
(* passes, of which any command may fail.  content: a page with a link, an *)
(* image that is answered as text/css and a stylesheet; each names a font, *)
(* and a call may be ended at any point.  identity: two messages that share a    *)
(* resource, two mailboxes, a move, one restart and one row of an earlier  *)
(* release.  inbox: an account with a soft bounce and a reply, one with a  *)
(* hard bounce, an automatic reply and a soft bounce after it.  moves: two *)
(* callers, two messages, the inbox and the junk folder.                   *)
(***************************************************************************)
EXTENDS Integers, Sequences, TLC

CONSTANTS
  Callers, Messages, MaxCalls, MaxPasses,               \* of several parts
  Uids, MaxValidity,                                    \* of cache
  Inventory, Sheet, Semantic, MaxResources, MaxNested, MaxDecoys,                  \* of content
  Accounts, Mail, Deliveries, Recipient, NoDelivery, NoRecipient, Threshold, Limit, MaxEdits,
  Restarts,                                             \* of inbox
  Boxes, Inbox, Junk, First, MaxUid, MaxOthers,         \* of moves
  Mailboxes, NoMessage, Named, LegacyRows, Layout, MaxPlaceUid, MaxMoves, MaxBoots \* of identity

Found(u, s) == [url |-> u, source |-> s, tiny |-> FALSE, redirector |-> FALSE]
PageResources == <<Found("leave", "a href"), Found("img", "img src"), Found("css", "link href")>>
PageSheet == "css" :> {"img"} @@ "img" :> {"css"}
StylesheetOnly == <<Found("css", "link href")>>

Resources == [m1 |-> {"u"}, m2 |-> {"u"}]
MessagesIn == [A |-> <<"m1", "m2">>, B |-> << >>]
EarlierRows == {[place |-> <<"A", 1>>, url |-> "u"]}

Quiet == [submitted |-> "", bulk |-> FALSE, vacation |-> FALSE]
Report(reads, envelope) == [report |-> TRUE, reads |-> reads, to |-> "r", envelope |-> envelope,
                            about |-> 0, marks |-> Quiet]
Reply(marks) == [report |-> FALSE, reads |-> "unknown", to |-> "", envelope |-> 0, about |-> 1, marks |-> marks]
Automatic == [submitted |-> "auto-replied", bulk |-> FALSE, vacation |-> TRUE]
ArrivingMail == [a |-> <<Report("soft_bounce", 1), Reply(Quiet)>>,
                 b |-> <<Report("hard_bounce", 0), Reply(Automatic), Report("soft_bounce", 1)>>]
OneRecipient == 1 :> "r"

FirstUids == [m1 |-> 1, m2 |-> 2]

\* no action singles out a caller
CallerSymmetry == Permutations(Callers)

VARIABLES
  component,   \* the part this behaviour is about
  mailbox, mcRows, mcKnown, mcPass, waiting, answers, fetch, asked, unnoticed, mcPasses,
  cache, enabled, noise, pcCall, pcCalls, sent, page, abandoned,
  server, validity, held, ciKnown, ciRows, up, ciCall, shown, kept, promised, moves, ciCalls,
  boots,
  arrived, gone, mark, iwPass, row, delivery, done, base, bounced, hard, iwPasses, edits,
  restarts,
  canMove, box, last, mmCall, discarded, swept, mmCalls, others

Cache == INSTANCE MailboxCache WITH
  rows <- mcRows, known <- mcKnown, pass <- mcPass, passes <- mcPasses

Content == INSTANCE PassiveContent WITH
  call <- pcCall, calls <- pcCalls

Identity == INSTANCE ContentIdentity WITH
  MaxUid <- MaxPlaceUid, known <- ciKnown, rows <- ciRows, call <- ciCall, calls <- ciCalls

Arrivals == INSTANCE InboundWatch WITH
  pass <- iwPass, passes <- iwPasses

Moves == INSTANCE MailboxMoves WITH
  call <- mmCall, calls <- mmCalls

cacheVars == <<mailbox, mcRows, mcKnown, mcPass, waiting, answers, fetch, asked, unnoticed, mcPasses>>
contentVars == <<cache, enabled, noise, pcCall, pcCalls, sent, page, abandoned>>
identityVars == <<server, validity, held, ciKnown, ciRows, up, ciCall, shown, kept, promised, moves, ciCalls,
  boots>>
inboxVars == <<arrived, gone, mark, iwPass, row, delivery, done, base, bounced, hard, iwPasses, edits,
  restarts>>
movesVars == <<canMove, box, last, mmCall, discarded, swept, mmCalls, others>>
allVars == <<component, cacheVars, contentVars, identityVars, inboxVars, movesVars>>

Init ==
  /\ component \in {"cache", "content", "identity", "inbox", "moves"}
  /\ Cache!Init /\ Content!Init /\ Identity!Init /\ Arrivals!Init /\ Moves!Init
  \* one initial state of each component that does not act
  /\ component # "content" => enabled /\ noise
  /\ component # "identity" => ciRows = << >>
  /\ component # "moves" => canMove

Next ==
  /\ UNCHANGED component
  /\ \/ component = "cache" /\ Cache!Next /\ UNCHANGED <<contentVars, identityVars, inboxVars, movesVars>>
     \/ component = "content" /\ Content!Next /\ UNCHANGED <<cacheVars, identityVars, inboxVars, movesVars>>
     \/ component = "identity" /\ Identity!Next /\ UNCHANGED <<cacheVars, contentVars, inboxVars, movesVars>>
     \/ component = "inbox" /\ Arrivals!Next /\ UNCHANGED <<cacheVars, contentVars, identityVars, movesVars>>
     \/ component = "moves" /\ Moves!Next /\ UNCHANGED <<cacheVars, contentVars, identityVars, inboxVars>>

Spec == Init /\ [][Next]_allVars

-----------------------------------------------------------------------------
ASSUME MailAssumption ==
  /\ Cache!CacheAssumption
  /\ Identity!IdentityAssumption
  /\ Arrivals!InboundAssumption /\ Arrivals!BurstsFit
  /\ Moves!MovesAssumption

\* See the comments of these parts in the modules they come from.

\* After a pass that nothing disturbed the cache holds what the server holds, but for headers of a
\* recreated mailbox where no validity was known to compare with.
MirrorsAfterQuietPass == component = "cache" => Cache!TypeOK /\ Cache!MirrorsAfterQuietPass

\* No cached stylesheet of the message names a remote origin, unless a call was ended over it.
CachedCssIsLocal == component = "content" => Content!TypeOK /\ Content!CachedCssIsLocal

\* What a stylesheet names and the cache holds is shown with the page (see findings).
StylesShowTheirResources == component = "content" => Content!StylesShowTheirResources

\* What was fetched for a message is found wherever the message is moved.
KeptContentFollows == component = "identity" => Identity!TypeOK /\ Identity!KeptContentFollows

\* No message that arrived after the mark was taken is passed over.
NothingPassedOver == component = "inbox" => Arrivals!TypeOK /\ Arrivals!NothingPassedOver

\* A recipient that bounced hard stays suppressed until a person lifts it.
HardBounceHolds == component = "inbox" => Arrivals!HardBounceHolds

\* No move loses a message.
NothingLost == component = "moves" => Moves!TypeOK /\ Moves!NothingLost
=============================================================================
