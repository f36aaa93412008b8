------------------------- MODULE MCOutboundDelivery -------------------------
(***************************************************************************)
(* Two callers, an ordinary and an individualized variant of one visible   *)
(* content, two recipients, two attempts per message.                      *)
(***************************************************************************)
EXTENDS OutboundDelivery, TLC

CONSTANTS c1, c2, k1, m1, single, individual

CallerSymmetry == Permutations({c1, c2})

Ask(k, v, f) == [key |-> k, content |-> m1, variant |-> v, force |-> f]

\* A keyed and a forced ordinary send, an individualized one.
AskedHere == {Ask(k1, single, FALSE), Ask(NoKey, single, TRUE), Ask(NoKey, individual, FALSE)}

\* Only sends without a key, for the run with a failure of bookkeeping.
AskedUnkeyed == {Ask(NoKey, single, FALSE)}
=============================================================================
