----------------------------- MODULE AtMostOnce -----------------------------
(***************************************************************************)
(* What the outbound ledger promises of an explicit idempotency key,       *)
(* whatever callers, clocks and crashes do: the key is bound to one        *)
(* payload, submitted at most once, and its outcome is final.              *)
(***************************************************************************)
EXTENDS Naturals

CONSTANTS Keys,        \* idempotency keys
          Payloads     \* complete payloads

VARIABLE submission    \* submission[k]: the one submission made for k

\* A key that was never submitted.
Nothing == [state |-> "unused"]

Outcomes == {"sent", "failed", "delivery_uncertain"}

Submissions == [payload : Payloads, state : {"in_progress"} \cup Outcomes]

TypeOK == submission \in [Keys -> Submissions \cup {Nothing}]

Init == submission = [k \in Keys |-> Nothing]

Submit(k, v) ==
    /\ submission[k] = Nothing
    /\ submission' = [submission EXCEPT ![k] = [payload |-> v, state |-> "in_progress"]]

Settle(k, o) ==
    /\ submission[k] # Nothing
    /\ submission[k].state = "in_progress"
    /\ submission' = [submission EXCEPT ![k].state = o]

Next == \E k \in Keys : \/ \E v \in Payloads : Submit(k, v)
                        \/ \E o \in Outcomes : Settle(k, o)

Spec == Init /\ [][Next]_submission
=============================================================================
