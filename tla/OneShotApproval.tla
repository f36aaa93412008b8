-------------------------- MODULE OneShotApproval --------------------------
(***************************************************************************)
(* What an approval promises: it is issued, then it authorises at most one *)
(* execution, or none.  PendingApproval, with its rows in a table, keeps   *)
(* the promise.                                                            *)
(***************************************************************************)
EXTENDS Naturals

CONSTANTS Ids        \* the approvals that are ever issued

VARIABLES issued,    \* the approvals issued so far
          uses       \* how many executions each of them has authorised

Init ==
    /\ issued = {}
    /\ uses = [i \in Ids |-> 0]

Issue(i) ==
    /\ i \notin issued
    /\ issued' = issued \cup {i}
    /\ UNCHANGED uses

Use(i) ==
    /\ i \in issued
    /\ uses[i] = 0
    /\ uses' = [uses EXCEPT ![i] = 1]
    /\ UNCHANGED issued

Next == \E i \in Ids : Issue(i) \/ Use(i)

Spec == Init /\ [][Next]_<<issued, uses>>
=============================================================================
