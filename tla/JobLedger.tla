------------------------------ MODULE JobLedger ------------------------------
(***************************************************************************)
(* What metering and checkpoint submission promise the two parties of a    *)
(* session job, whatever fails or is retried underneath: tokens are billed *)
(* in order and at most once, no token is billed before it was served, and *)
(* only the first bill of a job may be rounded up, to a proof interval the *)
(* contract (or the fallback) prescribes.                                  *)
(***************************************************************************)
EXTENDS Integers

CONSTANTS Jobs, Intervals

VARIABLES
    served,   \* tokens generated for each job
    billed,   \* tokens billed to each job
    mark      \* the served tokens that the bills cover: 1 .. mark

ledger == <<served, billed, mark>>

Init ==
    /\ served = [j \in Jobs |-> 0]
    /\ billed = [j \in Jobs |-> 0]
    /\ mark = [j \in Jobs |-> 0]

Serve(j) ==
    /\ served' = [served EXCEPT ![j] = served'[j]]
    /\ served'[j] >= served[j]
    /\ UNCHANGED <<billed, mark>>

\* Bill the next tokens, up to a token that has been served.
Bill(j) ==
    /\ mark' = [mark EXCEPT ![j] = mark'[j]]
    /\ mark[j] < mark'[j] /\ mark'[j] <= served[j]
    /\ billed' = [billed EXCEPT ![j] = billed'[j]]
    /\ \/ billed'[j] = billed[j] + (mark'[j] - mark[j])
       \/ /\ mark[j] = 0
          /\ \E i \in Intervals : mark'[j] < i /\ billed'[j] = billed[j] + i
    /\ UNCHANGED served

Next == \E j \in Jobs : Serve(j) \/ Bill(j)

Spec == Init /\ [][Next]_ledger
=============================================================================
