------------------------------ MODULE Barrier ------------------------------
(***************************************************************************)
(* What a barrier promises: nobody leaves a round that somebody has not    *)
(* entered.                                                                *)
(***************************************************************************)
EXTENDS Naturals

CONSTANT PE

VARIABLES entered,   \* rounds a PE has entered
          left       \* rounds a PE has left

Init == entered = [p \in PE |-> 0] /\ left = [p \in PE |-> 0]

Enter(p) ==
    /\ entered[p] = left[p]
    /\ entered' = [entered EXCEPT ![p] = @ + 1]
    /\ UNCHANGED left

Leave(p) ==
    /\ left[p] < entered[p]
    /\ \A q \in PE : entered[q] >= entered[p]
    /\ left' = [left EXCEPT ![p] = @ + 1]
    /\ UNCHANGED entered

Next == \E p \in PE : Enter(p) \/ Leave(p)

Spec == Init /\ [][Next]_<<entered, left>>

=============================================================================
