------------------------------ MODULE Barrier ------------------------------
(***************************************************************************)
(* What a barrier promises to its participants.  Every participant enters  *)
(* and leaves once in each round, and leaves a round only after all of     *)
(* them have entered it.                                                   *)
(***************************************************************************)
EXTENDS Naturals

CONSTANTS Threads, Rounds

\* The rounds each participant has entered and left.
VARIABLES entered, left

Init == entered = [t \in Threads |-> 0] /\ left = [t \in Threads |-> 0]

Enter(t) ==
    /\ entered[t] = left[t] /\ entered[t] < Rounds
    /\ entered' = [entered EXCEPT ![t] = @ + 1]
    /\ UNCHANGED left

Leave(t) ==
    /\ left[t] < entered[t]
    /\ \A u \in Threads : left[t] < entered[u]
    /\ left' = [left EXCEPT ![t] = @ + 1]
    /\ UNCHANGED entered

Next == \E t \in Threads : Enter(t) \/ Leave(t)

Spec == Init /\ [][Next]_<<entered, left>>
=============================================================================
