--------------------------- MODULE BarrierCallers ---------------------------
(***************************************************************************)
(* The callers of a barrier implementation: the hardware threads or nodes  *)
(* of Threads, each of which calls the barrier Rounds times.  entered and  *)
(* left record how many calls have announced themselves to the others, and *)
(* how many have returned.                                                 *)
(***************************************************************************)
EXTENDS Naturals, FiniteSets

CONSTANTS Threads, Rounds

ASSUME ThreadsAssumption == IsFiniteSet(Threads) /\ Threads # {}

ASSUME RoundsAssumption == Rounds \in Nat

\* Where each caller is in the code of the barrier, and its calls.
VARIABLES pc, entered, left

callers == <<pc, entered, left>>

\* The number of participants the callers pass to the barrier.
NumThreads == Cardinality(Threads)

CallersInit(first) ==
    /\ pc = [t \in Threads |-> first]
    /\ entered = [t \in Threads |-> 0]
    /\ left = [t \in Threads |-> 0]

Goes(t, from, to) == pc[t] = from /\ pc' = [pc EXCEPT ![t] = to]

\* The caller t has another call to make.
Calls(t) == entered[t] < Rounds

\* The call of t becomes visible to the other callers, or returns.
Announces(t) == entered' = [entered EXCEPT ![t] = @ + 1] /\ UNCHANGED left

Returns(t) == left' = [left EXCEPT ![t] = @ + 1] /\ UNCHANGED entered

Elsewhere == UNCHANGED <<entered, left>>

\* The callers whose last round is r.
Entered(r) == {t \in Threads : entered[t] = r}

Abstract == INSTANCE Barrier

\* The implementation is a barrier: nobody returns from a round that somebody has not
\* entered, and nobody enters the next round before returning from the last.
ImplementsBarrier == Abstract!Spec

\* Every call has returned, or a caller gave up before its first one.
AllReturned == (\E t \in Threads : pc[t] = "failed") \/ \A t \in Threads : left[t] = Rounds
=============================================================================
