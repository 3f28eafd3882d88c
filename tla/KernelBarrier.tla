--------------------------- MODULE KernelBarrier ---------------------------
(***************************************************************************)
(* The barrier of the compute node kernel, Kernel_Barrier_Internal of      *)
(* cnk/src/lock.c, on one lock word.  The upper half of the word is a      *)
(* generation number that wraps, the lower half counts the hardware        *)
(* threads that have arrived.                                              *)
(***************************************************************************)
EXTENDS BarrierCallers

\* The number of generations: 2^16.
CONSTANT Generations

ASSUME GenerationsAssumption == Generations \in Nat /\ Generations > 1

\* The lock word and the threads that hold a reservation on it, and the locals of each
\* caller.
VARIABLES word, reserved, tmp_val, generation

kbvars == <<callers, word, reserved, tmp_val, generation>>

Word == [gen : 0 .. Generations - 1, arrived : 0 .. NumThreads - 1]

KBInit ==
    /\ CallersInit("outside")
    /\ word = [gen |-> 0, arrived |-> 0]
    /\ reserved = {}
    /\ tmp_val = [t \in Threads |-> word]
    /\ generation = [t \in Threads |-> 0]

\* (generation + 1) << 16.
NextGeneration(g) == IF g + 1 = Generations THEN 0 ELSE g + 1

\* Fault: the last arrival starts a generation that counts it already.
OneAhead(w) ==
    IF w.arrived + 1 = NumThreads
    THEN [gen |-> NextGeneration(w.gen), arrived |-> 1 % NumThreads]
    ELSE [w EXCEPT !.arrived = @ + 1]

\* The word after one more arrival.
Arrival(w) ==
    IF w.arrived + 1 = NumThreads
    THEN [gen |-> NextGeneration(w.gen), arrived |-> 0]
    ELSE [w EXCEPT !.arrived = @ + 1]

LoadReserved32(t) ==
    /\ \/ Goes(t, "outside", "reserving") /\ Calls(t)
       \/ Goes(t, "retry", "reserving")
    /\ tmp_val' = [tmp_val EXCEPT ![t] = Arrival(word)]
    /\ generation' = [generation EXCEPT ![t] = word.gen]
    /\ reserved' = reserved \cup {t}
    /\ Elsewhere /\ UNCHANGED word

\* The store takes every other reservation away.
StoreConditional32(t) ==
    /\ \/ /\ t \in reserved /\ Goes(t, "reserving", "spinning")
          /\ word' = tmp_val[t] /\ reserved' = {} /\ Announces(t)
       \/ /\ t \notin reserved /\ Goes(t, "reserving", "retry")
          /\ Elsewhere /\ UNCHANGED <<word, reserved>>
    /\ UNCHANGED <<tmp_val, generation>>

\* while ((ATOMIC_READ(pLock) >> 16) == generation) ends.
AwaitGeneration(t) ==
    /\ Goes(t, "spinning", "outside") /\ word.gen # generation[t]
    /\ Returns(t) /\ UNCHANGED <<word, reserved, tmp_val, generation>>

KBStep(t) == LoadReserved32(t) \/ StoreConditional32(t) \/ AwaitGeneration(t)

KBNext == \E t \in Threads : KBStep(t)

KBSpec == KBInit /\ [][KBNext]_kbvars

\* The hardware threads keep running.
KBFairness == WF_kbvars(KBNext)

-----------------------------------------------------------------------------

KBTypeOK ==
    /\ pc \in [Threads -> {"outside", "reserving", "retry", "spinning"}]
    /\ entered \in [Threads -> 0 .. Rounds] /\ left \in [Threads -> 0 .. Rounds]
    /\ word \in Word /\ reserved \subseteq Threads
    /\ tmp_val \in [Threads -> Word]
    /\ generation \in [Threads -> 0 .. Generations - 1]

\* After r releases the word counts the callers of the next round, the generation has
\* changed for the callers of the last round that still spin and for no other, and a
\* reservation is on the present word.
KBInRound(r) ==
    /\ word.arrived = Cardinality(Entered(r + 1))
    /\ \A t \in Threads :
        \/ /\ pc[t] \in {"outside", "reserving", "retry"}
           /\ entered[t] = r /\ left[t] = r /\ (pc[t] # "outside" => Calls(t))
        \/ /\ pc[t] = "spinning"
           /\ entered[t] = r + 1 /\ left[t] = r /\ generation[t] = word.gen
        \/ /\ pc[t] = "spinning"
           /\ entered[t] = r /\ left[t] + 1 = r /\ generation[t] # word.gen
    /\ \A t \in reserved :
        pc[t] = "reserving" /\ tmp_val[t] = Arrival(word) /\ generation[t] = word.gen

\* The state of the kernel barrier belongs to one round.
KBInv == KBTypeOK /\ \E r \in 0 .. Rounds : KBInRound(r)
=============================================================================
