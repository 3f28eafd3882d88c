----------------------------- MODULE MCNodeSync -----------------------------
(***************************************************************************)
(* What the threads of a node wait in: one small instance of each barrier, *)
(* and the futexes of a process.  The initial state chooses one of them;   *)
(* the labels of a barrier's callers disable the steps of the others.      *)
(* Behaviours of the futexes are followed until an interrupt is late.      *)
(***************************************************************************)
EXTENDS L2Barrier, KernelBarrier, GIBarrier, MCFutex

CONSTANTS t1, t2, t3

VARIABLE scene

l2state == <<start, count, seen, current, ticket>>

kbstate == <<word, reserved, tmp_val, generation>>

gistate == <<control, state, wire>>

mcvars == <<callers, l2state, kbstate, gistate, fvars, scene>>

NoL2 ==
    /\ start = 0 /\ count = 0 /\ seen = <<>> /\ current = <<>>
    /\ ticket = [t \in Threads |-> None]

NoKB == word = [gen |-> 0] /\ reserved = {} /\ tmp_val = <<>> /\ generation = <<>>

NoGI ==
    /\ control = <<>> /\ state = <<>>
    /\ wire = [n \in Threads |-> [u \in Threads |-> <<>>]]

\* Initial registers that hold the three patterns.
Mixed == control[t1] = 4 /\ control[t2] = 2 /\ control[t3] = 1

MCInit ==
    /\ scene \in {"barrier", "futex"}
    /\ FInit
    /\ \/ scene = "barrier" /\ L2Init /\ NoKB /\ NoGI
       \/ scene = "barrier" /\ KBInit /\ NoL2 /\ NoGI
       \/ scene = "barrier" /\ GIInit /\ Mixed /\ NoL2 /\ NoKB
       \/ scene = "futex" /\ CallersInit("elsewhere") /\ NoL2 /\ NoKB /\ NoGI

MCNext ==
    \/ L2Next /\ UNCHANGED <<kbstate, gistate, fvars, scene>>
    \/ KBNext /\ UNCHANGED <<l2state, gistate, fvars, scene>>
    \/ GINext /\ UNCHANGED <<l2state, kbstate, fvars, scene>>
    \/ /\ scene = "futex" /\ FNext /\ ~used'.late
       /\ UNCHANGED <<callers, l2state, kbstate, gistate, scene>>

MCSpec ==
    /\ MCInit /\ [][MCNext]_mcvars
    /\ L2Fairness /\ KBFairness /\ GIFairness /\ FFairness

\* Every call of each barrier returns when all the callers make their calls and none has
\* given up before its first one: no release is missed, even by a caller that looks only
\* after others have entered the next round.
AllReturn == []<>(scene = "barrier" => AllReturned)
=============================================================================
