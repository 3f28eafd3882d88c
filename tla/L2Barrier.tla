----------------------------- MODULE L2Barrier -----------------------------
(***************************************************************************)
(* The barriers of spi/include/l2/barrier.h: L2_Barrier and                *)
(* L2_BarrierWithTicket on one L2_Barrier_t.  The load of b->start in      *)
(* L2_Barrier may take effect before or after the atomic increment of      *)
(* b->count, which nothing orders; in L2_BarrierWithTicket the ppc_msync   *)
(* keeps it before.                                                        *)
(***************************************************************************)
EXTENDS BarrierCallers, Integers

\* The value of no ticket.
CONSTANT None

ASSUME NoneAssumption == None \notin Nat

\* The fields of L2_Barrier_t, and the locals of each caller: the start its target is
\* computed from, its current, and the ticket its last call returned.
VARIABLES start, count, seen, current, ticket

l2vars == <<callers, start, count, seen, current, ticket>>

L2Init ==
    /\ CallersInit("out")
    /\ start = 0 /\ count = 0
    /\ seen = [t \in Threads |-> 0]
    /\ current = [t \in Threads |-> 0]
    /\ ticket = [t \in Threads |-> None]

\* The load of b->start, early or late.
LoadStart(t) ==
    /\ \/ Goes(t, "out", "loaded") /\ Calls(t)
       \/ Goes(t, "late", "arrived")
    /\ seen' = [seen EXCEPT ![t] = start]
    /\ Elsewhere /\ UNCHANGED <<start, count, current, ticket>>

\* L2_AtomicLoadIncrement(&b->count): the caller has entered the round.
Increment(t) ==
    /\ count' = count + 1
    /\ current' = [current EXCEPT ![t] = count + 1]
    /\ Announces(t) /\ UNCHANGED <<start, seen>>

\* The increment of L2_Barrier.
L2_Barrier(t) ==
    /\ \/ Goes(t, "loaded", "arrived")
       \/ Goes(t, "out", "late") /\ Calls(t)
    /\ Increment(t)
    /\ ticket' = [ticket EXCEPT ![t] = None]

\* The increment of L2_BarrierWithTicket, and the ticket it returns in the end.
L2_BarrierWithTicket(t) ==
    /\ Goes(t, "loaded", "arrived")
    /\ Increment(t)
    /\ ticket' = [ticket EXCEPT ![t] = count - seen[t]]

\* The last caller to arrive advances the barrier to the next round and returns; the
\* others wait.
Compare(t) ==
    /\ \/ /\ Goes(t, "arrived", "out") /\ current[t] = seen[t] + NumThreads
          /\ start' = current[t] /\ Returns(t)
       \/ /\ Goes(t, "arrived", "waiting") /\ current[t] # seen[t] + NumThreads
          /\ Elsewhere /\ UNCHANGED start
    /\ UNCHANGED <<count, seen, current, ticket>>

\* Fault: the waiters compare start with their target.
WaitForTarget(t) ==
    /\ Goes(t, "waiting", "out") /\ start >= seen[t] + NumThreads
    /\ Returns(t) /\ UNCHANGED <<start, count, seen, current, ticket>>

\* while (b->start < current) ends.
WaitForAdvance(t) ==
    /\ Goes(t, "waiting", "out") /\ start >= current[t]
    /\ Returns(t) /\ UNCHANGED <<start, count, seen, current, ticket>>

L2Step(t) ==
    \/ LoadStart(t) \/ L2_Barrier(t) \/ L2_BarrierWithTicket(t)
    \/ Compare(t) \/ WaitForAdvance(t)

L2Next == \E t \in Threads : L2Step(t)

L2Spec == L2Init /\ [][L2Next]_l2vars

\* The hardware threads keep running.
L2Fairness == WF_l2vars(L2Next)

-----------------------------------------------------------------------------

L2TypeOK ==
    /\ pc \in [Threads -> {"out", "loaded", "late", "arrived", "waiting"}]
    /\ entered \in [Threads -> 0 .. Rounds] /\ left \in [Threads -> 0 .. Rounds]
    /\ start \in Nat /\ count \in Nat
    /\ seen \in [Threads -> Nat] /\ current \in [Threads -> Nat]
    /\ ticket \in [Threads -> Nat \cup {None}]

\* The tickets of one round are different numbers below the number of threads: "a unique
\* (to this round) ticket", even while threads of that round still wait.
UniqueTickets ==
    \A t \in Threads : ticket[t] # None =>
        /\ ticket[t] \in 0 .. NumThreads - 1
        /\ \A u \in Threads \ {t} : entered[u] = entered[t] => ticket[u] # ticket[t]
\* A caller after r releases.  It has yet to enter the next round; or it has entered it
\* and holds a count above start; or it has not noticed the last release, holds a count
\* up to start, and will not release again.
L2Place(t, r) ==
    \/ /\ pc[t] \in {"out", "loaded"}
       /\ entered[t] = r /\ left[t] = r
       /\ pc[t] = "loaded" => Calls(t) /\ seen[t] = start
    \/ /\ pc[t] \in {"late", "arrived", "waiting"}
       /\ entered[t] = r + 1 /\ left[t] = r /\ current[t] \in start + 1 .. count
       /\ pc[t] = "arrived" => seen[t] = start
       /\ ticket[t] # None => ticket[t] = current[t] - 1 - start
    \/ /\ pc[t] \in {"late", "arrived", "waiting"}
       /\ entered[t] = r /\ left[t] + 1 = r /\ current[t] <= start
       /\ pc[t] = "arrived" => current[t] # seen[t] + NumThreads

\* After r releases count exceeds start by the callers of the next round, whose counts
\* differ.
L2InRound(r) ==
    /\ count = start + Cardinality(Entered(r + 1))
    /\ \A t \in Threads : L2Place(t, r)
    /\ \A t, u \in Entered(r + 1) : t # u => current[t] # current[u]

\* The state of the L2 barrier belongs to one round.
L2Inv == L2TypeOK /\ UniqueTickets /\ \E r \in 0 .. Rounds : L2InRound(r)
=============================================================================
