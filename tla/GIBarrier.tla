----------------------------- MODULE GIBarrier -----------------------------
(***************************************************************************)
(* The global interrupt barrier of spi/include/mu/GIBarrier.h on one class *)
(* route.  A node enters by storing the next of three patterns in its      *)
(* control register; the status register of a node shows the OR of the     *)
(* control registers of all nodes, each after a delay of its own.          *)
(***************************************************************************)
EXTENDS BarrierCallers, Sequences

\* The control register of each node and the state of its MUSPI_GIBarrier_t, and the
\* patterns of node u on their way to node n: the first one is the one n's status
\* register shows, the last one is in u's control register.
VARIABLES control, state, wire

givars == <<callers, control, state, wire>>

\* '100', '010' and '001'.
Patterns == {4, 2, 1}

MUSPI_GIBARRIER_INITIAL_STATE == 4

\* Earlier use of the class route left any pattern in the registers.
GIInit ==
    /\ CallersInit("sync1")
    /\ control \in [Threads -> Patterns]
    /\ state = [n \in Threads |-> 0]
    /\ wire = [n \in Threads |-> [u \in Threads |-> <<control[u]>>]]

-----------------------------------------------------------------------------
(* The hardware.                                                           *)

\* A store of pattern p in the control register of node n; only a change travels.
Store(n, p) ==
    /\ control' = [control EXCEPT ![n] = p]
    /\ wire' = [m \in Threads |-> [wire[m] EXCEPT ![n] = IF control[n] = p THEN @
                                                                          ELSE Append(@, p)]]

\* A change in the control register of u reaches the status register of n.
Propagate(n, u) ==
    /\ Len(wire[n][u]) > 1
    /\ wire' = [wire EXCEPT ![n][u] = Tail(@)]
    /\ UNCHANGED <<callers, control, state>>

\* The status register of node n has the bit of pattern p.
StatusBit(n, p) == \E u \in Threads : Head(wire[n][u]) = p

-----------------------------------------------------------------------------
(* Initialization.                                                         *)

\* The nodes that have not yet called the barrier function the k-th time.
Before == [sync1 |-> {}, sync2 |-> {"sync1", "mu1"},
           sync3 |-> {"sync1", "mu1", "sync2", "mu2", "failed"}]

After == [sync1 |-> "mu1", sync2 |-> "mu2", sync3 |-> "init"]

\* The caller's barrierFunction in MUSPI_GIBarrierInitMU, some other barrier.
BarrierFunction(n) ==
    \E s \in DOMAIN After :
        /\ Goes(n, s, After[s])
        /\ \A u \in Threads : pc[u] \notin Before[s]
        /\ Elsewhere /\ UNCHANGED <<control, state, wire>>

MUSPI_GIBarrierInitMU1(n) ==
    /\ Goes(n, "mu1", "sync2")
    /\ Store(n, MUSPI_GIBARRIER_INITIAL_STATE)
    /\ Elsewhere /\ UNCHANGED state

InitialStatus(n) == \A p \in Patterns : StatusBit(n, p) <=> p = MUSPI_GIBARRIER_INITIAL_STATE

\* Read the status register until it is in the initial state.
MUSPI_GIBarrierInitMU2(n) ==
    /\ Goes(n, "mu2", "sync3") /\ InitialStatus(n)
    /\ Elsewhere /\ UNCHANGED <<control, state, wire>>

\* MUSPI_GIBarrierInitMU2 times out and MUSPI_GIBarrierInitMU returns -1.
InitTimeout(n) ==
    /\ Goes(n, "mu2", "failed") /\ ~InitialStatus(n)
    /\ Elsewhere /\ UNCHANGED <<control, state, wire>>

MUSPI_GIBarrierInit(n) ==
    /\ Goes(n, "init", "ready")
    /\ state' = [state EXCEPT ![n] = control[n]]
    /\ Elsewhere /\ UNCHANGED <<control, wire>>
-----------------------------------------------------------------------------
(* The barrier.                                                            *)

\* Shift to the next pattern, or start back at the initial one.
NextPattern(p) == IF p \div 2 = 0 THEN MUSPI_GIBARRIER_INITIAL_STATE ELSE p \div 2

\* A caller whose poll timed out may enter again; it has entered already.
MUSPI_GIBarrierEnter(n) ==
    /\ \/ Goes(n, "ready", "polling") /\ Calls(n) /\ Announces(n)
       \/ Goes(n, "timedout", "polling") /\ Elsewhere
    /\ Store(n, NextPattern(state[n]))
    /\ UNCHANGED state

\* The barrier is complete: a poll, with or without a timeout, returns 0.
MUSPI_GIBarrierPoll(n) ==
    /\ Goes(n, "polling", "ready") \/ Goes(n, "timedout", "ready")
    /\ ~StatusBit(n, state[n])
    /\ state' = [state EXCEPT ![n] = NextPattern(@)]
    /\ Returns(n) /\ UNCHANGED <<control, wire>>

\* The last poll of MUSPI_GIBarrierPollWithTimeout finds the bit on: it returns -1.
PollTimeout(n) ==
    /\ Goes(n, "polling", "timedout")
    /\ StatusBit(n, state[n])
    /\ Elsewhere /\ UNCHANGED <<control, state, wire>>

GIStep(n) ==
    \/ BarrierFunction(n) \/ MUSPI_GIBarrierInitMU1(n) \/ MUSPI_GIBarrierInitMU2(n)
    \/ MUSPI_GIBarrierInit(n) \/ MUSPI_GIBarrierEnter(n) \/ MUSPI_GIBarrierPoll(n)
    \/ InitTimeout(n) \/ PollTimeout(n)

GINext == \E n \in Threads : GIStep(n) \/ \E u \in Threads : Propagate(n, u)

GISpec == GIInit /\ [][GINext]_givars

\* The nodes keep running, each keeps polling, and changes of registers arrive.
GIFairness ==
    /\ WF_givars(\E n \in Threads : BarrierFunction(n) \/ MUSPI_GIBarrierInitMU1(n)
                                     \/ MUSPI_GIBarrierInitMU2(n) \/ MUSPI_GIBarrierInit(n))
    /\ WF_givars(\E n, u \in Threads : Propagate(n, u))
    /\ \A n \in Threads : WF_givars(MUSPI_GIBarrierEnter(n)) /\ WF_givars(MUSPI_GIBarrierPoll(n))

-----------------------------------------------------------------------------

GITypeOK ==
    /\ pc \in [Threads -> {"sync1", "mu1", "sync2", "mu2", "sync3", "failed", "init",
                           "ready", "polling", "timedout"}]
    /\ entered \in [Threads -> 0 .. Rounds] /\ left \in [Threads -> 0 .. Rounds]
    /\ control \in [Threads -> Patterns]
    /\ state \in [Threads -> Patterns \cup {0}]
    /\ wire \in [Threads -> [Threads -> Seq(Patterns)]]
\* The pattern of round k.
Pattern(k) == IF k % 3 = 0 THEN 4 ELSE IF k % 3 = 1 THEN 2 ELSE 1

\* The round whose pattern node n sees node u in.
Shown(n, u) == entered[u] + 1 - Len(wire[n][u])

\* Node n sees the patterns of u in order, from a round n has not left.
Chain(n, u) ==
    /\ left[n] <= Shown(n, u) /\ Shown(n, u) <= entered[u]
    /\ \A i \in 1 .. Len(wire[n][u]) : wire[n][u][i] = Pattern(Shown(n, u) + i - 1)

Reset(n) == pc[n] \notin {"sync1", "mu1"}

Initialized(n) == pc[n] \in {"sync3", "init", "ready", "polling", "timedout"}

InUse(n) == pc[n] \in {"ready", "polling", "timedout"}

\* The registers of a node show its round.
GINode(n) ==
    /\ Reset(n) => control[n] = Pattern(entered[n])
    /\ InUse(n) => state[n] = Pattern(left[n])
    /\ ~InUse(n) => entered[n] = 0
    /\ entered[n] = IF pc[n] \in {"polling", "timedout"} THEN left[n] + 1 ELSE left[n]

\* Before node u resets its register node n sees what it holds; then n may still see the
\* earlier pattern, until it has seen the initial state everywhere.  No node leaves the
\* initialization before the others have come that far.
GIPair(n, u) ==
    /\ ~Reset(u) => wire[n][u] = <<control[u]>>
    /\ Reset(u) => \/ Chain(n, u)
                   \/ /\ ~Initialized(n) /\ entered[u] = 0
                      /\ Len(wire[n][u]) = 2 /\ wire[n][u][1] # 4 /\ wire[n][u][2] = 4
    /\ pc[n] \in {"mu2", "failed"} \/ Initialized(n) => Reset(u)
    /\ InUse(n) \/ pc[n] = "init" => Initialized(u)
    /\ left[n] <= entered[u]

\* What each node sees of the others belongs to the rounds they are in.
GIInv ==
    /\ GITypeOK
    /\ \A n \in Threads : GINode(n)
    /\ \A n, u \in Threads : GIPair(n, u)
=============================================================================
