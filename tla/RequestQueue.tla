---------------------------- MODULE RequestQueue ----------------------------
(***************************************************************************)
(* The request queue of the communication agent: any thread of a compute   *)
(* node allocates a slot, fills it and marks it ready; the agent processes *)
(* the slots in order (agents/include/comm/commagent_impl.h,               *)
(* rgetpacing_impl.h and checkForNewWork of agents/src/comm/commagent.c).  *)
(*                                                                         *)
(* Nobody holds a lock.  The producers share one counter, which the L2     *)
(* increments only below a bound; the agent raises the bound.  A slot is   *)
(* handed over by its type alone.                                          *)
(***************************************************************************)
EXTENDS Integers, Sequences, FiniteSets

CONSTANTS
    Producers,     \* threads that submit requests
    QueueSize,     \* COMM_AGENT_REQUEST_QUEUE_SIZE, the number of slots
    RequestQueueSize,   \* COMMAGENT_REQUESTQUEUESIZE, by default QueueSize
    MaxRequests    \* bound: requests of one behaviour

ASSUME QueueSizeAssumption == QueueSize \in Nat \ {0}
ASSUME RequestQueueSizeAssumption == RequestQueueSize \in Nat \ {0}
ASSUME MaxRequestsAssumption == MaxRequests \in Nat

VARIABLES
    producerL2counter,  \* slots ever allocated
    boundL2counter,     \* slots that may be allocated
    slot,               \* type (ready or NONE) and contents of each slot
    app,                \* what each producer is doing, and the index it has
    agent,              \* where the agent is, its head and the tail it fetched
    stores,             \* stores of the agent that are not visible yet
    primed,             \* the agent's L1 holds the line of producerL2counter
    event,              \* the wakeup unit has an event
    processed           \* contents of the requests processed, in order

qvars == <<producerL2counter, boundL2counter, slot, app, agent, stores, primed, event, processed>>
header == <<producerL2counter, boundL2counter>>

\* A request stands for its index; memory that was never written holds none.
Contents == Nat \cup {-1}

Slots == 0 .. QueueSize - 1

\* The bits of an index below the size of the queue.
Masked(index) == index % QueueSize

\* A store of another core to the line of the queue header invalidates it in the
\* agent's L1; that is what the wakeup unit sees.
Invalidate == event' = (event \/ primed) /\ primed' = FALSE

(***************************************************************************)
(* Producers                                                               *)
(***************************************************************************)

\* CommAgent_AllocateWorkRequest: a load-increment-bounded of the producer counter.
AllocateWorkRequest(p) ==
    /\ app[p].at = "idle" /\ producerL2counter < MaxRequests
    /\ producerL2counter < boundL2counter
    /\ producerL2counter' = producerL2counter + 1
    /\ app' = [app EXCEPT ![p] = [at |-> "allocated", index |-> producerL2counter]]
    /\ Invalidate
    /\ UNCHANGED <<boundL2counter, slot, agent, stores, processed>>

\* Fault: the producer takes the bound's word for it.
Unwaited(p) ==
    /\ app[p].at = "allocated"
    /\ app' = [app EXCEPT ![p].at = "fill"]
    /\ UNCHANGED <<header, slot, agent, stores, primed, event, processed>>

\* The wait for the agent to clear the type of the previous request in the slot.
SlotCleared(p) ==
    /\ app[p].at = "allocated"
    /\ ~slot[Masked(app[p].index)].ready
    /\ app' = [app EXCEPT ![p].at = "fill"]
    /\ UNCHANGED <<header, slot, agent, stores, primed, event, processed>>

\* The producer writes its request and its handle, and flushes them before it goes on.
\* The handle is stored over the byte of the type, which stays 0 as the handles are
\* below 2^24.
Fill(p) ==
    /\ app[p].at = "fill"
    /\ slot' = [slot EXCEPT ![Masked(app[p].index)].contents = app[p].index]
    /\ app' = [app EXCEPT ![p].at = "submit"]
    /\ UNCHANGED <<header, agent, stores, primed, event, processed>>

SubmitWorkRequest(p) ==
    /\ app[p].at = "submit"
    /\ slot' = [slot EXCEPT ![Masked(app[p].index)].ready = TRUE]
    /\ app' = [app EXCEPT ![p].at = "idle"]
    /\ UNCHANGED <<header, agent, stores, primed, event, processed>>

(***************************************************************************)
(* The agent                                                               *)
(***************************************************************************)

\* ppc_waitimpl returns, and the wakeup unit is armed again.
reArmWU ==
    /\ agent.at = "wait" /\ event
    /\ event' = FALSE
    /\ agent' = [agent EXCEPT !.at = "armed"]
    /\ UNCHANGED <<header, slot, app, stores, primed, processed>>

\* Fault: an L2 atomic load, which leaves the L1 alone.
AtomicFetch ==
    /\ agent.at = "armed"
    /\ agent' = [agent EXCEPT !.at = "check", !.tail = producerL2counter]
    /\ UNCHANGED <<header, slot, app, stores, primed, event, processed>>

\* "... just do a normal fetch so the L1 gets primed."
FetchTail ==
    /\ agent.at = "armed"
    /\ primed' = TRUE
    /\ agent' = [agent EXCEPT !.at = "check", !.tail = producerL2counter]
    /\ UNCHANGED <<header, slot, app, stores, event, processed>>

\* Fault: whoever holds a slot below the tail is taken to be done with it.
AnySlot(s) == stores = {}

\* The agent's wait for a slot, and the ppc_msync after it.
Ready(s) == slot[s].ready /\ stores = {}

\* The agent sees a ready slot, synchronizes with its earlier stores, and processes the
\* request.  Nothing orders the two stores that then give the slot back.
processWorkRequest ==
    LET s == Masked(agent.head)
    IN  /\ agent.at = "check" /\ agent.head < agent.tail
        /\ Ready(s)
        /\ processed' = Append(processed, slot[s].contents)
        /\ agent' = [agent EXCEPT !.head = @ + 1]
        /\ stores' = {"type", "bound"}
        /\ UNCHANGED <<header, slot, app, primed, event>>

\* The type of the slot that was processed last becomes NONE.
StoreType ==
    /\ "type" \in stores
    /\ slot' = [slot EXCEPT ![Masked(agent.head - 1)].ready = FALSE]
    /\ stores' = stores \ {"type"}
    /\ UNCHANGED <<header, app, agent, primed, event, processed>>

\* The bound permits another request.
StoreBound ==
    /\ "bound" \in stores
    /\ boundL2counter' = boundL2counter + 1
    /\ stores' = stores \ {"bound"}
    /\ Invalidate \/ UNCHANGED <<primed, event>>
    /\ UNCHANGED <<producerL2counter, slot, app, agent, processed>>

\* Nothing is left of what the fetched tail covers.
WaitForWork ==
    /\ agent.at = "check" /\ agent.head = agent.tail
    /\ agent' = [agent EXCEPT !.at = "wait"]
    /\ UNCHANGED <<header, slot, app, stores, primed, event, processed>>

(***************************************************************************)
(* Specification                                                           *)
(***************************************************************************)

\* setupAgentSharedMemory: the bound is the setting, while an index is masked by the
\* number of slots.
QInit ==
    /\ producerL2counter = 0 /\ boundL2counter = RequestQueueSize
    /\ slot = [s \in Slots |-> [ready |-> FALSE, contents |-> -1]]
    /\ app = [p \in Producers |-> [at |-> "idle", index |-> 0]]
    /\ agent = [at |-> "armed", head |-> 0, tail |-> 0]
    /\ stores = {} /\ primed = FALSE /\ event = FALSE
    /\ processed = <<>>

\* What a producer does with a slot it has.
UseSlot(p) == SlotCleared(p) \/ Fill(p) \/ SubmitWorkRequest(p)

Consume == reArmWU \/ FetchTail \/ processWorkRequest \/ WaitForWork

QNext ==
    \/ \E p \in Producers : AllocateWorkRequest(p) \/ UseSlot(p)
    \/ Consume
    \/ StoreType
    \/ StoreBound

\* A producer that has a slot fills it without waiting for anything but the agent, the
\* agent has a hardware thread of its own, and stores become visible.
QFairness ==
    /\ \A p \in Producers : WF_qvars(UseSlot(p))
    /\ WF_qvars(Consume) /\ WF_qvars(StoreType) /\ WF_qvars(StoreBound)

QSpec == QInit /\ [][QNext]_qvars /\ QFairness

(***************************************************************************)
(* Properties                                                              *)
(***************************************************************************)

QTypeOK ==
    /\ producerL2counter \in Nat /\ boundL2counter \in Nat
    /\ slot \in [Slots -> [ready : BOOLEAN, contents : Contents]]
    /\ app \in [Producers -> [at : {"idle", "allocated", "fill", "submit"}, index : Nat]]
    /\ agent \in [at : {"wait", "armed", "check"}, head : Nat, tail : Nat]
    /\ stores \subseteq {"type", "bound"}
    /\ primed \in BOOLEAN /\ event \in BOOLEAN
    /\ processed \in Seq(Contents)

\* A producer that writes into a slot is alone with it: no other producer writes into
\* it, and it holds no request that the agent has yet to process.  (This and the two
\* that follow need RequestQueueSize = QueueSize: with a larger setting the producers
\* of two indexes share a slot, with a smaller one the slots overlap the header.)
SlotOwned ==
    \A p \in Producers : app[p].at \in {"fill", "submit"} =>
        /\ ~slot[Masked(app[p].index)].ready
        /\ \A q \in Producers \ {p} :
            app[q].at \in {"fill", "submit"} => Masked(app[q].index) # Masked(app[p].index)

\* Every request is processed as its producer wrote it, once, and in the order of the
\* indexes, which are the unique IDs that tie requests together as peers.
InOrderOnce == \A n \in DOMAIN processed : processed[n] = n - 1

\* A request whose slot was allocated is processed, although the wakeup unit only
\* tells the agent about allocations and a request is ready some time after that.
EveryRequestProcessed == <>[](Len(processed) = producerL2counter)

Holds(p, index) == app[p].at # "idle" /\ app[p].index = index

\* Indexes that were allocated and not processed.
Window == agent.head .. producerL2counter - 1

\* The slot that the agent has yet to clear.
Clearing(s) == "type" \in stores /\ s = Masked(agent.head - 1)

\* The counters: between the head and the bound are as many indexes as slots, with
\* RequestQueueSize = QueueSize.
CountersInv ==
    /\ agent.head = Len(processed)
    /\ agent.head <= agent.tail /\ agent.tail <= producerL2counter
    /\ producerL2counter <= boundL2counter
    /\ boundL2counter = agent.head + QueueSize - (IF "bound" \in stores THEN 1 ELSE 0)

\* The producers: each has an index of its own, and the slot of a producer that writes
\* is not ready, also where the agent's last store is still on its way.
ProducersInv ==
    \A p \in Producers :
        /\ app[p].at # "idle" => app[p].index \in Window
        /\ \A q \in Producers \ {p} : app[p].at # "idle" => ~Holds(q, app[p].index)
        /\ app[p].at \in {"fill", "submit"} =>
            ~slot[Masked(app[p].index)].ready /\ ~Clearing(Masked(app[p].index))
        /\ app[p].at = "submit" => slot[Masked(app[p].index)].contents = app[p].index

\* The slots: the request of an index that no producer holds any more is ready, and a
\* slot is ready for no other reason, except that the agent has yet to clear it.
SlotsInv ==
    /\ \A i \in Window : (\A p \in Producers : ~Holds(p, i)) =>
        /\ slot[Masked(i)].ready /\ slot[Masked(i)].contents = i
        /\ ~Clearing(Masked(i))
    /\ \A s \in Slots : slot[s].ready =>
        \/ Clearing(s)
        \/ \E i \in Window : Masked(i) = s /\ \A p \in Producers : ~Holds(p, i)
    /\ "type" \in stores => agent.head > 0 /\ slot[Masked(agent.head - 1)].ready

\* The inductive invariant behind SlotOwned and InOrderOnce.
QueueInv == QTypeOK /\ CountersInv /\ ProducersInv /\ SlotsInv /\ InOrderOnce

=============================================================================
