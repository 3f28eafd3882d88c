----------------------------- MODULE RgetPacing -----------------------------
(***************************************************************************)
(* Remote get pacing in the communication agent of a compute node          *)
(* (agents/src/comm/rgetpacing.c and the main loop of commagent.c).        *)
(* Applications hand remote gets to the agent.  The agent cuts the direct  *)
(* puts into sub-messages, keeps only so many of them in the network, and  *)
(* processes requests that belong together one after the other.            *)
(*                                                                         *)
(* The agent is one thread.  Around it run the Message Unit, which drains  *)
(* the injection fifo and counts reception counters down to zero, and the  *)
(* applications, which add requests and send fence packets.                *)
(***************************************************************************)
EXTENDS Integers, Sequences, FiniteSets

CONSTANTS
    Counters,      \* _numCounters
    FifoSize,      \* descriptors that fit into the injection fifo
    Regions,       \* sub-regions of the block (_numSubRegions)
    Workloads,     \* sequences of remote gets that the applications submit
    Environments,  \* settings of the COMMAGENT_RGETPACING* variables
    MaxFences      \* bound: fence packets of one behaviour

ASSUME SizesAssumption == Counters \in Nat \ {0} /\ FifoSize \in Nat \ {0}
ASSUME RegionsAssumption == IsFiniteSet(Regions) /\ Regions # {}

\* A work request.  id stands for injection fifo, remote get fifo and destination;
\* peer 0 means that the request names no peer.
Request == [id : STRING, peer : Nat, dput : BOOLEAN, len : Nat, region : Regions]

\* One COMMAGENT_RGETPACINGSUBSIZE or COMMAGENT_RGETPACINGMAX setting: base,T1:T2,M1:M2.
Scale == [base : Nat \ {0}, t1 : 0 .. 101, t2 : 0 .. 101, m1 : Nat \ {0}, m2 : Nat \ {0}]

Environment == [pace : BOOLEAN, size : Scale, max : Scale]

ASSUME WorkloadsAssumption == Workloads \subseteq Seq(Request)
ASSUME EnvironmentsAssumption ==
    \A e \in Environments :
        /\ e \in Environment /\ e.max.base >= e.size.base
        /\ Counters >= (e.max.base * e.max.m2) \div e.size.base

VARIABLES
    env,          \* the environment variables the agent was started with
    queue,        \* requests in the request queue
    item,         \* work items in the order of their requests
    wheel,        \* the circular list of peer lists, from _nextWorkItemToProcess on;
                  \* <<>> is the dummy work item
    ensure,       \* _ensureWorkItemList
    counter,      \* reception counters with their work item and sub-message size
    fifo,         \* the injection fifo
    tally,        \* the totals the agent keeps
    region,       \* _subRegions
    param,        \* sub-message size, bytes and counters allowed at the moment
    pass,         \* where the agent is in its main loop
    woken,        \* the wakeup unit has an event for the agent
    fences,       \* fence packets in the reception fifo
    work,         \* requests the applications have yet to submit
    packets       \* fence packets sent so far

vars == <<env, queue, item, wheel, ensure, counter, fifo, tally, region, param, pass, woken,
          fences, work, packets>>
applications == <<work, packets>>
hardware == <<counter, fifo>>
lists == <<item, wheel, ensure, tally, region, param>>

(***************************************************************************)
(* Operators                                                               *)
(***************************************************************************)

\* The value of a setting when a percentage p of the sub-regions has messages.
Scaled(s, p) ==
    IF p >= s.t2 THEN s.base * s.m2
    ELSE IF p >= s.t1
         THEN s.base * (s.m1 + ((p - s.t1) * (s.m2 - s.m1 + 1)) \div (s.t2 - s.t1 + 1))
         ELSE s.base

calculateSubRegionParameters(numActive) ==
    LET p == (numActive * 100) \div Cardinality(Regions)
        size == Scaled(env.size, p)
        max == Scaled(env.max, p)
        bytes == IF max >= size THEN max ELSE size
    IN  [size |-> size, bytes |-> bytes, counters |-> bytes \div size]

doSubRegionCalculations == env.size.t1 <= 100 \/ env.max.t1 <= 100

Active(reg) == {g \in Regions : reg[g] > 0}

\* A message starts (by 1) or ends (by -1) in sub-region g.
setRandomZone(g, by) ==
    IF ~doSubRegionCalculations THEN UNCHANGED <<region, param>>
    ELSE LET new == [region EXCEPT ![g] = @ + by]
         IN  /\ region' = new
             /\ param' = IF Active(new) = Active(region) THEN param
                         ELSE calculateSubRegionParameters(Cardinality(Active(new)))

\* The work item on the main list in entry k of the wheel.
Main(k) == wheel[k][1]

IsMain(k) == wheel[k] # <<>>

\* Entries of the wheel in the order of a scan that starts behind the dummy.
FromDummy(k) == (k - (CHOOSE d \in DOMAIN wheel : wheel[d] = <<>>)) % Len(wheel)

Elements(s) == {s[x] : x \in DOMAIN s}

\* The wheel without entry k, whose list became empty.
Without(k) == SubSeq(wheel, 1, k - 1) \o SubSeq(wheel, k + 1, Len(wheel))

\* Fault: requests with the same peer are not kept together.
MatchIDOnly(r) ==
    LET same == {k \in DOMAIN wheel : \E i \in Elements(wheel[k]) : item[i].id = r.id}
    IN  IF same = {} THEN 0 ELSE CHOOSE k \in same : \A l \in same : FromDummy(k) <= FromDummy(l)

\* The entry whose peer list a new request joins, or 0: the first with the same peer
\* ID, else the first with the same ID.
Match(r) ==
    LET peers == {k \in DOMAIN wheel : \E i \in Elements(wheel[k]) : r.peer # 0 /\ item[i].peer = r.peer}
        same == {k \in DOMAIN wheel : \E i \in Elements(wheel[k]) : item[i].id = r.id}
        found == IF peers # {} THEN peers ELSE same
    IN  IF found = {} THEN 0
        ELSE CHOOSE k \in found : \A l \in found : FromDummy(k) <= FromDummy(l)

\* Fault: the peer that becomes active is not counted.
removeUncounted(k, t) ==
    LET peers == Tail(wheel[k])
    IN  /\ wheel' = IF peers = <<>> THEN Without(k) ELSE [wheel EXCEPT ![k] = peers]
        /\ tally' = t

\* removeWorkItem: the first peer takes the place of the finished main item of entry
\* k, and is counted as waiting.  The totals without the finished item are t.
removeWorkItem(k, t) ==
    LET peers == Tail(wheel[k])
    IN  IF peers = <<>>
        THEN wheel' = Without(k) /\ tally' = t
        ELSE /\ wheel' = [wheel EXCEPT ![k] = peers]
             /\ tally' = LET p == item[peers[1]]
                         IN  IF p.dput THEN [t EXCEPT !.bytes = @ + p.inject]
                             ELSE [t EXCEPT !.nonDPut = @ + 1]

\* Fault: the number of active counters is not compared with the limit.
EligibleUnpaced == {k \in DOMAIN wheel : IsMain(k) /\ item[Main(k)].dput /\ item[Main(k)].inject # 0}

\* The entries that may inject a sub-message now.
Eligible ==
    {k \in DOMAIN wheel :
        /\ IsMain(k) /\ item[Main(k)].dput /\ item[Main(k)].inject # 0
        /\ ~(env.pace /\ tally.paced = param.counters)}

Full == Len(fifo) >= FifoSize

\* Fault: the threshold interrupt is not turned on.
NeverAbove(f) == FALSE

\* setupInjFifos: the fifo interrupts when its head or its tail changes and its free
\* space is above 95% of its size, where nobody set the node's threshold before.
AboveThreshold(f) == FifoSize - Len(f) > (FifoSize * 95) \div 100

\* A descriptor is added, at the tail of the fifo.
Inject(d) ==
    /\ fifo' = Append(fifo, d)
    /\ woken' = (woken \/ AboveThreshold(Append(fifo, d)))

\* The wheel with the entry behind k as the next one to process.
RotatedPast(k) == SubSeq(wheel, k + 1, Len(wheel)) \o SubSeq(wheel, 1, k)

(***************************************************************************)
(* Applications                                                            *)
(***************************************************************************)

\* A request enters the queue: its producer counter is in the range the agent's
\* wakeup unit watches.
Submit ==
    /\ work # <<>>
    /\ work' = Tail(work)
    /\ queue' = Append(queue, Head(work))
    /\ woken' = TRUE
    /\ UNCHANGED <<env, lists, hardware, pass, fences, packets>>

\* A fence packet arrives and raises the packet arrival interrupt.
FencePacket ==
    /\ packets < MaxFences
    /\ packets' = packets + 1
    /\ fences' = fences + 1
    /\ woken' = TRUE
    /\ UNCHANGED <<env, queue, lists, hardware, pass, work>>

(***************************************************************************)
(* Message Unit                                                            *)
(***************************************************************************)

\* The descriptor at the head of the fifo is processed: its remote get is sent.
Drain ==
    /\ fifo # <<>>
    /\ fifo' = Tail(fifo)
    /\ woken' = (woken \/ AboveThreshold(Tail(fifo)))
    /\ UNCHANGED <<env, queue, lists, counter, pass, fences, applications>>

InFifo(c) == \E d \in Elements(fifo) : d.counter = c

\* All bytes of a sub-message arrived: its counter hits zero and wakes the agent.
HitZero(c) ==
    /\ counter[c].busy /\ ~InFifo(c)
    /\ counter' = [counter EXCEPT ![c].busy = FALSE]
    /\ woken' = TRUE
    /\ UNCHANGED <<env, queue, lists, fifo, pass, fences, applications>>

(***************************************************************************)
(* The agent's main loop                                                   *)
(***************************************************************************)

\* The variables of the main loop where none of them is in use.
Rest == [at |-> "wait", todo |-> 0, counter |-> 1, active |-> 0, try |-> TRUE, again |-> FALSE,
         cursor |-> 1]

\* WUwait returns; interrupts are cleared, the wakeup unit is armed again, and the
\* tail of the request queue is fetched.
Wake ==
    /\ pass.at = "wait" /\ woken
    /\ woken' = FALSE
    /\ pass' = [Rest EXCEPT !.at = "check", !.todo = Len(queue)]
    /\ UNCHANGED <<env, queue, lists, hardware, fences, applications>>

\* One round of checkForNewWork: a request becomes a work item.  It joins the peer
\* list of a matching item, or the main list before the next item to process.
setupWorkItem ==
    LET r == Head(queue)
        n == Len(item) + 1
        k == Match(r)
    IN  /\ pass.at = "check" /\ pass.todo > 0
        /\ item' = Append(item, [id |-> r.id, peer |-> r.peer, dput |-> r.dput, len |-> r.len,
                                 region |-> r.region, inject |-> r.len, complete |-> r.len,
                                 offset |-> 0])
        /\ wheel' = IF k = 0 THEN Append(wheel, <<n>>) ELSE [wheel EXCEPT ![k] = Append(@, n)]
        /\ tally' = CASE k # 0 -> tally
                      [] k = 0 /\ r.dput -> [tally EXCEPT !.bytes = @ + r.len]
                      [] k = 0 /\ ~r.dput -> [tally EXCEPT !.nonDPut = @ + 1]
        /\ IF r.dput THEN setRandomZone(r.region, 1) ELSE UNCHANGED <<region, param>>
        /\ queue' = Tail(queue)
        /\ pass' = [pass EXCEPT !.todo = @ - 1]
        /\ UNCHANGED <<env, ensure, hardware, woken, fences, applications>>

\* The start of one round of doRemoteGetPacingWork.
Scan == [Rest EXCEPT !.at = "scan", !.active = tally.active]

doRemoteGetPacingWork ==
    /\ pass.at = "check" /\ pass.todo = 0
    /\ pass' = Scan
    /\ UNCHANGED <<env, queue, lists, hardware, woken, fences, applications>>

\* The condition of the loop over the counters.
Scanning ==
    pass.at = "scan" /\ pass.counter <= Counters /\ (pass.active # 0 \/ tally.bytes # 0)

NextCounter(p) == [p EXCEPT !.at = "scan", !.counter = @ + 1]

SkipCounter ==
    /\ Scanning /\ counter[pass.counter].busy
    /\ pass' = NextCounter(pass)
    /\ UNCHANGED <<env, queue, lists, hardware, woken, fences, applications>>

\* The agent has a counter without a work item, and may inject.
HasCounter ==
    \/ pass.at = "inject"
    \/ Scanning /\ ~counter[pass.counter].busy /\ counter[pass.counter].item = 0

\* A counter without work item.  The size it had is not looked at again.
Unused == [item |-> 0, size |-> 0, busy |-> FALSE]

\* A work item completed: another one may be eligible now.
Completed(p) == [p EXCEPT !.at = "inject", !.active = @ - 1, !.try = TRUE]

\* The counter of a sub-message hit zero.  The last sub-message of a work item
\* completes the item.
completeWorkItem ==
    LET c == counter[pass.counter]
        w == item[c.item]
        k == CHOOSE l \in DOMAIN wheel : IsMain(l) /\ Main(l) = c.item
        t == [tally EXCEPT !.active = @ - 1, !.paced = IF env.pace THEN @ - 1 ELSE @]
    IN  /\ Scanning /\ ~c.busy /\ c.item # 0
        /\ IF ~env.pace \/ w.complete <= c.size
           THEN removeWorkItem(k, t) /\ setRandomZone(w.region, -1) /\ UNCHANGED item
           ELSE /\ item' = [item EXCEPT ![c.item].complete = @ - c.size]
                /\ tally' = t
                /\ UNCHANGED <<wheel, region, param>>
        /\ counter' = [counter EXCEPT ![pass.counter] = Unused]
        /\ pass' = Completed(pass)
        /\ UNCHANGED <<env, queue, ensure, fifo, woken, fences, applications>>

\* Nothing is injected: no bytes wait, an earlier call found no eligible item, or the
\* fifo is full, and then the agent asks again with the next counter.
injectNothing ==
    /\ HasCounter
    /\ ~pass.try \/ tally.bytes = 0 \/ Full
    /\ pass' = NextCounter(pass)
    /\ UNCHANGED <<env, queue, lists, hardware, woken, fences, applications>>

\* injectNextDPutSubMessage finds no eligible work item.
injectNoneEligible ==
    /\ HasCounter /\ pass.try /\ tally.bytes # 0 /\ ~Full
    /\ Eligible = {}
    /\ pass' = NextCounter([pass EXCEPT !.try = FALSE])
    /\ UNCHANGED <<env, queue, lists, hardware, woken, fences, applications>>

\* Fault: the size in force is remembered for a sub-message that is shorter.
CurrentSize(length) == param.size

\* What _subMessageSizes remembers of a sub-message.
subMessageSizes(length) == length

\* Where the payload of the next sub-message begins.
NextOffset(o) == o + param.size

\* The first eligible item injects one sub-message, and the item behind it is next.
injectNextDPutSubMessage ==
    /\ HasCounter /\ pass.try /\ tally.bytes # 0 /\ ~Full
    /\ Eligible # {}
    /\ LET k == CHOOSE e \in Eligible : \A l \in Eligible : e <= l
           i == Main(k)
           length == IF env.pace /\ param.size < item[i].inject THEN param.size
                     ELSE item[i].inject
       IN  /\ item' = [item EXCEPT ![i].inject = @ - length, ![i].offset = NextOffset(@)]
           /\ wheel' = RotatedPast(k)
           /\ tally' = [tally EXCEPT !.bytes = @ - length, !.active = @ + 1,
                                     !.paced = IF env.pace THEN @ + 1 ELSE @]
           /\ counter' = [counter EXCEPT ![pass.counter] =
                            [item |-> i, size |-> subMessageSizes(length), busy |-> TRUE]]
           /\ Inject([item |-> i, counter |-> pass.counter])
    /\ pass' = NextCounter(pass)
    /\ UNCHANGED <<env, queue, ensure, region, param, fences, applications>>

\* The loop over the counters ends, and messages that are not direct puts follow.
EndScan ==
    /\ pass.at = "scan" /\ ~Scanning
    /\ pass' = [Rest EXCEPT !.at = "nondput", !.again = tally.nonDPut > 0]
    /\ UNCHANGED <<env, queue, lists, hardware, woken, fences, applications>>

\* Fault: the work item is free at once.
FreeAtOnce(i) == ensure

\* removeWorkItem puts the item on the ensure list.
ensureComplete(i) == ensure \cup {i}

\* One round of injectNonDPutMessages: the next such item at or behind the cursor is
\* injected and removed.  Its payload is in the work item, so the item waits on the
\* ensure list for its descriptor to leave the fifo.
injectNonDPutMessage ==
    LET ahead(k) == (k - pass.cursor) % Len(wheel)
        found == {k \in DOMAIN wheel : IsMain(k) /\ ~item[Main(k)].dput}
        k == CHOOSE l \in found : \A m \in found : ahead(l) <= ahead(m)
    IN  /\ pass.at = "nondput" /\ tally.nonDPut > 0 /\ ~Full
        /\ removeWorkItem(k, [tally EXCEPT !.nonDPut = @ - 1])
        /\ ensure' = ensureComplete(Main(k))
        /\ Inject([item |-> Main(k), counter |-> 0])
        /\ pass' = [pass EXCEPT !.cursor = IF Len(wheel[k]) > 1 THEN k + 1 ELSE k]
        /\ UNCHANGED <<env, queue, item, counter, region, param, fences, applications>>

\* Fault: items that became active are left for the next event.
WhileEnsuring(left) == left # {}

\* Another round: items may have become active, or wait for their descriptor.
doWorkAgain(left) == pass.again \/ left # {}

\* injectNonDPutMessages ends, the ensure list is checked, and the agent goes round
\* again if there may be more to do.
checkWorkItemsWaitingForCompletion ==
    LET left == {i \in ensure : \E d \in Elements(fifo) : d.item = i}
    IN  /\ pass.at = "nondput" /\ (tally.nonDPut = 0 \/ Full)
        /\ ensure' = left
        /\ pass' = IF doWorkAgain(left) THEN Scan ELSE [Rest EXCEPT !.at = "poll"]
        /\ UNCHANGED <<env, queue, item, wheel, hardware, tally, region, param, woken, fences,
                       applications>>

\* pollRecFifo: fenceDispatchFn injects the descriptor of a fence packet as soon as
\* the fifo has room.
fenceDispatchFn ==
    /\ pass.at = "poll" /\ fences > 0 /\ ~Full
    /\ fences' = fences - 1
    /\ Inject([item |-> 0, counter |-> 0])
    /\ UNCHANGED <<env, queue, lists, counter, pass, applications>>

WUwait ==
    /\ pass.at = "poll" /\ fences = 0
    /\ pass' = [pass EXCEPT !.at = "wait"]
    /\ UNCHANGED <<env, queue, lists, hardware, woken, fences, applications>>

(***************************************************************************)
(* Specification                                                           *)
(***************************************************************************)

Agent ==
    \/ Wake \/ setupWorkItem \/ doRemoteGetPacingWork
    \/ SkipCounter \/ completeWorkItem
    \/ injectNothing \/ injectNoneEligible \/ injectNextDPutSubMessage
    \/ EndScan \/ injectNonDPutMessage \/ checkWorkItemsWaitingForCompletion
    \/ fenceDispatchFn \/ WUwait

Init ==
    /\ env \in Environments
    /\ queue = <<>> /\ item = <<>> /\ wheel = << <<>> >> /\ ensure = {}
    /\ counter = [c \in 1 .. Counters |-> Unused]
    /\ fifo = <<>>
    /\ tally = [bytes |-> 0, nonDPut |-> 0, active |-> 0, paced |-> 0]
    /\ region = [g \in Regions |-> 0]
    /\ param = [size |-> env.size.base, bytes |-> env.max.base,
                counters |-> env.max.base \div env.size.base]
    /\ pass = [Rest EXCEPT !.at = "check"]
    /\ woken = TRUE
    /\ fences = 0
    /\ work \in Workloads
    /\ packets = 0

Next ==
    \/ Submit
    \/ FencePacket
    \/ Drain
    \/ \E c \in 1 .. Counters : HitZero(c)
    \/ Agent

\* The agent has a hardware thread of its own, and the Message Unit processes what it
\* is given.
Fairness ==
    /\ WF_vars(Agent) /\ WF_vars(Drain)
    /\ \A c \in 1 .. Counters : WF_vars(HitZero(c))

Spec == Init /\ [][Next]_vars /\ Fairness

(***************************************************************************)
(* Properties                                                              *)
(***************************************************************************)

WorkItem == [id : STRING, peer : Nat, dput : BOOLEAN, len : Nat, region : Regions,
             inject : Nat, complete : Nat, offset : Nat]

TypeOK ==
    /\ env \in Environments
    /\ queue \in Seq(Request) /\ work \in Seq(Request)
    /\ item \in Seq(WorkItem)
    /\ wheel \in Seq(Seq(DOMAIN item)) /\ ensure \subseteq DOMAIN item
    /\ counter \in [1 .. Counters -> [item : 0 .. Len(item), size : Nat, busy : BOOLEAN]]
    /\ fifo \in Seq([item : 0 .. Len(item), counter : 0 .. Counters])
    /\ tally \in [bytes : Nat, nonDPut : Nat, active : Nat, paced : Nat]
    /\ region \in [Regions -> Nat]
    /\ param \in [size : Nat \ {0}, bytes : Nat \ {0}, counters : Nat \ {0}]
    /\ pass.at \in {"wait", "check", "scan", "inject", "nondput", "poll"}
    /\ woken \in BOOLEAN /\ fences \in Nat /\ packets \in Nat

\* Work items on the circular lists, and among them those on the main list.
Listed == UNION {Elements(wheel[k]) : k \in DOMAIN wheel}
OnMain == {wheel[k][1] : k \in {l \in DOMAIN wheel : wheel[l] # <<>>}}

\* f[1] + ... + f[n].
Total(f, n) ==
    LET sum[k \in 0 .. n] == IF k = 0 THEN 0 ELSE sum[k - 1] + f[k]
    IN  sum[n]

\* What each work item adds to the bytes that wait, and what each counter waits for: for
\* item i, and for the network.
ToInject == [i \in DOMAIN item |-> IF i \in OnMain /\ item[i].dput THEN item[i].inject ELSE 0]
WaitedFor(i) == [c \in DOMAIN counter |-> IF counter[c].item = i THEN counter[c].size ELSE 0]
InNetwork == [c \in DOMAIN counter |-> IF counter[c].busy THEN counter[c].size ELSE 0]

\* The totals that steer the agent agree with the lists they summarise: the loops of
\* injectNonDPutMessages and doRemoteGetPacingWork run on the totals alone, and a
\* total that is too high makes them run forever, one that is too low leaves work.
TotalsAgree ==
    /\ TypeOK
    /\ tally.bytes = Total(ToInject, Len(item))
    /\ tally.nonDPut = Cardinality({i \in OnMain : ~item[i].dput})
    /\ tally.active = Cardinality({c \in DOMAIN counter : counter[c].item # 0})
    /\ tally.paced = IF env.pace THEN tally.active ELSE 0
    /\ doSubRegionCalculations =>
        \A g \in Regions : region[g] = Cardinality({i \in Listed : item[i].dput /\ item[i].region = g})

\* completeWorkItem takes the last sub-message to arrive for the last one of its work
\* item, in whatever order they arrive and however their size changed in between: what
\* is missing of an item is what it has not injected and what its counters wait for.
NothingForgotten ==
    env.pace => \A i \in Listed : item[i].dput =>
        item[i].complete = item[i].inject + Total(WaitedFor(i), Counters)

\* Sub-messages follow each other without gap or overlap, also when the sub-message
\* size changes between two of them.
FragmentsTile ==
    \A i \in DOMAIN item : item[i].dput /\ item[i].inject # 0 => item[i].offset = item[i].len - item[i].inject

\* The bytes of a work item are accounted for: each is still to be injected, is waited
\* for once, or has arrived, and the sub-messages cover the item without gap or overlap.
BytesAccounted == NothingForgotten /\ FragmentsTile

\* No storage is used again too early.  A finished work item has no counter and, when
\* its payload was in it, no descriptor in the fifo; a counter that is given a new
\* sub-message has none in the fifo or in the network.
NoEarlyReuse ==
    /\ \A c \in DOMAIN counter : counter[c].item # 0 => counter[c].item \in OnMain
    /\ \A d \in Elements(fifo) :
        /\ d.counter # 0 => counter[d.counter].busy /\ counter[d.counter].item = d.item
        /\ d.counter = 0 /\ d.item # 0 => d.item \in ensure
    /\ \A k, l \in DOMAIN fifo : k # l /\ fifo[k].counter # 0 => fifo[k].counter # fifo[l].counter

Started(i) == IF item[i].dput THEN item[i].inject < item[i].len ELSE i \notin Listed

\* Requests with the same peer ID are processed one after the other in their order:
\* the completion message of a transfer is not sent before the data has arrived.
PeersInOrder ==
    \A i, j \in DOMAIN item :
        i < j /\ item[i].peer # 0 /\ item[i].peer = item[j].peer /\ Started(j) => i \notin Listed

\* The same for requests with the same injection fifo, remote get fifo and
\* destination, as long as requests that name the same peer also agree in these.
SameIDInOrder ==
    (\A i, j \in DOMAIN item : item[i].peer # 0 /\ item[i].peer = item[j].peer
                                   => item[i].id = item[j].id)
    => \A i, j \in DOMAIN item :
        i < j /\ item[i].id = item[j].id /\ Started(j) => i \notin Listed

\* Requests that belong together are processed one after the other in their order.
RelatedInOrder == PeersInOrder /\ SameIDInOrder

\* With sizes that do not depend on the sub-regions, paced remote gets never have more
\* bytes in the network than COMMAGENT_RGETPACINGMAX allows.
PacedWithinMax ==
    env.pace /\ ~doSubRegionCalculations => Total(InNetwork, Counters) <= env.max.base

\* While the agent sleeps without an event, no counter at zero waits for it, no
\* request, no fence packet, no message that needs no counter, and no item on the
\* ensure list; and while bytes wait to be injected, a counter or the fifo has yet to
\* wake the agent (rgetpacing.c:990 expects to "be awakened when there is enough space").
SleepsOnlyWhenDone ==
    pass.at = "wait" /\ ~woken =>
        /\ queue = <<>> /\ tally.nonDPut = 0 /\ ensure = {} /\ fences = 0
        /\ \A c \in DOMAIN counter : counter[c].item # 0 => counter[c].busy
        /\ tally.bytes # 0 => fifo # <<>> \/ tally.active > 0

\* A direct put without bytes is never injected, and what is behind it on its peer
\* list waits forever.
BehindEmpty(n) ==
    \E k \in DOMAIN wheel : /\ n \in Elements(wheel[k])
                            /\ item[wheel[k][1]].dput /\ item[wheel[k][1]].len = 0

\* Every request is processed to its end, unless an empty direct put is in its way.
AllProcessed ==
    []<>(queue = <<>> /\ \A n \in Listed : BehindEmpty(n))

=============================================================================
