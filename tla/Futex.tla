------------------------------- MODULE Futex -------------------------------
(***************************************************************************)
(* The futexes of the compute node kernel (cnk/src/futex.c): the private   *)
(* futexes of one process, whose threads have a hardware thread each.  A   *)
(* wake takes threads out of their queue under the futex lock and unblocks *)
(* them after it has released the lock, by interrupts that arrive later    *)
(* still.  Timers and signals of a waiting thread run on its own hardware  *)
(* thread.                                                                 *)
(***************************************************************************)
EXTENDS Integers, Sequences, FiniteSets

CONSTANTS
    KThreads, Addresses, Values,
    NULL,        \* no thread, and the address in a free table entry
    NumFutex,    \* NUM_FUTEX
    FutexCalls,  \* the system calls that each thread makes
    Stores,      \* the values that each thread stores, and the wake that follows
    MaxCalls, MaxSignals    \* bounds of one behaviour

\* NUM_FUTEX is NUM_KTHREADS.
ASSUME NumFutexAssumption ==
    IsFiniteSet(KThreads) /\ NumFutex \in Nat /\ NumFutex >= Cardinality(KThreads)

ASSUME NullAssumption == NULL \notin KThreads \cup Addresses /\ Values # {}

\* A system call with its arguments.  Waiters are not requeued to the futex they are in.
IsCall(c) ==
    /\ c.op \in {"WAIT", "WAKE", "WAKE_OP", "REQUEUE", "CMP_REQUEUE"}
    /\ c.f \in Addresses
    /\ c.op = "WAIT" => c.val \in Values /\ c.timed \in BOOLEAN
    /\ c.op # "WAIT" => c.n \in Nat
    /\ c.op = "WAKE_OP" => c.g \in Addresses /\ c.m \in Nat /\ c.new \in [Values -> Values]
    /\ c.op \in {"REQUEUE", "CMP_REQUEUE"} => c.g \in Addresses \ {c.f}

ASSUME CallsAssumption ==
    \A t \in KThreads :
        /\ \A c \in FutexCalls[t] : IsCall(c)
        /\ \A s \in Stores[t] :
            s.f \in Addresses /\ s.val \in Values /\ IsCall(s.call) /\ s.call.op = "WAKE"

VARIABLES
    memory,      \* the futex words
    table,       \* Futex_Table_Private
    kthr,        \* the futex fields of each KThread_t, its State and its result; expected:
                 \* the value that its caller compares, or that it found when requeued
    hwt,         \* what each hardware thread does in the kernel
    lock,        \* FutexLockPrivate and FutexOrderLockPrivate
    ipi,         \* interrupts on their way, from one hardware thread to another
    used         \* system calls made and signals sent; late: some thread began a wait while an
                 \* interrupt that unblocks it, for an earlier sleep, was still to come

fvars == <<memory, table, kthr, hwt, lock, ipi, used>>

Out == [at |-> "out", call |-> NULL, turn |-> 0, list |-> <<>>]

Awake == [next |-> NULL, vaddr |-> NULL, expected |-> NULL, timed |-> FALSE,
          blocked |-> FALSE, result |-> "0"]

FInit ==
    /\ memory = [a \in Addresses |-> CHOOSE v \in Values : TRUE]
    /\ table = [i \in 1 .. NumFutex |-> [vaddr |-> NULL, head |-> NULL]]
    /\ kthr = [t \in KThreads |-> Awake]
    /\ hwt = [t \in KThreads |-> Out]
    /\ lock = [next |-> 0, serving |-> 0]
    /\ ipi = {} /\ used = [calls |-> 0, signals |-> 0, late |-> FALSE]

-----------------------------------------------------------------------------
(* The table and its queues.  k is a state of table and kthr, and the list *)
(* of threads to unblock.                                                  *)

Kernel(t) == [table |-> table, kthr |-> kthr, list |-> hwt[t].list]

\* No thread is twice in s.
Once(s) == \A i, j \in 1 .. Len(s) : s[i] = s[j] => i = j

ThreadSeqs == {s \in UNION {[1 .. n -> KThreads] : n \in 0 .. Cardinality(KThreads)} : Once(s)}

ThreadsOf(s) == {s[i] : i \in DOMAIN s}

Last(s) == s[Len(s)]

\* Thread or NULL: what a link to position i of s holds.
At(s, i) == IF i <= Len(s) THEN s[i] ELSE NULL

\* The threads of s are linked through FutexQueueNext.
Linked(k, head, s) ==
    /\ head = At(s, 1)
    /\ \A i \in 1 .. Len(s) : k.kthr[s[i]].next = At(s, i + 1)

\* The threads of the list that starts with head.
Waiters(k, head) ==
    IF head = NULL THEN <<>> ELSE CHOOSE s \in ThreadSeqs : Linked(k, head, s)

WaitersOf(k, i) == Waiters(k, k.table[i].head)

\* The first entry with the address; 0 for none.
Futex_findTableEntry(k, a) ==
    LET found == {i \in 1 .. NumFutex : k.table[i].vaddr = a}
    IN IF found = {} THEN 0 ELSE CHOOSE i \in found : \A j \in found : i <= j

\* With allocateIfNecessary.
Allocated(k, a) ==
    LET free == Futex_findTableEntry(k, NULL)
    IN IF Futex_findTableEntry(k, a) # 0 \/ free = 0 THEN k
       ELSE [k EXCEPT !.table[free] = [vaddr |-> a, head |-> NULL]]

FreeIfEmpty(k, i) ==
    IF i = 0 \/ k.table[i].head # NULL THEN k ELSE [k EXCEPT !.table[i].vaddr = NULL]

\* Fault: the new waiters take the place of the old ones.
PasteOver(k, i, first) == [k EXCEPT !.table[i].head = first]

\* Fault: the new waiters come first.
PasteFirst(k, i, first) ==
    [k EXCEPT !.kthr[Last(Waiters(k, first))].next = k.table[i].head, !.table[i].head = first]

\* The list that starts with first is pasted onto the end of the queue.
Paste(k, i, first) ==
    LET w == WaitersOf(k, i)
    IN IF w = <<>> THEN [k EXCEPT !.table[i].head = first]
       ELSE [k EXCEPT !.kthr[Last(w)].next = first]

\* The sleeps of the threads T are over, with a result of their system calls.
Ended(k, T, r) ==
    [k EXCEPT !.kthr = [t \in KThreads |->
        IF t \in T THEN [Awake EXCEPT !.blocked = k.kthr[t].blocked, !.result = r]
        ELSE k.kthr[t]]]

\* Futex_Timeout and Futex_Interrupt take t out of its queue.
Removed(k, t) ==
    LET i == Futex_findTableEntry(k, k.kthr[t].vaddr)
        next == k.kthr[t].next
        before == IF i = 0 THEN {} ELSE {u \in ThreadsOf(WaitersOf(k, i)) : k.kthr[u].next = t}
    IN CASE i # 0 /\ k.table[i].head = t -> FreeIfEmpty([k EXCEPT !.table[i].head = next], i)
         [] i # 0 /\ k.table[i].head # t /\ before # {} ->
                [k EXCEPT !.kthr[CHOOSE u \in before : TRUE].next = next]
         [] OTHER -> k

\* The threads x, the first in the queue of entry i, are woken; head is the new head.
WokenFirst(k, i, x, head) ==
    [Ended(k, ThreadsOf(x), "0") EXCEPT !.list = @ \o x, !.table[i].head = head]

\* The threads y wait on word a.
Redirected(k, y, a) ==
    [k EXCEPT !.kthr = [t \in KThreads |->
        IF t \in ThreadsOf(y) THEN [@[t] EXCEPT !.vaddr = a, !.expected = memory[a]]
        ELSE @[t]]]

\* Of the waiters of entry i, max are woken and the others stay, or move to entry j.
Futex_WakeQueue(k, i, max, j) ==
    LET w == WaitersOf(k, i)
        n == IF max < Len(w) THEN max ELSE Len(w)
        rest == SubSeq(w, n + 1, Len(w))
        first == At(rest, 1)
        left == WokenFirst(k, i, SubSeq(w, 1, n), IF j = 0 THEN first ELSE NULL)
        updated == Redirected(left, rest, k.table[j].vaddr)
    IN IF i = 0 THEN k
       ELSE FreeIfEmpty(FreeIfEmpty(
                IF j = 0 \/ rest = <<>> THEN left ELSE Paste(updated, j, first), i), j)

-----------------------------------------------------------------------------
(* The lock, and the interrupts that unblock.                              *)

\* fetch_and_add64(alock, 1).
Lock_AtomicAcquire(t, c) ==
    /\ hwt' = [hwt EXCEPT ![t] =
        [at |-> "spin", call |-> c, turn |-> lock.next, list |-> <<>>]]
    /\ lock' = [lock EXCEPT !.next = @ + 1]

Turn(t) ==
    /\ hwt[t].at = "spin" /\ lock.serving = hwt[t].turn
    /\ hwt' = [hwt EXCEPT ![t].at = "critical"]
    /\ UNCHANGED <<memory, table, kthr, lock, ipi, used>>

Critical(t, op) == hwt[t].at = "critical" /\ hwt[t].call.op = op

Lock_AtomicRelease(t) == lock' = [lock EXCEPT !.serving = hwt[t].turn + 1]

\* The hardware thread leaves the kernel; an exit also ends its thread.
Leaves(h) == IF "exit" \in DOMAIN h.call THEN [Out EXCEPT !.at = "exited"] ELSE Out

\* A system call fails and has changed nothing.
Fails(t) ==
    /\ Lock_AtomicRelease(t) /\ hwt' = [hwt EXCEPT ![t] = Leaves(@)]
    /\ UNCHANGED <<memory, table, ipi, used>>

\* The state of table and kthr becomes k, and t unblocks the threads of k's list.
Becomes(t, k) ==
    /\ table' = k.table /\ kthr' = k.kthr
    /\ hwt' = [hwt EXCEPT ![t] = IF k.list = <<>> THEN Leaves(@)
                                 ELSE [@ EXCEPT !.at = "unblocking", !.list = k.list]]
    /\ Lock_AtomicRelease(t) /\ UNCHANGED <<ipi, used>>

\* Sched_Unblock of a thread of another hardware thread: the slot of the last interrupt
\* to it must be free.
IPI_DeliverInterrupt(t) ==
    /\ hwt[t].at = "unblocking" /\ <<t, hwt[t].list[1]>> \notin ipi
    /\ ipi' = ipi \cup {<<t, hwt[t].list[1]>>}
    /\ hwt' = [hwt EXCEPT ![t] = IF Len(@.list) = 1 THEN Leaves(@)
                                 ELSE [@ EXCEPT !.list = Tail(hwt[t].list)]]
    /\ UNCHANGED <<memory, table, kthr, lock, used>>

\* The interrupt is taken outside of the kernel.
IPI_handler_run_scheduler(t) ==
    /\ hwt[t].at \in {"out", "stored", "exited"}
    /\ \E u \in KThreads : <<u, t>> \in ipi /\ ipi' = ipi \ {<<u, t>>}
    /\ kthr' = [kthr EXCEPT ![t].blocked = FALSE]
    /\ UNCHANGED <<memory, table, hwt, lock, used>>

\* A wake has taken t from its queue and has yet to unblock it.
Unblocking(t) == \E u \in KThreads : <<u, t>> \in ipi \/ t \in ThreadsOf(hwt[u].list)

-----------------------------------------------------------------------------
(* The application.                                                        *)

\* The thread runs, and the behaviour has room for another call.
Runs(t) == hwt[t].at = "out" /\ ~kthr[t].blocked /\ used.calls < MaxCalls

\* Nothing keeps a thread from waiting again before it has been unblocked from a sleep
\* that a signal ended.
sc_futex(t) ==
    /\ Runs(t)
    /\ \E c \in FutexCalls[t] :
        /\ Lock_AtomicAcquire(t, c)
        /\ used' = [used EXCEPT !.calls = @ + 1,
                                !.late = @ \/ (c.op = "WAIT" /\ Unblocking(t))]
    /\ UNCHANGED <<memory, table, kthr, ipi>>

\* The application changes a word and then wakes all who wait for that.
StoreWord(t) ==
    /\ Runs(t)
    /\ \E s \in Stores[t] :
        /\ memory' = [memory EXCEPT ![s.f] = s.val]
        /\ hwt' = [hwt EXCEPT ![t] =
            [at |-> "stored", call |-> s.call, turn |-> 0, list |-> <<>>]]
    /\ used' = [used EXCEPT !.calls = @ + 1]
    /\ UNCHANGED <<table, kthr, lock, ipi>>

WakeAfterStore(t) ==
    /\ hwt[t].at = "stored" /\ Lock_AtomicAcquire(t, hwt[t].call)
    /\ UNCHANGED <<memory, table, kthr, ipi, used>>

-----------------------------------------------------------------------------
(* What holds the lock.                                                    *)

\* Fault: the word is not compared.
NeverWouldBlock(c) == FALSE

WouldBlock(c) == memory[c.f] # c.val

\* Fault: the lock is not released.
KeepsLock(t) ==
    /\ Critical(t, "WAIT") /\ WouldBlock(hwt[t].call)
    /\ hwt' = [hwt EXCEPT ![t] = Out]
    /\ kthr' = [kthr EXCEPT ![t].result = "EWOULDBLOCK"]
    /\ UNCHANGED <<memory, table, lock, ipi, used>>

Futex_WaitFails(t) ==
    /\ Critical(t, "WAIT") /\ WouldBlock(hwt[t].call)
    /\ Fails(t) /\ kthr' = [kthr EXCEPT ![t].result = "EWOULDBLOCK"]

\* A full table leaves the thread blocked and in no queue.
Futex_Wait(t) ==
    LET c == hwt[t].call
        k == Allocated(Kernel(t), c.f)
        i == Futex_findTableEntry(k, c.f)
        asleep == [k.kthr[t] EXCEPT !.blocked = TRUE, !.result = "0"]
        waiting == [next |-> NULL, vaddr |-> c.f, expected |-> c.val, timed |-> c.timed,
                    blocked |-> TRUE, result |-> "0"]
    IN /\ Critical(t, "WAIT") /\ ~WouldBlock(c)
       /\ Becomes(t, IF i = 0 THEN [k EXCEPT !.kthr[t] = asleep]
                     ELSE Paste([k EXCEPT !.kthr[t] = waiting], i, t))
       /\ UNCHANGED memory

Futex_Wake(t) ==
    LET c == hwt[t].call
    IN /\ Critical(t, "WAKE")
       /\ Becomes(t, Futex_WakeQueue(Kernel(t), Futex_findTableEntry(Kernel(t), c.f), c.n, 0))
       /\ UNCHANGED memory

\* FUTEX_WAKE_OP: c.new and c.cmp stand for the operator and the comparison with their
\* operands.
Futex_WakeOp(t) ==
    LET c == hwt[t].call
        first == Futex_WakeQueue(Kernel(t), Futex_findTableEntry(Kernel(t), c.f), c.n, 0)
    IN /\ Critical(t, "WAKE_OP")
       /\ memory' = [memory EXCEPT ![c.g] = c.new[@]]
       /\ Becomes(t, IF memory[c.g] \notin c.cmp THEN first
                     ELSE Futex_WakeQueue(first, Futex_findTableEntry(first, c.g), c.m, 0))

\* FUTEX_CMP_REQUEUE on a word that has changed.
RequeueFails(t) ==
    /\ Critical(t, "CMP_REQUEUE") /\ WouldBlock(hwt[t].call)
    /\ Fails(t) /\ UNCHANGED kthr

\* FUTEX_REQUEUE and FUTEX_CMP_REQUEUE.
Futex_Requeue(t) ==
    LET c == hwt[t].call
        i == Futex_findTableEntry(Kernel(t), c.f)
        k == Allocated(Kernel(t), c.g)
        j == Futex_findTableEntry(k, c.g)
    IN /\ Critical(t, "REQUEUE") \/ (Critical(t, "CMP_REQUEUE") /\ ~WouldBlock(c))
       /\ Becomes(t, IF i = 0 \/ j = 0 THEN Kernel(t) ELSE Futex_WakeQueue(k, i, c.n, j))
       /\ UNCHANGED memory

\* The timer of a waiting thread expires.
IntHandler_UDEC(t) ==
    /\ hwt[t].at = "out" /\ kthr[t].timed
    /\ Lock_AtomicAcquire(t, [op |-> "TIMEOUT"])
    /\ UNCHANGED <<memory, table, kthr, ipi, used>>

\* Fault: the timeout is not looked at again.
Expires(t) == TRUE

StillTimed(t) == kthr[t].timed

\* A sleep that ends on the thread's own hardware thread.
WokenUp(k, t) == [k EXCEPT !.kthr[t].blocked = FALSE]

Futex_CheckTimeout(t) ==
    /\ Critical(t, "TIMEOUT")
    /\ Becomes(t, IF StillTimed(t)
                  THEN WokenUp(Ended(Removed(Kernel(t), t), {t}, "ETIMEDOUT"), t)
                  ELSE Kernel(t))
    /\ UNCHANGED memory

\* A signal is delivered to a thread that is blocked on a futex.
Signal_Deliver(t) ==
    /\ hwt[t].at = "out" /\ kthr[t].blocked /\ used.signals < MaxSignals
    /\ Lock_AtomicAcquire(t, [op |-> "SIGNAL"])
    /\ used' = [used EXCEPT !.signals = @ + 1]
    /\ UNCHANGED <<memory, table, kthr, ipi>>

\* Fault: the thread is only unblocked.
InterruptUnblocks(t) ==
    /\ Critical(t, "SIGNAL")
    /\ Becomes(t, WokenUp(Kernel(t), t))
    /\ UNCHANGED memory

Futex_Interrupt(t) ==
    /\ Critical(t, "SIGNAL")
    /\ Becomes(t, WokenUp(Ended(Removed(Kernel(t), t), {t}, "EINTR"), t))
    /\ UNCHANGED memory

-----------------------------------------------------------------------------

InKernel(t) ==
    \/ Turn(t) \/ Futex_WaitFails(t) \/ Futex_Wait(t) \/ Futex_Wake(t) \/ Futex_WakeOp(t)
    \/ RequeueFails(t) \/ Futex_Requeue(t) \/ Futex_CheckTimeout(t) \/ Futex_Interrupt(t)
    \/ IPI_DeliverInterrupt(t)

FNext ==
    \E t \in KThreads :
        \/ sc_futex(t) \/ StoreWord(t) \/ WakeAfterStore(t) \/ InKernel(t)
        \/ IPI_handler_run_scheduler(t) \/ IntHandler_UDEC(t) \/ Signal_Deliver(t)

\* A hardware thread in the kernel waits only for its turn and for a slot.
CanGoOn(t) ==
    \/ hwt[t].at = "spin" /\ lock.serving = hwt[t].turn
    \/ hwt[t].at = "critical"
    \/ hwt[t].at = "unblocking" /\ <<t, hwt[t].list[1]>> \notin ipi

\* The kernel goes on (weak fairness of InKernel, which is enabled when CanGoOn holds),
\* interrupts are delivered and timers expire.  The application may stop.
FFairness ==
    \A t \in KThreads :
        /\ []<>~CanGoOn(t) \/ []<><<InKernel(t)>>_fvars
        /\ WF_fvars(IPI_handler_run_scheduler(t)) /\ WF_fvars(IntHandler_UDEC(t))

FSpec == FInit /\ [][FNext]_fvars /\ FFairness

-----------------------------------------------------------------------------

Now == [table |-> table, kthr |-> kthr]

Entries == 1 .. NumFutex

Queue(i) == WaitersOf(Now, i)

\* An entry is in the table while it has waiters, no address has two entries, and the
\* waiters of an entry have its address (Futex_findTableEntry takes the first entry of
\* an address; FutexVAddr is where a timeout or a signal looks for the thread).
TableInv ==
    /\ \A i \in Entries :
        /\ table[i].vaddr = NULL <=> Queue(i) = <<>>
        /\ \A t \in ThreadsOf(Queue(i)) : kthr[t].vaddr = table[i].vaddr
    /\ \A i, j \in Entries : i # j /\ table[i].vaddr # NULL => table[i].vaddr # table[j].vaddr

\* A thread in the queue of a futex is blocked, as FutexVAddr, the "VA of Futex this
\* thread is blocking on", says: none runs, or waits elsewhere, while its links are in
\* use.
QueuedIsBlocked == \A i \in Entries : \A t \in ThreadsOf(Queue(i)) : kthr[t].blocked

\* A blocked thread is in the queue where a wake finds it, or is about to be unblocked:
\* timeouts, signals and requeues that race with wakes leave no waiter behind, and the
\* table never lacks an entry for one.
NoWaiterLost ==
    \A t \in KThreads : kthr[t].blocked =>
        \/ Unblocking(t)
        \/ \E i \in Entries : table[i].vaddr = kthr[t].vaddr /\ t \in ThreadsOf(Queue(i))

\* The application wakes all who wait on a word that it changes: after a store, and in
\* FUTEX_WAKE_OP, which changes the word only when the second wake follows.
AllWoken(c) ==
    c.op = "WAKE_OP" =>
        c.m >= Cardinality(KThreads) /\ \A v \in Values \ c.cmp : c.new[v] = v

WakesAll ==
    \A t \in KThreads :
        /\ \A c \in FutexCalls[t] : AllWoken(c)
        /\ \A s \in Stores[t] : s.call.f = s.f /\ s.call.n >= Cardinality(KThreads)

\* A thread sleeps on a word that is not what its caller expected only until the wake
\* that follows the store: the comparison under the lock and the wake after the store
\* cannot miss each other, whichever comes first, nor when the waiter is moved to another
\* futex.  WakesAll is assumed.
NoMissedWake ==
    \A t \in KThreads : kthr[t].vaddr # NULL /\ memory[kthr[t].vaddr] # kthr[t].expected =>
        \E u \in KThreads :
            hwt[u].at \in {"stored", "spin", "critical"} /\ hwt[u].call.op = "WAKE"
            /\ hwt[u].call.f = kthr[t].vaddr

\* A thread that a wake has counted is not told that it timed out: the timer that fires
\* while the wake holds the lock looks at FutexTimeout again.
TimeoutKeepsWake == \A t \in KThreads : Unblocking(t) => kthr[t].result # "ETIMEDOUT"

\* The futex lock is held by one hardware thread at a time.
OneHoldsLock == \A t, u \in KThreads : hwt[t].at = "critical" /\ hwt[u].at = "critical" => t = u

\* The waiters of each futex, and the threads that sleep.
Queues ==
    [a \in Addresses |-> LET i == Futex_findTableEntry(Now, a) IN IF i = 0 THEN <<>> ELSE Queue(i)]

Sleeping == {t \in KThreads : kthr[t].blocked}

Promise == INSTANCE FutexQueues WITH queues <- Queues, asleep <- Sleeping

\* Until an interrupt is late, the table with its linked lists implements one first-in
\* first-out queue per futex: "they will/must wake in FIFO order".
ImplementsQueues == Promise!Init /\ [][used'.late \/ Promise!Next]_(Promise!vars)

\* A sleep with a timeout ends, and so does a sleep that a wake has counted; each stays
\* one of the two until it ends.
SleepEnds ==
    \A t \in KThreads : []<>(kthr[t].blocked => ~kthr[t].timed /\ ~Unblocking(t))
=============================================================================
