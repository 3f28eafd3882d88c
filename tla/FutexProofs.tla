---------------------------- MODULE FutexProofs -----------------------------
(***************************************************************************)
(* Proofs about Futex, for any number of threads, futexes and calls: what  *)
(* each step does to the lock, the queues and the threads, and what follows *)
(* for the waiters.                                                        *)
(***************************************************************************)
EXTENDS FutexLists

USE ZenonT(8), SMTT(20)

-----------------------------------------------------------------------------
(* The lock.                                                               *)

Places == {"out", "stored", "spin", "critical", "unblocking", "exited"}

InLock(h) == h.at \in {"spin", "critical"}

LockTypeOK ==
    /\ hwt \in [KThreads -> [at : Places, turn : Nat, call : {hwt[u].call : u \in KThreads},
                             list : {hwt[u].list : u \in KThreads}]]
    /\ lock \in [next : Nat, serving : Nat]

\* Each turn is given once, and they are served in order.
LockInv ==
    /\ LockTypeOK
    /\ lock.serving <= lock.next
    /\ \A t \in KThreads : InLock(hwt[t]) =>
        /\ lock.serving <= hwt[t].turn /\ hwt[t].turn < lock.next
        /\ hwt[t].at = "critical" => hwt[t].turn = lock.serving
    /\ \A t, u \in KThreads :
        InLock(hwt[t]) /\ InLock(hwt[u]) /\ hwt[t].turn = hwt[u].turn => t = u

\* A hardware thread becomes h.
Becoming(t, h) == hwt' = [hwt EXCEPT ![t] = h]

Shaped(h) == h = [at |-> h.at, call |-> h.call, turn |-> h.turn, list |-> h.list]

\* The others stay where they are.
LEMMA HwChanges ==
    ASSUME LockTypeOK, NEW t \in KThreads, NEW h, Shaped(h), h.at \in Places, h.turn \in Nat,
           Becoming(t, h), lock' \in [next : Nat, serving : Nat]
    PROVE  /\ LockTypeOK'
           /\ hwt'[t] = h /\ \A u \in KThreads : u # t => hwt'[u] = hwt[u]
<1>1. hwt = [u \in KThreads |-> hwt[u]]
  BY DEF LockTypeOK
<1>2. hwt'[t] = h /\ (\A u \in KThreads : u # t => hwt'[u] = hwt[u])
      /\ hwt' = [u \in KThreads |-> hwt'[u]]
  BY <1>1 DEF Becoming
<1>3. ASSUME NEW u \in KThreads
      PROVE  hwt'[u] \in [at : Places, turn : Nat, call : {hwt'[v].call : v \in KThreads},
                          list : {hwt'[v].list : v \in KThreads}]
  <2>1. Shaped(hwt'[u]) /\ hwt'[u].at \in Places /\ hwt'[u].turn \in Nat
    <3>1. CASE u = t
      BY <1>2, <3>1
    <3>2. CASE u # t
      BY <1>2, <3>2, ZenonT(30) DEF LockTypeOK, Shaped
    <3> QED
      BY <3>1, <3>2
  <2> DEFINE x == hwt'[u]
             C == {hwt'[v].call : v \in KThreads}
             L == {hwt'[v].list : v \in KThreads}
  <2>2. x.call \in C /\ x.list \in L
    OBVIOUS
  <2> HIDE DEF x, C, L
  <2>3. Shaped(x) /\ x.at \in Places /\ x.turn \in Nat
    BY <2>1 DEF x
  <2>4. x \in [at : Places, turn : Nat, call : C, list : L]
    BY <2>2, <2>3 DEF Shaped
  <2> QED
    BY <2>4 DEF x, C, L
<1>4. hwt' \in [KThreads -> [at : Places, turn : Nat, call : {hwt'[v].call : v \in KThreads},
                            list : {hwt'[v].list : v \in KThreads}]]
  BY <1>2, <1>3, ZenonT(30)
<1> QED
  BY <1>2, <1>4, ZenonT(30) DEF LockTypeOK

LEMMA Leaving ==
    ASSUME NEW h
    PROVE  /\ Shaped(Leaves(h)) /\ Leaves(h).at \in {"out", "exited"} /\ Leaves(h).turn = 0
           /\ Leaves(h).call = NULL /\ Leaves(h).list = <<>>
<1> DEFINE x == [Out EXCEPT !.at = "exited"]
<1>1. Shaped(Out) /\ Out.at = "out" /\ Out.turn = 0 /\ Out.call = NULL /\ Out.list = <<>>
  BY DEF Out, Shaped
<1>2. x = [at |-> "exited", call |-> NULL, turn |-> 0, list |-> <<>>]
  BY DEF Out
<1>3. Shaped(x) /\ x.at = "exited" /\ x.turn = 0 /\ x.call = NULL /\ x.list = <<>>
  BY <1>2 DEF Shaped
<1>4. Leaves(h) = Out \/ Leaves(h) = x
  BY DEF Leaves
<1> QED
  BY <1>1, <1>3, <1>4, ZenonT(30)

\* A new turn is the last.
LEMMA Acquires ==
    ASSUME LockInv, NEW t \in KThreads, ~InLock(hwt[t]), NEW c, Lock_AtomicAcquire(t, c)
    PROVE  LockInv'
<1> DEFINE h == [at |-> "spin", call |-> c, turn |-> lock.next, list |-> <<>>]
<1>2. Shaped(h) /\ h.at = "spin" /\ h.turn = lock.next
  BY DEF Shaped
<1>3. Becoming(t, h)
  BY DEF Lock_AtomicAcquire, Becoming
<1> HIDE DEF h
<1>4. lock \in [next : Nat, serving : Nat] /\ lock.next \in Nat /\ lock.serving \in Nat
  BY DEF LockInv, LockTypeOK
<1>5. lock'.next = lock.next + 1 /\ lock'.serving = lock.serving
      /\ lock' \in [next : Nat, serving : Nat]
  BY <1>4 DEF Lock_AtomicAcquire
<1>6. LockTypeOK' /\ hwt'[t] = h /\ \A u \in KThreads : u # t => hwt'[u] = hwt[u]
  BY <1>2, <1>3, <1>4, <1>5, HwChanges DEF LockInv, Places
<1>7. \A u \in KThreads : hwt[u].turn \in Nat
  BY DEF LockInv, LockTypeOK
<1>8. ASSUME NEW u \in KThreads, InLock(hwt'[u])
      PROVE  /\ lock'.serving <= hwt'[u].turn /\ hwt'[u].turn < lock'.next
             /\ hwt'[u].at = "critical" => hwt'[u].turn = lock'.serving
             /\ u # t => InLock(hwt[u]) /\ hwt'[u].turn < lock.next
  <2>1. CASE u = t
    BY <1>2, <1>4, <1>5, <1>6, <2>1 DEF LockInv
  <2>2. CASE u # t
    BY <1>4, <1>5, <1>6, <1>7, <1>8, <2>2 DEF LockInv
  <2> QED
    BY <2>1, <2>2
<1>9. ASSUME NEW u \in KThreads, NEW v \in KThreads,
             InLock(hwt'[u]), InLock(hwt'[v]), hwt'[u].turn = hwt'[v].turn
      PROVE  u = v
  <2>1. CASE u # t /\ v # t
    BY <1>6, <1>9, <2>1 DEF LockInv
  <2>2. CASE u = t /\ v # t
    BY <1>2, <1>4, <1>6, <1>7, <1>8, <1>9, <2>2
  <2>3. CASE u # t /\ v = t
    BY <1>2, <1>4, <1>6, <1>7, <1>8, <1>9, <2>3
  <2> QED
    BY <2>1, <2>2, <2>3
<1>10. lock'.serving <= lock'.next
  BY <1>4, <1>5 DEF LockInv
<1> QED
  BY <1>6, <1>8, <1>9, <1>10 DEF LockInv

\* The holder gives the lock to the next turn.
LEMMA Releases ==
    ASSUME LockInv, NEW t \in KThreads, hwt[t].at = "critical", Lock_AtomicRelease(t),
           NEW h, Shaped(h), h.at \in Places, h.turn \in Nat, ~InLock(h), Becoming(t, h)
    PROVE  LockInv'
<1>1. lock \in [next : Nat, serving : Nat] /\ lock.next \in Nat /\ lock.serving \in Nat
  BY DEF LockInv, LockTypeOK
<1>2. hwt[t].turn = lock.serving /\ lock.serving < lock.next
  BY DEF LockInv, InLock
<1>3. lock'.next = lock.next /\ lock'.serving = lock.serving + 1
      /\ lock' \in [next : Nat, serving : Nat]
  BY <1>1, <1>2 DEF Lock_AtomicRelease
<1>4. LockTypeOK' /\ hwt'[t] = h /\ \A u \in KThreads : u # t => hwt'[u] = hwt[u]
  BY <1>3, HwChanges DEF LockInv
<1>5. \A u \in KThreads : hwt[u].turn \in Nat
  BY DEF LockInv, LockTypeOK
<1>6. ASSUME NEW u \in KThreads, InLock(hwt'[u])
      PROVE  u # t /\ InLock(hwt[u]) /\ hwt'[u] = hwt[u] /\ hwt[u].turn # lock.serving
  BY <1>2, <1>4, <1>6 DEF LockInv, InLock
<1>7. ASSUME NEW u \in KThreads, InLock(hwt'[u])
      PROVE  /\ lock'.serving <= hwt'[u].turn /\ hwt'[u].turn < lock'.next
             /\ hwt'[u].at = "critical" => hwt'[u].turn = lock'.serving
  BY <1>1, <1>3, <1>5, <1>6, <1>7 DEF LockInv
<1>8. \A u, v \in KThreads :
        InLock(hwt'[u]) /\ InLock(hwt'[v]) /\ hwt'[u].turn = hwt'[v].turn => u = v
  BY <1>6 DEF LockInv
<1>9. lock'.serving <= lock'.next
  BY <1>1, <1>2, <1>3
<1> QED
  BY <1>4, <1>7, <1>8, <1>9 DEF LockInv

\* Neither takes nor gives up a turn.
LEMMA KeepsTurns ==
    ASSUME LockInv, NEW t \in KThreads, UNCHANGED lock,
           NEW h, Shaped(h), h.at \in Places, h.turn \in Nat, ~InLock(h), Becoming(t, h)
    PROVE  LockInv'
<1>1. LockTypeOK' /\ hwt'[t] = h /\ \A u \in KThreads : u # t => hwt'[u] = hwt[u]
  BY HwChanges, ZenonT(30) DEF LockInv, LockTypeOK
<1> QED
  BY <1>1 DEF LockInv

LEMMA Placed ==
    ASSUME NEW h, Shaped(h), NEW p, NEW l
    PROVE  /\ [h EXCEPT !.at = p] = [at |-> p, call |-> h.call, turn |-> h.turn, list |-> h.list]
           /\ [h EXCEPT !.list = l] = [at |-> h.at, call |-> h.call, turn |-> h.turn, list |-> l]
           /\ [h EXCEPT !.at = p, !.list = l]
              = [at |-> p, call |-> h.call, turn |-> h.turn, list |-> l]
<1> DEFINE a == h.at
           c == h.call
           n == h.turn
           m == h.list
           x == [at |-> p, call |-> c, turn |-> n, list |-> m]
<1>1. h = [at |-> a, call |-> c, turn |-> n, list |-> m]
  BY DEF Shaped
<1> HIDE DEF a, c, n, m
<1>2. [h EXCEPT !.at = p] = x
  BY <1>1
<1>3. [h EXCEPT !.list = l] = [at |-> a, call |-> c, turn |-> n, list |-> l]
  BY <1>1
<1>4. [x EXCEPT !.list = l] = [at |-> p, call |-> c, turn |-> n, list |-> l]
  OBVIOUS
<1>5. [h EXCEPT !.at = p, !.list = l] = [at |-> p, call |-> c, turn |-> n, list |-> l]
  BY <1>1, <1>2, <1>4, ZenonT(30)
<1> QED
  BY <1>2, <1>3, <1>5 DEF a, c, n, m

LEMMA HwShaped ==
    ASSUME LockTypeOK, NEW t \in KThreads
    PROVE  Shaped(hwt[t]) /\ hwt[t].at \in Places /\ hwt[t].turn \in Nat
  BY ZenonT(30) DEF LockTypeOK, Shaped

\* What t does once it has released the lock.
LEMMA Unblocks ==
    ASSUME LockTypeOK, NEW t \in KThreads, NEW l
    PROVE  LET h == IF l = <<>> THEN Leaves(hwt[t])
                    ELSE [hwt[t] EXCEPT !.at = "unblocking", !.list = l]
           IN /\ Shaped(h) /\ h.at \in Places /\ h.turn \in Nat /\ ~InLock(h) /\ h.list = l
              /\ h.at \in IF l = <<>> THEN {"out", "exited"} ELSE {"unblocking"}
              /\ h.call \in {NULL, hwt[t].call}
<1>1. CASE l = <<>>
  BY <1>1, Leaving DEF InLock, Places
<1>2. CASE l # <<>>
  <2> DEFINE h == [hwt[t] EXCEPT !.at = "unblocking", !.list = l]
  <2>1. h = [at |-> "unblocking", call |-> hwt[t].call, turn |-> hwt[t].turn, list |-> l]
    BY HwShaped, Placed, ZenonT(30)
  <2>2. Shaped(h) /\ h.at = "unblocking" /\ h.turn = hwt[t].turn /\ h.list = l
        /\ h.call = hwt[t].call
    BY <2>1 DEF Shaped
  <2> QED
    BY <1>2, <2>2, HwShaped DEF InLock, Places
<1> QED
  BY <1>1, <1>2

LEMMA BecomesReleases ==
    ASSUME LockInv, NEW t \in KThreads, hwt[t].at = "critical", NEW l, Becomes(t, l)
    PROVE  LockInv'
<1> DEFINE h == IF l.list = <<>> THEN Leaves(hwt[t])
                ELSE [hwt[t] EXCEPT !.at = "unblocking", !.list = l.list]
<1>1. Shaped(h) /\ h.at \in Places /\ h.turn \in Nat /\ ~InLock(h)
  BY Unblocks, ZenonT(30) DEF LockInv
<1>2. Becoming(t, h) /\ Lock_AtomicRelease(t)
  BY DEF Becomes, Becoming, LockInv, LockTypeOK
<1> HIDE DEF h
<1> QED
  BY <1>1, <1>2, Releases

LEMMA FailsReleases ==
    ASSUME LockInv, NEW t \in KThreads, hwt[t].at = "critical", Fails(t)
    PROVE  LockInv'
<1> DEFINE h == Leaves(hwt[t])
<1>1. Shaped(h) /\ h.at \in Places /\ h.turn \in Nat /\ ~InLock(h)
  BY Leaving DEF InLock, Places
<1>2. Becoming(t, h) /\ Lock_AtomicRelease(t)
  BY DEF Fails, Becoming, LockInv, LockTypeOK
<1> HIDE DEF h
<1> QED
  BY <1>1, <1>2, Releases

LEMMA TurnTakes ==
    ASSUME LockInv, NEW t \in KThreads, Turn(t)
    PROVE  LockInv'
<1> DEFINE h == [hwt[t] EXCEPT !.at = "critical"]
<1>1. h = [at |-> "critical", call |-> hwt[t].call, turn |-> hwt[t].turn, list |-> hwt[t].list]
  BY HwShaped, Placed, ZenonT(30) DEF LockInv
<1>2. Shaped(h) /\ h.at = "critical" /\ h.turn = hwt[t].turn /\ hwt[t].turn \in Nat
  BY <1>1, HwShaped, ZenonT(30) DEF Shaped, LockInv
<1>3. Becoming(t, h) /\ lock' = lock
  BY DEF Turn, Becoming, LockInv, LockTypeOK
<1> HIDE DEF h
<1>4. LockTypeOK' /\ hwt'[t] = h /\ \A u \in KThreads : u # t => hwt'[u] = hwt[u]
  BY <1>2, <1>3, HwChanges, ZenonT(30) DEF LockInv, LockTypeOK, Places
<1>5. InLock(hwt[t]) /\ h.turn = lock.serving
  BY <1>2 DEF Turn, InLock
<1>6. \A u \in KThreads : /\ InLock(hwt'[u]) <=> InLock(hwt[u])
                          /\ hwt'[u].turn = hwt[u].turn
                          /\ hwt'[u].at = "critical" => hwt[u].at = "critical" \/ u = t
  BY <1>2, <1>4, <1>5, ZenonT(30) DEF InLock
<1> QED
  BY <1>2, <1>3, <1>4, <1>5, <1>6, ZenonT(30) DEF LockInv

LEMMA LockStep ==
    ASSUME LockInv, [FNext]_fvars
    PROVE  LockInv'
<1>1. CASE UNCHANGED fvars
  BY <1>1, ZenonT(30) DEF fvars, LockInv, LockTypeOK
<1>2. ASSUME NEW t \in KThreads, sc_futex(t) PROVE LockInv'
  <2>1. PICK c \in FutexCalls[t] : Lock_AtomicAcquire(t, c)
    BY <1>2 DEF sc_futex
  <2> QED
    BY <1>2, <2>1, Acquires DEF sc_futex, Runs, InLock
<1>3. ASSUME NEW t \in KThreads, StoreWord(t) PROVE LockInv'
  <2>1. PICK s \in Stores[t] : hwt' = [hwt EXCEPT ![t] =
            [at |-> "stored", call |-> s.call, turn |-> 0, list |-> <<>>]]
    BY <1>3, ZenonT(30) DEF StoreWord
  <2> DEFINE h == [at |-> "stored", call |-> s.call, turn |-> 0, list |-> <<>>]
  <2>2. Shaped(h) /\ h.at \in Places /\ h.turn \in Nat /\ ~InLock(h)
    BY DEF Shaped, Places, InLock
  <2>3. Becoming(t, h) /\ UNCHANGED lock
    BY <1>3, <2>1, ZenonT(30) DEF Becoming, StoreWord
  <2> HIDE DEF h
  <2> QED
    BY <2>2, <2>3, KeepsTurns
<1>4. ASSUME NEW t \in KThreads, WakeAfterStore(t) PROVE LockInv'
  BY <1>4, Acquires DEF WakeAfterStore, InLock
<1>5. ASSUME NEW t \in KThreads, IntHandler_UDEC(t) PROVE LockInv'
  BY <1>5, Acquires DEF IntHandler_UDEC, InLock
<1>6. ASSUME NEW t \in KThreads, Signal_Deliver(t) PROVE LockInv'
  BY <1>6, Acquires DEF Signal_Deliver, InLock
<1>7. ASSUME NEW t \in KThreads, IPI_handler_run_scheduler(t) PROVE LockInv'
  BY <1>7, ZenonT(30) DEF IPI_handler_run_scheduler, LockInv, LockTypeOK
<1>8. ASSUME NEW t \in KThreads, IPI_DeliverInterrupt(t) PROVE LockInv'
  <2> DEFINE h == IF Len(hwt[t].list) = 1 THEN Leaves(hwt[t])
                  ELSE [hwt[t] EXCEPT !.list = Tail(hwt[t].list)]
             x == [hwt[t] EXCEPT !.list = Tail(hwt[t].list)]
  <2>1. x = [at |-> hwt[t].at, call |-> hwt[t].call, turn |-> hwt[t].turn,
             list |-> Tail(hwt[t].list)]
    BY HwShaped, Placed, ZenonT(30) DEF LockInv
  <2>2. Shaped(x) /\ x.at = "unblocking" /\ x.turn \in Nat
    BY <1>8, <2>1, HwShaped, ZenonT(30) DEF Shaped, LockInv, IPI_DeliverInterrupt
  <2>3. Shaped(h) /\ h.at \in Places /\ h.turn \in Nat /\ ~InLock(h)
    BY <2>2, Leaving DEF InLock, Places
  <2>4. Becoming(t, h)
    BY <1>8 DEF Becoming, IPI_DeliverInterrupt
  <2>5. UNCHANGED lock
    BY <1>8 DEF IPI_DeliverInterrupt
  <2> HIDE DEF h
  <2> QED
    BY <2>3, <2>4, <2>5, KeepsTurns
<1>9. ASSUME NEW t \in KThreads, Futex_WaitFails(t) \/ RequeueFails(t) PROVE LockInv'
  BY <1>9, FailsReleases DEF Futex_WaitFails, RequeueFails, Critical
<1>10. ASSUME NEW t \in KThreads, Futex_Wait(t) PROVE LockInv'
  BY <1>10, BecomesReleases DEF Futex_Wait, Critical
<1>11. ASSUME NEW t \in KThreads, Futex_Wake(t) PROVE LockInv'
  BY <1>11, BecomesReleases DEF Futex_Wake, Critical
<1>12. ASSUME NEW t \in KThreads, Futex_WakeOp(t) PROVE LockInv'
  BY <1>12, BecomesReleases DEF Futex_WakeOp, Critical
<1>13. ASSUME NEW t \in KThreads, Futex_Requeue(t) PROVE LockInv'
  BY <1>13, BecomesReleases DEF Futex_Requeue, Critical
<1>14. ASSUME NEW t \in KThreads, Futex_CheckTimeout(t) PROVE LockInv'
  BY <1>14, BecomesReleases DEF Futex_CheckTimeout, Critical
<1>15. ASSUME NEW t \in KThreads, Futex_Interrupt(t) PROVE LockInv'
  BY <1>15, BecomesReleases DEF Futex_Interrupt, Critical
<1> QED
  BY <1>1, <1>2, <1>3, <1>4, <1>5, <1>6, <1>7, <1>8, <1>9, <1>10, <1>11, <1>12, <1>13, <1>14,
     <1>15, TurnTakes DEF FNext, InKernel

LEMMA LockInitially ==
    ASSUME FInit
    PROVE  LockInv
<1>1. \A t \in KThreads : hwt[t] = Out
  BY DEF FInit
<1>2. \A t \in KThreads : /\ hwt[t].at = "out" /\ hwt[t].turn = 0
                          /\ hwt[t] = [at |-> "out", call |-> NULL, turn |-> 0, list |-> <<>>]
                          /\ ~InLock(hwt[t])
  BY <1>1 DEF Out, InLock
<1>3. lock \in [next : Nat, serving : Nat] /\ lock.serving = 0 /\ lock.next = 0
  BY DEF FInit
<1>4. hwt = [t \in KThreads |-> hwt[t]]
  BY DEF FInit
<1>5. LockTypeOK
  BY <1>2, <1>3, <1>4 DEF LockTypeOK, Places
<1> QED
  BY <1>2, <1>3, <1>5 DEF LockInv

-----------------------------------------------------------------------------
(* The invariant.                                                          *)

StoreCalls(t) == {s.call : s \in Stores[t]}

Calls == {NULL, [op |-> "TIMEOUT"], [op |-> "SIGNAL"]}
    \cup (UNION {FutexCalls[t] : t \in KThreads})
    \cup (UNION {StoreCalls(t) : t \in KThreads})

HwThread == [at : Places, call : Calls, turn : Nat, list : Seq(KThreads)]

\* A hardware thread outside of the lock, or in it for a system call or an interrupt.
HwInv(h) ==
    /\ h.list # <<>> <=> h.at = "unblocking"
    /\ h.at = "stored" => IsCall(h.call) /\ h.call.op = "WAKE"
    /\ InLock(h) => IsCall(h.call) \/ h.call \in {[op |-> "TIMEOUT"], [op |-> "SIGNAL"]}

FutexTypeOK ==
    /\ memory \in [Addresses -> Values]
    /\ table \in [1 .. NumFutex -> Entry] /\ kthr \in [KThreads -> ThreadState]
    /\ hwt \in [KThreads -> HwThread]
    /\ \A t \in KThreads : HwInv(hwt[t])

\* The queues that the refinement mapping reads off k.
QOf(k) == [a \in Addresses |->
    LET i == Futex_findTableEntry(k, a) IN IF i = 0 THEN <<>> ELSE WaitersOf(k, i)]

\* A thread x with an address is blocked and not yet woken; one that is blocked without an
\* address is woken.  Only a thread that runs makes a system call, and a thread that is
\* still to be unblocked does not wait.
ThreadInv(x, h, woken) ==
    /\ x.vaddr # NULL => x.blocked /\ ~woken
    /\ x.blocked => x.vaddr # NULL \/ woken
    /\ x.timed => x.vaddr # NULL
    /\ woken => x.result # "ETIMEDOUT"
    /\ h.at = "stored" => ~x.blocked
    /\ InLock(h) => (IsCall(h.call) <=> ~x.blocked)
    /\ InLock(h) /\ h.call.op = "WAIT" => ~woken

FutexInv ==
    /\ FutexTypeOK /\ LockInv
    /\ Holds(Now, QOf(Now)) /\ NoneEmpty(Now)
    /\ \A t \in KThreads : ThreadInv(kthr[t], hwt[t], Unblocking(t))

\* The state that a critical section starts with.
IsStart(k) ==
    /\ k \in States /\ k.list = <<>> /\ k.table = table /\ k.kthr = kthr
    /\ Holds(k, QOf(Now)) /\ NoneEmpty(k)

LEMMA Starts ==
    ASSUME FutexInv, NEW t \in KThreads, hwt[t].at = "critical"
    PROVE  IsStart(Kernel(t))
<1> DEFINE k == Kernel(t)
<1>1. k = [table |-> table, kthr |-> kthr, list |-> hwt[t].list]
  BY DEF Kernel
<1>2. hwt[t].list = <<>> /\ table \in [1 .. NumFutex -> Entry]
      /\ kthr \in [KThreads -> ThreadState]
  BY DEF FutexInv, FutexTypeOK, HwInv
<1>3. k \in States /\ k.list = <<>> /\ k.table = table /\ k.kthr = kthr
  BY <1>1, <1>2 DEF States
<1>4. Now.table = table /\ Now.kthr = kthr
  BY DEF Now
<1> HIDE DEF k
<1>5. Holds(k, QOf(Now))
  BY <1>3, <1>4, SameQueues DEF FutexInv
<1>6. NoneEmpty(k)
  BY <1>3, <1>4 DEF FutexInv, NoneEmpty
<1> QED
  BY <1>3, <1>5, <1>6 DEF IsStart, k

\* What a critical section of t does to thread u: nothing that matters, a wake, or it puts
\* t to sleep or ends its sleep.
Stays(x, y) ==
    /\ y.vaddr = NULL <=> x.vaddr = NULL
    /\ y.blocked = x.blocked /\ y.timed = x.timed /\ y.result = x.result

Woken(x, y) ==
    /\ x.vaddr # NULL /\ y.vaddr = NULL /\ y.blocked = x.blocked
    /\ ~y.timed /\ y.result # "ETIMEDOUT"

FallsAsleep(y, woken) == y.vaddr # NULL /\ y.blocked /\ ~woken

GoesOn(y, woken) ==
    y.vaddr = NULL /\ ~y.blocked /\ ~y.timed /\ (y.result = "ETIMEDOUT" => ~woken)

Effect(t, l, u) ==
    IF Inside(l.list, u) THEN Woken(kthr[u], l.kthr[u])
    ELSE \/ Stays(kthr[u], l.kthr[u])
         \/ u = t /\ (FallsAsleep(l.kthr[u], Unblocking(u)) \/ GoesOn(l.kthr[u], Unblocking(u)))

\* A thread that another one lets stay or wakes, wherever its hardware thread is.
LEMMA OtherThread ==
    ASSUME NEW x \in ThreadState, NEW y \in ThreadState, NEW h, HwInv(h),
           NEW w \in BOOLEAN, ThreadInv(x, h, w)
    PROVE  /\ Stays(x, y) => ThreadInv(y, h, w)
           /\ Woken(x, y) => ThreadInv(y, h, TRUE)
<1>1. x.blocked \in BOOLEAN /\ x.timed \in BOOLEAN /\ y.blocked \in BOOLEAN /\ y.timed \in BOOLEAN
  BY DEF ThreadState
<1>2. ASSUME Stays(x, y) PROVE ThreadInv(y, h, w)
  BY <1>1, <1>2, Zenon DEF Stays, ThreadInv
<1>3. ASSUME Woken(x, y) PROVE ThreadInv(y, h, TRUE)
  <2>1. x.blocked /\ y.blocked /\ ~y.timed /\ y.vaddr = NULL
    BY <1>1, <1>3 DEF Woken, ThreadInv
  <2>2. h.at # "stored"
    BY <2>1 DEF ThreadInv
  <2>3. InLock(h) => ~IsCall(h.call) /\ h.call.op # "WAIT"
    <3>1. ASSUME InLock(h) PROVE ~IsCall(h.call)
      BY <2>1, <3>1 DEF ThreadInv
    <3>2. ASSUME InLock(h) PROVE h.call.op # "WAIT"
      BY <3>1, <3>2 DEF HwInv
    <3> QED
      BY <3>1, <3>2
  <2> QED
    BY <1>3, <2>1, <2>2, <2>3 DEF ThreadInv, Woken
<1> QED
  BY <1>2, <1>3, ZenonT(30)

\* The thread of the critical section, once its hardware thread is in place h.
LEMMA OwnThread ==
    ASSUME NEW x \in ThreadState, NEW y \in ThreadState, NEW g, NEW h,
           ~InLock(h), h.at # "stored", NEW w \in BOOLEAN, ThreadInv(x, g, w)
    PROVE  /\ Stays(x, y) => ThreadInv(y, h, w)
           /\ Woken(x, y) => ThreadInv(y, h, TRUE)
<1>1. x.blocked \in BOOLEAN /\ x.timed \in BOOLEAN /\ y.blocked \in BOOLEAN /\ y.timed \in BOOLEAN
  BY DEF ThreadState
<1>2. ASSUME Stays(x, y) PROVE ThreadInv(y, h, w)
  BY <1>1, <1>2, Zenon DEF Stays, ThreadInv
<1>3. ASSUME Woken(x, y) PROVE ThreadInv(y, h, TRUE)
  BY <1>1, <1>3, Zenon DEF Woken, ThreadInv
<1> QED
  BY <1>2, <1>3, ZenonT(30)

LEMMA OwnSleep ==
    ASSUME NEW y \in ThreadState, NEW h, ~InLock(h), h.at # "stored", NEW w \in BOOLEAN
    PROVE  /\ FallsAsleep(y, w) => ThreadInv(y, h, w)
           /\ GoesOn(y, w) => ThreadInv(y, h, w)
<1>1. y.blocked \in BOOLEAN /\ y.timed \in BOOLEAN
  BY DEF ThreadState
<1>2. ASSUME FallsAsleep(y, w) PROVE ThreadInv(y, h, w)
  BY <1>1, <1>2, Zenon DEF FallsAsleep, ThreadInv
<1>3. ASSUME GoesOn(y, w) PROVE ThreadInv(y, h, w)
  BY <1>1, <1>3, Zenon DEF GoesOn, ThreadInv
<1> QED
  BY <1>2, <1>3

LEMMA QueuesAre ==
    ASSUME Counting, NEW k, NEW p, Holds(k, p)
    PROVE  p = QOf(k)
<1>1. p \in [Addresses -> Seq(KThreads)]
  BY DEF Holds
<1>2. \A a \in Addresses : p[a] = QOf(k)[a]
  BY Contents DEF QOf
<1>3. p = [a \in Addresses |-> p[a]]
  BY <1>1
<1>4. QOf(k) = [a \in Addresses |-> QOf(k)[a]]
  BY DEF QOf
<1> QED
  BY <1>2, <1>3, <1>4

\* The queues of the next state.
LEMMA NextQueues ==
    ASSUME Counting, NEW l, NEW p, Holds(l, p), NoneEmpty(l), table' = l.table, kthr' = l.kthr
    PROVE  QOf(Now)' = p /\ Holds(Now, QOf(Now))' /\ NoneEmpty(Now)'
<1> DEFINE n == [table |-> l.table, kthr |-> l.kthr]
<1>1. n.table = l.table /\ n.kthr = l.kthr
  OBVIOUS
<1>2. Now' = n
  BY DEF Now
<1> HIDE DEF n
<1>3. Holds(n, p) /\ NoneEmpty(n)
  <2>1. Holds(n, p)
    BY <1>1, SameQueues
  <2> QED
    BY <1>1, <2>1 DEF NoneEmpty
<1>4. p = QOf(n)
  BY <1>3, QueuesAre
<1>5. QOf(Now)' = QOf(n)
  BY <1>2
<1> QED
  BY <1>2, <1>3, <1>4, <1>5, ZenonT(30)

LEMMA CriticalStep ==
    ASSUME Counting, FutexInv, NEW t \in KThreads, hwt[t].at = "critical",
           NEW l \in States, NEW p, Holds(l, p), NoneEmpty(l), Becomes(t, l),
           memory' \in [Addresses -> Values], \A u \in KThreads : Effect(t, l, u)
    PROVE  FutexInv' /\ QOf(Now)' = p
<1> DEFINE h == IF l.list = <<>> THEN Leaves(hwt[t])
                ELSE [hwt[t] EXCEPT !.at = "unblocking", !.list = l.list]
<1>1. LockInv /\ LockTypeOK /\ LockInv'
  BY BecomesReleases DEF FutexInv, LockInv
<1>2. /\ Shaped(h) /\ h.at \in Places /\ h.turn \in Nat /\ ~InLock(h) /\ h.list = l.list
      /\ h.at \in IF l.list = <<>> THEN {"out", "exited"} ELSE {"unblocking"}
      /\ h.call \in {NULL, hwt[t].call}
  BY <1>1, Unblocks, ZenonT(30)
<1>3. hwt' = [hwt EXCEPT ![t] = h] /\ table' = l.table /\ kthr' = l.kthr /\ ipi' = ipi
  BY DEF Becomes
<1> HIDE DEF h
<1>4. /\ l.table \in [1 .. NumFutex -> Entry] /\ l.kthr \in [KThreads -> ThreadState]
      /\ l.list \in Seq(KThreads)
  BY DEF States
<1>5. hwt \in [KThreads -> HwThread] /\ hwt[t].call \in Calls /\ kthr \in [KThreads -> ThreadState]
      /\ \A u \in KThreads : HwInv(hwt[u]) /\ hwt[u].list \in Seq(KThreads)
  BY DEF FutexInv, FutexTypeOK, HwThread
<1>6. h \in HwThread /\ h.at # "stored"
  <2>1. h.call \in Calls
    BY <1>2, <1>5 DEF Calls
  <2>2. h = [at |-> h.at, call |-> h.call, turn |-> h.turn, list |-> h.list]
    BY <1>2 DEF Shaped
  <2>3. h \in [at : Places, call : Calls, turn : Nat, list : Seq(KThreads)]
    BY <1>2, <1>4, <2>1, <2>2, ZenonT(30)
  <2>4. h.at # "stored"
    BY <1>2
  <2> QED
    BY <2>3, <2>4 DEF HwThread
<1>7. HwInv(h)
  <2>1. CASE l.list = <<>>
    BY <1>2, <2>1 DEF HwInv
  <2>2. CASE l.list # <<>>
    BY <1>2, <2>2 DEF HwInv
  <2> QED
    BY <2>1, <2>2
<1>8. hwt' \in [KThreads -> HwThread] /\ hwt'[t] = h
      /\ \A u \in KThreads : u # t => hwt'[u] = hwt[u]
  BY <1>3, <1>5, <1>6
<1>9. FutexTypeOK'
  BY <1>3, <1>4, <1>5, <1>7, <1>8, ZenonT(30) DEF FutexTypeOK
<1>10. hwt[t].list = <<>>
  BY <1>5 DEF HwInv
<1>11. ASSUME NEW u \in KThreads
       PROVE  Unblocking(u)' <=> Unblocking(u) \/ Inside(l.list, u)
  <2>1. \A v \in KThreads :
          v # t => (u \in ThreadsOf(hwt'[v].list) <=> u \in ThreadsOf(hwt[v].list))
    BY <1>8
  <2>2. u \in ThreadsOf(hwt'[t].list) <=> Inside(l.list, u)
    BY <1>2, <1>4, <1>8, RangeInside, ZenonT(30)
  <2>3. u \notin ThreadsOf(hwt[t].list)
    BY <1>10 DEF ThreadsOf
  <2> QED
    BY <1>3, <2>1, <2>2, <2>3, Zenon DEF Unblocking
<1>12. ASSUME NEW u \in KThreads
       PROVE  ThreadInv(l.kthr[u], hwt'[u], Unblocking(u)')
  <2> DEFINE w == Unblocking(u)
  <2>1. w \in BOOLEAN /\ ThreadInv(kthr[u], hwt[u], w) /\ HwInv(hwt[u])
        /\ kthr[u] \in ThreadState /\ l.kthr[u] \in ThreadState /\ Effect(t, l, u)
    BY <1>4, <1>5, ZenonT(30) DEF FutexInv, Unblocking
  <2>2. CASE Inside(l.list, u)
    <3>1. Woken(kthr[u], l.kthr[u])
      BY <2>1, <2>2 DEF Effect
    <3>2. Unblocking(u)' = TRUE
      BY <1>11, <2>2 DEF Unblocking
    <3> HIDE DEF w
    <3>3. ThreadInv(l.kthr[u], hwt'[u], TRUE)
      <4>1. CASE u = t
        <5>1. hwt'[u] = h /\ ~InLock(h) /\ h.at # "stored"
          BY <1>2, <1>6, <1>8, <4>1, ZenonT(30)
        <5>2. ThreadInv(l.kthr[u], h, TRUE)
          BY <2>1, <3>1, <5>1, OwnThread, ZenonT(30)
        <5> QED
          BY <5>1, <5>2, ZenonT(30)
      <4>2. CASE u # t
        <5>1. hwt'[u] = hwt[u]
          BY <1>8, <4>2
        <5>2. ThreadInv(l.kthr[u], hwt[u], TRUE)
          BY <2>1, <3>1, <4>2, OtherThread, ZenonT(30)
        <5> QED
          BY <5>1, <5>2, ZenonT(30)
      <4> QED
        BY <4>1, <4>2, ZenonT(30)
    <3> QED
      BY <3>2, <3>3, ZenonT(30)
  <2>3. CASE ~Inside(l.list, u)
    <3>1. \/ Stays(kthr[u], l.kthr[u])
          \/ u = t /\ (FallsAsleep(l.kthr[u], w) \/ GoesOn(l.kthr[u], w))
      BY <2>1, <2>3 DEF Effect
    <3>2. Unblocking(u)' = w
      BY <1>11, <2>3, ZenonT(30) DEF Unblocking
    <3> HIDE DEF w
    <3>3. ThreadInv(l.kthr[u], hwt'[u], w)
      <4>1. CASE u = t
        <5>1. hwt'[u] = h /\ ~InLock(h) /\ h.at # "stored"
          BY <1>2, <1>6, <1>8, <4>1
        <5>2. /\ Stays(kthr[u], l.kthr[u]) \/ FallsAsleep(l.kthr[u], w)
                 \/ GoesOn(l.kthr[u], w)
              /\ ThreadInv(kthr[u], hwt[u], w) /\ w \in BOOLEAN
              /\ kthr[u] \in ThreadState /\ l.kthr[u] \in ThreadState
          BY <2>1, <3>1, Zenon
        <5>3. ThreadInv(l.kthr[u], h, w)
          <6>1. CASE Stays(kthr[u], l.kthr[u])
            BY <5>1, <5>2, <6>1, OwnThread, ZenonT(30)
          <6>2. CASE FallsAsleep(l.kthr[u], w)
            BY <5>1, <5>2, <6>2, OwnSleep, ZenonT(30)
          <6>3. CASE GoesOn(l.kthr[u], w)
            BY <5>1, <5>2, <6>3, OwnSleep, ZenonT(30)
          <6> QED
            BY <5>2, <6>1, <6>2, <6>3, ZenonT(30)
        <5> QED
          BY <5>1, <5>3, ZenonT(30)
      <4>2. CASE u # t
        <5>1. hwt'[u] = hwt[u]
          BY <1>8, <4>2
        <5>2. ThreadInv(l.kthr[u], hwt[u], w)
          BY <2>1, <3>1, <4>2, OtherThread, ZenonT(30)
        <5> QED
          BY <5>1, <5>2, ZenonT(30)
      <4> QED
        BY <4>1, <4>2
    <3> QED
      BY <3>2, <3>3
  <2> QED
    BY <2>2, <2>3
<1>13. QOf(Now)' = p /\ Holds(Now, QOf(Now))' /\ NoneEmpty(Now)'
  BY <1>3, NextQueues
<1>14. (\A u \in KThreads : ThreadInv(kthr[u], hwt[u], Unblocking(u)))'
  BY <1>3, <1>12
<1> QED
  BY <1>1, <1>9, <1>13, <1>14, ZenonT(30) DEF FutexInv

-----------------------------------------------------------------------------
(* What each critical section does.                                        *)

\* Thread u waits for nothing or for a word that has the value it expects, or waits as
\* before.
Kept(x, y) == y.vaddr = x.vaddr /\ y.expected = x.expected

Fresh(y) == y.vaddr = NULL \/ y.expected = memory'[y.vaddr]

Refreshed == \A u \in KThreads : Fresh(kthr'[u]) \/ Kept(kthr[u], kthr'[u])

\* A hardware thread in the lock for a system call: the thread runs, waits nowhere and
\* will not be unblocked later when it is about to wait.
LEMMA InCall ==
    ASSUME FutexInv, NEW t \in KThreads, hwt[t].at = "critical",
           hwt[t].call.op \notin {"TIMEOUT", "SIGNAL"}
    PROVE  /\ IsCall(hwt[t].call) /\ ~kthr[t].blocked /\ kthr[t].vaddr = NULL
           /\ hwt[t].call.op = "WAIT" => ~Unblocking(t)
<1>1. HwInv(hwt[t]) /\ ThreadInv(kthr[t], hwt[t], Unblocking(t)) /\ InLock(hwt[t])
  BY DEF FutexInv, FutexTypeOK, InLock
<1>2. IsCall(hwt[t].call)
  BY <1>1 DEF HwInv
<1> QED
  BY <1>1, <1>2 DEF ThreadInv

\* Threads that only have new links.
LEMMA RelinkStays ==
    ASSUME NEW x, NEW y, Relink(x, y)
    PROVE  Stays(x, y)
BY DEF Relink, Stays

PSleep(t, a) ==
    /\ Refreshed
    /\ t \notin Sleeping /\ Sleeping' = Sleeping \cup {t}
    /\ QOf(Now)' = [QOf(Now) EXCEPT ![a] = Append(@, t)]

LEMMA WaitStep ==
    ASSUME Counting, FutexInv, NEW t \in KThreads, Futex_Wait(t)
    PROVE  FutexInv' /\ hwt[t].call.f \in Addresses /\ PSleep(t, hwt[t].call.f)
<1> DEFINE c == hwt[t].call
           k == Kernel(t)
           q == QOf(Now)
           x == [next |-> NULL, vaddr |-> c.f, expected |-> c.val, timed |-> c.timed,
                 blocked |-> TRUE, result |-> "0"]
           l == Paste([Allocated(k, c.f) EXCEPT !.kthr[t] = x],
                      Futex_findTableEntry(Allocated(k, c.f), c.f), t)
           p == [q EXCEPT ![c.f] = Append(@, t)]
<1>1. hwt[t].at = "critical" /\ c.op = "WAIT" /\ UNCHANGED memory
  BY DEF Futex_Wait, Critical
<1>2. IsCall(c) /\ ~kthr[t].blocked /\ kthr[t].vaddr = NULL /\ ~Unblocking(t)
  BY <1>1, InCall
<1>3. c.f \in Addresses /\ c.val \in Values /\ c.timed \in BOOLEAN
  BY <1>1, <1>2 DEF IsCall
<1>4. x \in ThreadState /\ x.vaddr = c.f /\ x.next = NULL /\ x.blocked
  BY <1>3 DEF ThreadState
<1>5. IsStart(k)
  BY <1>1, Starts
<1>6. Becomes(t, IF Futex_findTableEntry(Allocated(k, c.f), c.f) = 0
                 THEN [Allocated(k, c.f) EXCEPT !.kthr[t] =
                         [Allocated(k, c.f).kthr[t] EXCEPT !.blocked = TRUE, !.result = "0"]]
                 ELSE l)
  BY DEF Futex_Wait
<1> HIDE DEF x, k, q
<1>7. /\ Futex_findTableEntry(Allocated(k, c.f), c.f) # 0 /\ l \in States /\ l.list = k.list
      /\ Holds(l, p) /\ NoneEmpty(l) /\ l.kthr[t] = x
      /\ \A u \in KThreads : u # t => Relink(k.kthr[u], l.kthr[u])
  <2>1. k \in States /\ Holds(k, q) /\ NoneEmpty(k) /\ k.kthr[t].vaddr = NULL
    BY <1>2, <1>5 DEF IsStart, q
  <2>2. IsSleep(k, q, l, t, c.f, x) /\ Futex_findTableEntry(Allocated(k, c.f), c.f) # 0
    BY <1>3, <1>4, <2>1, Sleeps, ZenonT(30)
  <2> HIDE DEF l
  <2> QED
    BY <2>2 DEF IsSleep
<1>8. Becomes(t, l) /\ l.list = <<>> /\ k.kthr = kthr
  BY <1>5, <1>6, <1>7, ZenonT(30) DEF IsStart
<1> HIDE DEF l, c
<1>9. ASSUME NEW u \in KThreads PROVE Effect(t, l, u)
  <2>1. ~Inside(l.list, u)
    BY <1>8 DEF Inside
  <2>2. CASE u = t
    <3>1. FallsAsleep(l.kthr[u], Unblocking(u))
      BY <1>2, <1>3, <1>4, <1>7, <2>2, NullAssumption, ZenonT(30) DEF FallsAsleep
    <3> QED
      BY <2>1, <2>2, <3>1 DEF Effect
  <2>3. CASE u # t
    BY <1>7, <1>8, <2>1, <2>3, RelinkStays, ZenonT(30) DEF Effect
  <2> QED
    BY <2>2, <2>3
<1>10. memory' \in [Addresses -> Values]
  BY <1>1 DEF FutexInv, FutexTypeOK
<1>11. FutexInv' /\ QOf(Now)' = p
  BY <1>1, <1>7, <1>8, <1>9, <1>10, CriticalStep, ZenonT(40)
<1>12. t \notin Sleeping /\ Sleeping' = Sleeping \cup {t}
  <2>1. kthr' = l.kthr
    BY <1>8 DEF Becomes
  <2>2. \A u \in KThreads : u # t => kthr'[u].blocked = kthr[u].blocked
    BY <1>7, <1>8, <2>1 DEF Relink
  <2> QED
    BY <1>2, <1>4, <1>7, <2>1, <2>2, ZenonT(30) DEF Sleeping
<1>13. Refreshed
  <2>1. kthr' = l.kthr
    BY <1>8 DEF Becomes
  <2>2. Fresh(kthr'[t])
    <3>1. memory'[c.f] = c.val
      BY <1>1 DEF Futex_Wait, WouldBlock, c
    <3>2. x.expected = c.val
      BY DEF x
    <3> QED
      BY <1>4, <1>7, <2>1, <3>1, <3>2, ZenonT(30) DEF Fresh
  <2>3. ASSUME NEW u \in KThreads, u # t PROVE Kept(kthr[u], kthr'[u])
    BY <1>7, <1>8, <2>1, <2>3, ZenonT(30) DEF Relink, Kept
  <2> QED
    BY <2>2, <2>3, ZenonT(30) DEF Refreshed
<1> QED
  BY <1>3, <1>11, <1>12, <1>13, ZenonT(30) DEF PSleep, q, c

\* Of the threads, those of the list are woken.
Wakening(l) ==
    \A u \in KThreads :
        IF Inside(l.list, u) THEN Woken(kthr[u], l.kthr[u]) ELSE l.kthr[u] = kthr[u]

LEMMA WokenIs ==
    ASSUME NEW x \in ThreadState, x.vaddr # NULL
    PROVE  Woken(x, WokenThread(x))
<1> DEFINE y == WokenThread(x)
<1>1. y.vaddr = NULL /\ y.blocked = x.blocked /\ y.timed = FALSE /\ y.result = "0"
  BY DEF WokenThread, Awake
<1> QED
  BY <1>1 DEF Woken

LEMMA WakeningMore ==
    ASSUME kthr \in [KThreads -> ThreadState],
           NEW k \in States, NEW q, Holds(k, q), Wakening(k), NEW a \in Addresses,
           NEW n \in 0 .. Len(q[a]), NEW l, IsWake(k, q, l, a, n)
    PROVE  Wakening(l)
<1> DEFINE x == Lead(q[a], n)
<1>1. q[a] \in Seq(KThreads) /\ x \in Seq(KThreads) /\ k.list \in Seq(KThreads)
      /\ \A u : Inside(x, u) => Inside(q[a], u)
  <2>1. q[a] \in Seq(KThreads) /\ Chained(k, a, q[a])
    BY DEF Holds
  <2>2. IsSplit(k, a, q[a], n)
    BY <2>1, Splits
  <2> QED
    BY <2>1, <2>2 DEF IsSplit, States
<1> HIDE DEF x
<1>2. /\ l.list = k.list \o x
      /\ \A u \in KThreads :
            l.kthr[u] = IF Inside(x, u) THEN WokenThread(k.kthr[u]) ELSE k.kthr[u]
  BY DEF IsWake, x
<1>3. ASSUME NEW u \in KThreads
      PROVE  IF Inside(l.list, u) THEN Woken(kthr[u], l.kthr[u]) ELSE l.kthr[u] = kthr[u]
  <2>1. Inside(l.list, u) <=> Inside(k.list, u) \/ Inside(x, u)
    BY <1>1, <1>2, InsideBoth
  <2>2. Inside(x, u) => k.kthr[u].vaddr = a
    BY <1>1, QueueOf
  <2>3. Inside(k.list, u) => k.kthr[u].vaddr = NULL /\ Woken(kthr[u], k.kthr[u])
    BY DEF Wakening, Woken
  <2>4. ~Inside(k.list, u) => k.kthr[u] = kthr[u]
    BY DEF Wakening
  <2>5. CASE Inside(x, u)
    <3>1. ~Inside(k.list, u) /\ k.kthr[u] = kthr[u] /\ kthr[u].vaddr # NULL
      BY <2>2, <2>3, <2>4, <2>5, NullAssumption, ZenonT(30)
    <3>2. Woken(kthr[u], WokenThread(kthr[u]))
      BY <3>1, WokenIs
    <3> QED
      BY <1>2, <2>1, <2>5, <3>1, <3>2, ZenonT(30)
  <2>6. CASE ~Inside(x, u)
    BY <1>2, <2>1, <2>3, <2>4, <2>6, ZenonT(30)
  <2> QED
    BY <2>5, <2>6
<1> QED
  BY <1>3 DEF Wakening

\* A critical section that only wakes threads.
LEMMA WakingStep ==
    ASSUME Counting, FutexInv, NEW t \in KThreads, hwt[t].at = "critical",
           NEW l \in States, NEW p, Holds(l, p), NoneEmpty(l), Becomes(t, l),
           memory' \in [Addresses -> Values], Wakening(l)
    PROVE  FutexInv' /\ QOf(Now)' = p /\ Sleeping' = Sleeping /\ Refreshed
<1>1. ASSUME NEW u \in KThreads PROVE Effect(t, l, u) /\ l.kthr[u].blocked = kthr[u].blocked
  <2>1. CASE Inside(l.list, u)
    BY <2>1 DEF Wakening, Effect, Woken
  <2>2. CASE ~Inside(l.list, u)
    BY <2>2 DEF Wakening, Effect, Stays
  <2> QED
    BY <2>1, <2>2
<1>2. FutexInv' /\ QOf(Now)' = p
  BY <1>1, CriticalStep, ZenonT(40)
<1>3. kthr' = l.kthr
  BY DEF Becomes
<1>4. Sleeping' = Sleeping
  BY <1>1, <1>3 DEF Sleeping
<1>5. ASSUME NEW u \in KThreads PROVE Fresh(kthr'[u]) \/ Kept(kthr[u], kthr'[u])
  BY <1>3 DEF Wakening, Woken, Fresh, Kept
<1> QED
  BY <1>2, <1>4, <1>5, ZenonT(30) DEF Refreshed

PWake(a, n) ==
    /\ Refreshed
    /\ n \in 0 .. Len(QOf(Now)[a]) /\ Sleeping' = Sleeping
    /\ QOf(Now)' = [QOf(Now) EXCEPT ![a] = Rest(@, n)]

LEMMA StartWakening ==
    ASSUME NEW k, IsStart(k)
    PROVE  Wakening(k)
BY DEF IsStart, Wakening, Inside

LEMMA WakeStep ==
    ASSUME Counting, FutexInv, NEW t \in KThreads, Futex_Wake(t)
    PROVE  /\ FutexInv' /\ hwt[t].call.f \in Addresses
           /\ PWake(hwt[t].call.f, Taking(QOf(Now)[hwt[t].call.f], hwt[t].call.n))
<1> DEFINE c == hwt[t].call
           k == Kernel(t)
           q == QOf(Now)
           l == Futex_WakeQueue(k, Futex_findTableEntry(k, c.f), c.n, 0)
           n == Taking(q[c.f], c.n)
           p == [q EXCEPT ![c.f] = Rest(@, n)]
<1>1. hwt[t].at = "critical" /\ c.op = "WAKE" /\ UNCHANGED memory /\ Becomes(t, l)
  BY DEF Futex_Wake, Critical
<1>2. c.f \in Addresses /\ c.n \in Nat
  BY <1>1, InCall DEF IsCall
<1>3. IsStart(k)
  BY <1>1, Starts
<1> HIDE DEF k, q
<1>4. k \in States /\ Holds(k, q) /\ NoneEmpty(k) /\ Wakening(k)
  BY <1>3, StartWakening DEF IsStart, q
<1>5. n \in 0 .. Len(q[c.f]) /\ IsWake(k, q, l, c.f, n)
  BY <1>2, <1>4, Wakes, ZenonT(30)
<1> HIDE DEF l, n, c
<1>6. Wakening(l)
  BY <1>2, <1>4, <1>5, WakeningMore, ZenonT(30) DEF FutexInv, FutexTypeOK
<1>7. l \in States /\ Holds(l, p) /\ NoneEmpty(l)
  BY <1>5 DEF IsWake
<1>8. memory' \in [Addresses -> Values]
  BY <1>1 DEF FutexInv, FutexTypeOK
<1>9. FutexInv' /\ QOf(Now)' = p /\ Sleeping' = Sleeping /\ Refreshed
  BY <1>1, <1>6, <1>7, <1>8, WakingStep, ZenonT(30)
<1>10. PWake(c.f, n)
  BY <1>5, <1>9 DEF PWake, q
<1> QED
  BY <1>2, <1>9, <1>10 DEF n, q, c

\* Two wakes in one critical section.
PWakeTwice(a, n, b, m) ==
    /\ Refreshed
    /\ n \in 0 .. Len(QOf(Now)[a]) /\ m \in 0 .. Len(QOf(Now)[b]) /\ Sleeping' = Sleeping
    /\ QOf(Now)' = [[QOf(Now) EXCEPT ![a] = Rest(@, n)] EXCEPT ![b] = Rest(@, m)]

LEMMA RestShorter ==
    ASSUME NEW q \in [Addresses -> Seq(KThreads)], NEW a \in Addresses, NEW b \in Addresses,
           NEW n \in 0 .. Len(q[a]), NEW m \in 0 .. Len([q EXCEPT ![a] = Rest(@, n)][b])
    PROVE  m \in 0 .. Len(q[b])
<1>1. q[a] \in Seq(KThreads) /\ Len(q[a]) \in Nat /\ Len(q[b]) \in Nat
  OBVIOUS
<1>2. CASE a # b
  BY <1>2
<1>3. CASE a = b
  <2>1. [q EXCEPT ![a] = Rest(@, n)][b] = Rest(q[a], n)
    BY <1>3
  <2>2. Len(Rest(q[a], n)) = Len(q[a]) - n
    BY <1>1 DEF Rest
  <2> QED
    BY <1>1, <1>3, <2>1, <2>2
<1> QED
  BY <1>2, <1>3

LEMMA WakeOpStep ==
    ASSUME Counting, FutexInv, NEW t \in KThreads, Futex_WakeOp(t)
    PROVE  /\ FutexInv'
           /\ hwt[t].call.f \in Addresses /\ hwt[t].call.g \in Addresses
           /\ LET c == hwt[t].call
                  n == Taking(QOf(Now)[c.f], c.n)
                  p == [QOf(Now) EXCEPT ![c.f] = Rest(@, n)]
              IN  IF memory[c.g] \notin c.cmp THEN PWake(c.f, n)
                  ELSE PWakeTwice(c.f, n, c.g, Taking(p[c.g], c.m))
<1> DEFINE c == hwt[t].call
           k == Kernel(t)
           q == QOf(Now)
           l == Futex_WakeQueue(k, Futex_findTableEntry(k, c.f), c.n, 0)
           n == Taking(q[c.f], c.n)
           p == [q EXCEPT ![c.f] = Rest(@, n)]
           l2 == Futex_WakeQueue(l, Futex_findTableEntry(l, c.g), c.m, 0)
           m == Taking(p[c.g], c.m)
           p2 == [p EXCEPT ![c.g] = Rest(@, m)]
<1>1. hwt[t].at = "critical" /\ c.op = "WAKE_OP" /\ memory' = [memory EXCEPT ![c.g] = c.new[@]]
      /\ Becomes(t, IF memory[c.g] \notin c.cmp THEN l ELSE l2)
  BY ZenonT(30) DEF Futex_WakeOp, Critical
<1>2. /\ c.f \in Addresses /\ c.n \in Nat /\ c.g \in Addresses /\ c.m \in Nat
      /\ c.new \in [Values -> Values]
  BY <1>1, InCall, ZenonT(30) DEF IsCall
<1>3. IsStart(k)
  BY <1>1, Starts, ZenonT(30)
<1> HIDE DEF k, q
<1>4. k \in States /\ Holds(k, q) /\ NoneEmpty(k) /\ Wakening(k)
  BY <1>3, StartWakening DEF IsStart, q
<1>5. n \in 0 .. Len(q[c.f]) /\ IsWake(k, q, l, c.f, n)
  BY <1>2, <1>4, Wakes, ZenonT(30)
<1>6. memory' \in [Addresses -> Values] /\ kthr \in [KThreads -> ThreadState]
  BY <1>1, <1>2, ZenonT(30) DEF FutexInv, FutexTypeOK
<1> HIDE DEF l, n, c
<1>7. l \in States /\ Holds(l, p) /\ NoneEmpty(l) /\ Wakening(l)
  <2>1. Wakening(l)
    BY <1>2, <1>4, <1>5, <1>6, WakeningMore, ZenonT(30)
  <2> QED
    BY <1>5, <2>1, ZenonT(30) DEF IsWake
<1>8. CASE memory[c.g] \notin c.cmp
  <2>1. Becomes(t, l)
    BY <1>1, <1>8
  <2> HIDE DEF l2
  <2>2. FutexInv' /\ QOf(Now)' = p /\ Sleeping' = Sleeping /\ Refreshed
    BY <1>1, <1>6, <1>7, <2>1, WakingStep, ZenonT(30)
  <2>3. PWake(c.f, n)
    BY <1>5, <2>2 DEF PWake, q
  <2> QED
    BY <1>2, <1>8, <2>2, <2>3, ZenonT(30) DEF n, q, c
<1>9. CASE memory[c.g] \in c.cmp
  <2>1. Becomes(t, l2)
    BY <1>1, <1>9
  <2> HIDE DEF p
  <2>2. m \in 0 .. Len(p[c.g]) /\ IsWake(l, p, l2, c.g, m)
    BY <1>2, <1>7, Wakes, ZenonT(30)
  <2> HIDE DEF m, l2
  <2>3. l2 \in States /\ Holds(l2, p2) /\ NoneEmpty(l2) /\ Wakening(l2)
    <3>1. Wakening(l2)
      BY <1>2, <1>6, <1>7, <2>2, WakeningMore, ZenonT(30)
    <3> QED
      BY <2>2, <3>1 DEF IsWake
  <2> HIDE DEF p2
  <2>4. FutexInv' /\ QOf(Now)' = p2 /\ Sleeping' = Sleeping /\ Refreshed
    BY <1>1, <1>6, <2>1, <2>3, WakingStep, ZenonT(30)
  <2>5. m \in 0 .. Len(q[c.g])
    BY <1>2, <1>4, <1>5, <2>2, RestShorter, ZenonT(30) DEF Holds, p
  <2>6. PWakeTwice(c.f, n, c.g, m)
    BY <1>5, <2>4, <2>5, ZenonT(30) DEF PWakeTwice, q, p, p2
  <2> QED
    BY <1>2, <1>9, <2>4, <2>6, ZenonT(30) DEF m, p, n, q, c
<1> QED
  BY <1>8, <1>9, ZenonT(30)

PRequeue(a, n, b) ==
    /\ Refreshed
    /\ a # b /\ n \in 0 .. Len(QOf(Now)[a]) /\ Sleeping' = Sleeping
    /\ QOf(Now)' = [QOf(Now) EXCEPT ![a] = <<>>, ![b] = @ \o Rest(QOf(Now)[a], n)]

Idle == Refreshed /\ QOf(Now)' = QOf(Now) /\ Sleeping' = Sleeping

LEMMA MovedStays ==
    ASSUME NEW x \in ThreadState, x.vaddr # NULL, NEW b \in Addresses, NEW y,
           Relink(Moved(x, b), y)
    PROVE  Stays(x, y) /\ y.expected = memory[y.vaddr]
<1>1. /\ Moved(x, b).vaddr = b /\ Moved(x, b).blocked = x.blocked
      /\ Moved(x, b).expected = memory[b]
      /\ Moved(x, b).timed = x.timed /\ Moved(x, b).result = x.result
  BY DEF Moved, ThreadState
<1> QED
  BY <1>1, NullAssumption DEF Relink, Stays

LEMMA RequeueEffect ==
    ASSUME NEW k \in States, k.kthr = kthr, k.list = <<>>, NEW q, Holds(k, q),
           NEW a \in Addresses, NEW b \in Addresses, NEW n \in 0 .. Len(q[a]),
           NEW l, IsRequeue(k, q, l, a, n, b), NEW t \in KThreads, NEW u \in KThreads
    PROVE  /\ Effect(t, l, u) /\ l.kthr[u].blocked = kthr[u].blocked
           /\ \/ l.kthr[u].vaddr = NULL \/ l.kthr[u].expected = memory[l.kthr[u].vaddr]
              \/ Kept(kthr[u], l.kthr[u])
<1> DEFINE x == Lead(q[a], n)
           y == Rest(q[a], n)
<1>1. q[a] \in Seq(KThreads) /\ x \in Seq(KThreads)
      /\ (Inside(x, u) => Inside(q[a], u)) /\ (Inside(y, u) => Inside(q[a], u))
      /\ ~(Inside(x, u) /\ Inside(y, u))
  <2>1. q[a] \in Seq(KThreads) /\ Chained(k, a, q[a])
    BY DEF Holds
  <2>2. IsSplit(k, a, q[a], n)
    BY <2>1, Splits
  <2> QED
    BY <2>1, <2>2 DEF IsSplit
<1> HIDE DEF x, y
<1>2. /\ l.list = x
      /\ CASE Inside(x, u) -> l.kthr[u] = WokenThread(kthr[u])
           [] Inside(y, u) -> Relink(Moved(kthr[u], b), l.kthr[u])
           [] OTHER -> Relink(kthr[u], l.kthr[u])
  <2>1. l.list = <<>> \o x
    BY DEF IsRequeue, x
  <2> QED
    BY <1>1, <2>1 DEF IsRequeue, x, y
<1>3. kthr[u] \in ThreadState /\ (Inside(q[a], u) => kthr[u].vaddr # NULL)
  <2>1. Inside(q[a], u) => kthr[u].vaddr = a
    BY QueueOf
  <2> QED
    BY <2>1, NullAssumption DEF States
<1>4. CASE Inside(x, u)
  <2>1. Woken(kthr[u], l.kthr[u])
    BY <1>1, <1>2, <1>3, <1>4, WokenIs
  <2> QED
    BY <1>2, <1>4, <2>1 DEF Effect, Woken
<1>5. CASE ~Inside(x, u)
  <2>1. /\ Stays(kthr[u], l.kthr[u])
        /\ \/ l.kthr[u].expected = memory[l.kthr[u].vaddr]
           \/ Kept(kthr[u], l.kthr[u])
    <3>1. CASE Inside(y, u)
      BY <1>1, <1>2, <1>3, <1>5, <3>1, MovedStays, ZenonT(30)
    <3>2. CASE ~Inside(y, u)
      BY <1>2, <1>5, <3>2, RelinkStays, ZenonT(30) DEF Relink, Kept
    <3> QED
      BY <3>1, <3>2
  <2> QED
    BY <1>2, <1>5, <2>1, ZenonT(30) DEF Effect, Stays
<1> QED
  BY <1>4, <1>5, ZenonT(30)

\* The entry of the second futex is found or allocated.
IsSecond(k, q, r, i, j, a, b) ==
    /\ r \in States /\ r.kthr = k.kthr /\ r.list = k.list /\ Holds(r, q)
    /\ j \in 1 .. NumFutex /\ r.table[j].vaddr = b /\ FreedBut(r, {j})
    /\ i # 0 => i \in 1 .. NumFutex /\ r.table[i].vaddr = a

LEMMA SecondEntry ==
    ASSUME Counting, NEW k \in States, NEW q, Holds(k, q), NoneEmpty(k),
           NEW t \in KThreads, k.kthr[t].vaddr = NULL,
           NEW a \in Addresses, NEW b \in Addresses
    PROVE  IsSecond(k, q, Allocated(k, b), Futex_findTableEntry(k, a),
                    Futex_findTableEntry(Allocated(k, b), b), a, b)
<1> DEFINE r == Allocated(k, b)
           i == Futex_findTableEntry(k, a)
           j == Futex_findTableEntry(r, b)
<1>1. /\ r \in States /\ r.kthr = k.kthr /\ r.list = k.list /\ Holds(r, q)
      /\ j \in 1 .. NumFutex /\ r.table[j].vaddr = b
      /\ \A f \in 1 .. NumFutex : f # j => r.table[f] = k.table[f]
      /\ \A f \in 1 .. NumFutex : k.table[f].vaddr # NULL => r.table[f] = k.table[f]
  BY AllocatedEntry, ZenonT(30)
<1>2. i # 0 => i \in 1 .. NumFutex /\ k.table[i].vaddr = a
  BY Found
<1> HIDE DEF r, i, j
<1>3. FreedBut(r, {j})
  BY <1>1 DEF FreedBut, NoneEmpty
<1>4. i # 0 => r.table[i].vaddr = a
  BY <1>1, <1>2, NullAssumption
<1> QED
  BY <1>1, <1>2, <1>3, <1>4, ZenonT(30) DEF IsSecond, r, i, j

LEMMA RequeueStep ==
    ASSUME Counting, FutexInv, NEW t \in KThreads, Futex_Requeue(t)
    PROVE  FutexInv' /\ (Idle \/ \E a, b \in Addresses : \E n : PRequeue(a, n, b))
<1> DEFINE c == hwt[t].call
           k == Kernel(t)
           q == QOf(Now)
           i == Futex_findTableEntry(k, c.f)
           r == Allocated(k, c.g)
           j == Futex_findTableEntry(r, c.g)
           l == Futex_WakeQueue(r, i, c.n, j)
           n == Taking(q[c.f], c.n)
           p == [q EXCEPT ![c.f] = <<>>, ![c.g] = @ \o Rest(q[c.f], n)]
<1>1. hwt[t].at = "critical" /\ c.op \in {"REQUEUE", "CMP_REQUEUE"} /\ UNCHANGED memory
      /\ Becomes(t, IF i = 0 \/ j = 0 THEN k ELSE l)
  BY DEF Futex_Requeue, Critical
<1>2. c.f \in Addresses /\ c.n \in Nat /\ c.g \in Addresses /\ c.f # c.g /\ kthr[t].vaddr = NULL
  BY <1>1, InCall DEF IsCall
<1>3. IsStart(k)
  BY <1>1, Starts
<1>4. memory' \in [Addresses -> Values] /\ memory[c.g] \in Values
      /\ kthr \in [KThreads -> ThreadState]
  BY <1>1, <1>2 DEF FutexInv, FutexTypeOK
<1> HIDE DEF k, q, c
<1>5. k \in States /\ Holds(k, q) /\ NoneEmpty(k) /\ Wakening(k) /\ k.kthr = kthr
      /\ k.list = <<>>
  BY <1>3, StartWakening DEF IsStart, q
<1>6. IsSecond(k, q, r, i, j, c.f, c.g)
  BY <1>2, <1>5, SecondEntry, ZenonT(30)
<1> HIDE DEF i, j, r
<1>7. CASE i = 0
  <2>1. Becomes(t, k)
    BY <1>1, <1>7
  <2> HIDE DEF l, n
  <2>2. FutexInv' /\ QOf(Now)' = q /\ Sleeping' = Sleeping /\ Refreshed
    BY <1>1, <1>4, <1>5, <2>1, WakingStep, ZenonT(30)
  <2> QED
    BY <2>2 DEF Idle, q
<1>8. CASE i # 0
  <2>1. /\ r \in States /\ r.kthr = kthr /\ r.list = <<>> /\ Holds(r, q)
        /\ j \in 1 .. NumFutex /\ r.table[j].vaddr = c.g /\ FreedBut(r, {j})
        /\ i \in 1 .. NumFutex /\ r.table[i].vaddr = c.f
    BY <1>5, <1>6, <1>8, ZenonT(30) DEF IsSecond
  <2>2. n \in 0 .. Len(q[c.f]) /\ IsRequeue(r, q, l, c.f, n, c.g)
    BY <1>2, <1>4, <2>1, Requeues, ZenonT(40)
  <2>3. Becomes(t, l)
    BY <1>1, <1>8, <2>1
  <2> HIDE DEF l, n
  <2>4. \A u \in KThreads :
            /\ Effect(t, l, u) /\ l.kthr[u].blocked = kthr[u].blocked
            /\ \/ l.kthr[u].vaddr = NULL \/ l.kthr[u].expected = memory[l.kthr[u].vaddr]
               \/ Kept(kthr[u], l.kthr[u])
    BY <1>2, <2>1, <2>2, RequeueEffect, SMTT(30)
  <2>5. l \in States /\ Holds(l, p) /\ NoneEmpty(l)
    BY <2>2 DEF IsRequeue
  <2> HIDE DEF p
  <2>6. FutexInv' /\ QOf(Now)' = p
    BY <1>1, <1>4, <2>3, <2>4, <2>5, CriticalStep, ZenonT(30)
  <2>7. Sleeping' = Sleeping /\ Refreshed
    <3>1. kthr' = l.kthr
      BY <2>3 DEF Becomes
    <3>2. Sleeping' = Sleeping
      BY <2>4, <3>1, ZenonT(30) DEF Sleeping
    <3>3. Refreshed
      BY <1>1, <2>4, <3>1, ZenonT(30) DEF Refreshed, Fresh
    <3> QED
      BY <3>2, <3>3, ZenonT(30)
  <2>8. PRequeue(c.f, n, c.g)
    BY <1>2, <2>2, <2>6, <2>7, ZenonT(30) DEF PRequeue, p, q
  <2> QED
    BY <1>2, <2>6, <2>8, ZenonT(30)
<1> QED
  BY <1>7, <1>8

-----------------------------------------------------------------------------
(* Timeouts and signals.                                                   *)

PLeave(t, a) ==
    /\ Refreshed
    /\ t \in Sleeping /\ Sleeping' = Sleeping \ {t}
    /\ \E i \in 1 .. Len(QOf(Now)[a]) :
        QOf(Now)[a][i] = t /\ QOf(Now)' = [QOf(Now) EXCEPT ![a] = Cut(@, i)]

PRun(t) ==
    /\ Refreshed
    /\ t \in Sleeping /\ kthr[t].vaddr = NULL /\ Sleeping' = Sleeping \ {t}
    /\ QOf(Now)' = QOf(Now)

LEMMA LeaveStep ==
    ASSUME Counting, FutexInv, NEW t \in KThreads, hwt[t].at = "critical",
           hwt[t].call.op \in {"TIMEOUT", "SIGNAL"}, UNCHANGED memory,
           NEW r \in Results, r = "ETIMEDOUT" => kthr[t].vaddr # NULL,
           Becomes(t, WokenUp(Ended(Removed(Kernel(t), t), {t}, r), t))
    PROVE  FutexInv' /\ (PRun(t) \/ \E a \in Addresses : PLeave(t, a))
<1> DEFINE k == Kernel(t)
           q == QOf(Now)
           l == WokenUp(Ended(Removed(k, t), {t}, r), t)
           a == kthr[t].vaddr
<1>1. IsStart(k)
  BY Starts
<1>2. HwInv(hwt[t]) /\ ThreadInv(kthr[t], hwt[t], Unblocking(t)) /\ InLock(hwt[t])
      /\ kthr[t] \in ThreadState /\ memory' \in [Addresses -> Values]
  BY DEF FutexInv, FutexTypeOK, InLock
<1>3. ~IsCall(hwt[t].call)
  BY DEF IsCall
<1>4. kthr[t].blocked /\ (r = "ETIMEDOUT" => ~Unblocking(t))
  BY <1>2, <1>3, ZenonT(30) DEF ThreadInv
<1> HIDE DEF k, q
<1>5. k \in States /\ Holds(k, q) /\ NoneEmpty(k) /\ k.kthr = kthr /\ k.list = <<>>
  BY <1>1 DEF IsStart, q
<1>6. IsLeave(k, q, l, t, r)
  BY <1>5, LeavesQueue, ZenonT(30)
<1>7. Becomes(t, l)
  BY DEF k
<1> HIDE DEF l
<1>8. /\ l \in States /\ l.list = <<>> /\ NoneEmpty(l) /\ IsFinished(l.kthr[t], r)
      /\ \A u \in KThreads : u # t => Relink(kthr[u], l.kthr[u])
  BY <1>5, <1>6 DEF IsLeave
<1>9. ASSUME NEW u \in KThreads PROVE Effect(t, l, u)
  <2>1. ~Inside(l.list, u)
    BY <1>8 DEF Inside
  <2>2. CASE u = t
    <3>1. GoesOn(l.kthr[u], Unblocking(u))
      BY <1>4, <1>8, <2>2 DEF GoesOn, IsFinished
    <3> QED
      BY <2>1, <2>2, <3>1 DEF Effect
  <2>3. CASE u # t
    BY <1>8, <2>1, <2>3, RelinkStays, ZenonT(30) DEF Effect
  <2> QED
    BY <2>2, <2>3, ZenonT(30)
<1>10. t \in Sleeping /\ Sleeping' = Sleeping \ {t}
  <2>1. kthr' = l.kthr
    BY <1>7 DEF Becomes
  <2>2. \A u \in KThreads : u # t => kthr'[u].blocked = kthr[u].blocked
    BY <1>8, <2>1 DEF Relink
  <2> QED
    BY <1>4, <1>8, <2>1, <2>2, ZenonT(30) DEF Sleeping, IsFinished
<1>13. Refreshed
  <2>1. kthr' = l.kthr
    BY <1>7 DEF Becomes
  <2> QED
    BY <1>8, <2>1, ZenonT(30) DEF Refreshed, Fresh, Kept, Relink, IsFinished
<1>11. CASE a = NULL
  <2>1. Holds(l, q)
    BY <1>5, <1>6, <1>11 DEF IsLeave
  <2>2. FutexInv' /\ QOf(Now)' = q
    BY <1>2, <1>7, <1>8, <1>9, <2>1, CriticalStep, ZenonT(30)
  <2> QED
    BY <1>10, <1>11, <1>13, <2>2, ZenonT(30) DEF PRun, q
<1>12. CASE a # NULL
  <2>1. a \in Addresses
    BY <1>2, <1>12 DEF ThreadState
  <2>2. PICK m \in 1 .. Len(q[a]) : q[a][m] = t /\ Holds(l, [q EXCEPT ![a] = Cut(@, m)])
    BY <1>5, <1>6, <1>12, ZenonT(30) DEF IsLeave
  <2> DEFINE p == [q EXCEPT ![a] = Cut(@, m)]
  <2>3. Holds(l, p)
    BY <2>2
  <2> HIDE DEF p
  <2>4. FutexInv' /\ QOf(Now)' = p
    BY <1>2, <1>7, <1>8, <1>9, <2>3, CriticalStep, ZenonT(30)
  <2>5. PLeave(t, a)
    BY <1>10, <1>13, <2>2, <2>4, ZenonT(30) DEF PLeave, p, q
  <2> QED
    BY <2>1, <2>4, <2>5, ZenonT(30)
<1> QED
  BY <1>11, <1>12

-----------------------------------------------------------------------------
(* The steps that leave the queues alone.                                  *)

\* Links, addresses and the table stay as they are.
LEMMA QuietStep ==
    ASSUME Counting, FutexInv, LockInv', memory' \in [Addresses -> Values], table' = table,
           kthr' \in [KThreads -> ThreadState],
           \A u \in KThreads : kthr'[u].vaddr = kthr[u].vaddr /\ kthr'[u].next = kthr[u].next,
           hwt' \in [KThreads -> HwThread], \A u \in KThreads : HwInv(hwt'[u]),
           \A u \in KThreads : ThreadInv(kthr'[u], hwt'[u], Unblocking(u)')
    PROVE  FutexInv' /\ QOf(Now)' = QOf(Now)
<1> DEFINE n == [table |-> table, kthr |-> kthr']
<1>1. n.table = table' /\ n.kthr = kthr' /\ n.table = Now.table
      /\ \A u \in KThreads : /\ n.kthr[u].vaddr = Now.kthr[u].vaddr
                             /\ n.kthr[u].next = Now.kthr[u].next
  BY DEF Now
<1> HIDE DEF n
<1>2. Holds(Now, QOf(Now)) /\ NoneEmpty(Now)
  BY DEF FutexInv
<1>3. Holds(n, QOf(Now))
  BY <1>1, <1>2, SameQueues
<1>4. NoneEmpty(n)
  BY <1>1, <1>2 DEF NoneEmpty
<1>5. QOf(Now)' = QOf(Now) /\ Holds(Now, QOf(Now))' /\ NoneEmpty(Now)'
  BY <1>1, <1>3, <1>4, NextQueues
<1>6. FutexTypeOK'
  BY DEF FutexTypeOK, FutexInv
<1> QED
  BY <1>5, <1>6, ZenonT(30) DEF FutexInv

\* A hardware thread that has nothing to unblock goes elsewhere.
IsMove(t, h, y) ==
    /\ UNCHANGED <<table, ipi>> /\ memory' \in [Addresses -> Values]
    /\ hwt' = [hwt EXCEPT ![t] = h] /\ hwt[t].list = <<>>
    /\ h \in HwThread /\ HwInv(h) /\ h.list = <<>>
    /\ kthr' = [kthr EXCEPT ![t] = y] /\ y \in ThreadState
    /\ y.vaddr = kthr[t].vaddr /\ y.next = kthr[t].next /\ y.blocked = kthr[t].blocked
    /\ y.expected = kthr[t].expected
    /\ ThreadInv(y, h, Unblocking(t))

LEMMA MoveStep ==
    ASSUME Counting, FutexInv, LockInv', NEW t \in KThreads, NEW h, NEW y, IsMove(t, h, y)
    PROVE  FutexInv' /\ Idle
<1>1. kthr \in [KThreads -> ThreadState] /\ hwt \in [KThreads -> HwThread]
      /\ \A u \in KThreads : HwInv(hwt[u]) /\ ThreadInv(kthr[u], hwt[u], Unblocking(u))
  BY DEF FutexInv, FutexTypeOK
<1>2. /\ kthr' \in [KThreads -> ThreadState] /\ hwt' \in [KThreads -> HwThread]
      /\ kthr'[t] = y /\ hwt'[t] = h
      /\ \A u \in KThreads : u # t => kthr'[u] = kthr[u] /\ hwt'[u] = hwt[u]
  BY <1>1 DEF IsMove
<1>3. \A u \in KThreads : hwt'[u].list = hwt[u].list
  BY <1>2 DEF IsMove
<1>4. ASSUME NEW u \in KThreads PROVE Unblocking(u)' = Unblocking(u)
  BY <1>3, ZenonT(30) DEF Unblocking, IsMove
<1>5. ASSUME NEW u \in KThreads PROVE ThreadInv(kthr'[u], hwt'[u], Unblocking(u)')
  <2>1. ThreadInv(kthr'[u], hwt'[u], Unblocking(u))
    BY <1>1, <1>2 DEF IsMove
  <2> QED
    BY <1>4, <2>1
<1>6. \A u \in KThreads : /\ kthr'[u].vaddr = kthr[u].vaddr /\ kthr'[u].next = kthr[u].next
                          /\ kthr'[u].blocked = kthr[u].blocked /\ HwInv(hwt'[u])
                          /\ kthr'[u].expected = kthr[u].expected
  BY <1>1, <1>2 DEF IsMove
<1>7. FutexInv' /\ QOf(Now)' = QOf(Now)
  BY <1>2, <1>5, <1>6, QuietStep, ZenonT(30) DEF IsMove
<1> QED
  BY <1>6, <1>7 DEF Idle, Sleeping, Refreshed, Kept

LEMMA HwKnown ==
    ASSUME FutexInv, NEW t \in KThreads
    PROVE  /\ kthr[t] \in ThreadState /\ kthr = [kthr EXCEPT ![t] = kthr[t]]
           /\ hwt[t] \in HwThread /\ HwInv(hwt[t]) /\ Shaped(hwt[t])
           /\ ThreadInv(kthr[t], hwt[t], Unblocking(t)) /\ memory \in [Addresses -> Values]
           /\ LockInv /\ LockTypeOK
<1>1. LockInv /\ LockTypeOK
  BY DEF FutexInv, LockInv
<1>2. Shaped(hwt[t])
  BY <1>1, HwShaped
<1>3. hwt[t] \in HwThread /\ kthr[t] \in ThreadState /\ HwInv(hwt[t])
      /\ memory \in [Addresses -> Values] /\ kthr = [kthr EXCEPT ![t] = kthr[t]]
  BY DEF FutexInv, FutexTypeOK
<1> QED
  BY <1>1, <1>2, <1>3 DEF FutexInv

\* The calls that hardware threads make.
LEMMA KnownCalls ==
    ASSUME NEW t \in KThreads
    PROVE  /\ \A c \in FutexCalls[t] : c \in Calls
           /\ \A s \in Stores[t] : s.call \in Calls
           /\ [op |-> "TIMEOUT"] \in Calls /\ [op |-> "SIGNAL"] \in Calls /\ NULL \in Calls
<1>1. \A c \in FutexCalls[t] : c \in Calls
  BY DEF Calls
<1>2. ASSUME NEW s \in Stores[t] PROVE s.call \in Calls
  <2>1. s.call \in StoreCalls(t)
    BY DEF StoreCalls
  <2>2. s.call \in UNION {StoreCalls(u) : u \in KThreads}
    BY <2>1
  <2> QED
    BY <2>2 DEF Calls
<1>3. [op |-> "TIMEOUT"] \in Calls /\ [op |-> "SIGNAL"] \in Calls /\ NULL \in Calls
  BY DEF Calls
<1> QED
  BY <1>1, <1>2, <1>3, ZenonT(30)

LEMMA InterruptNoCall ==
    ~IsCall([op |-> "TIMEOUT"]) /\ ~IsCall([op |-> "SIGNAL"])
BY DEF IsCall

\* Hardware thread t takes a turn in the lock for c.
LEMMA AcquireMoves ==
    ASSUME Counting, FutexInv, NEW t \in KThreads, hwt[t].at \in {"out", "stored"},
           NEW c \in Calls, Lock_AtomicAcquire(t, c), UNCHANGED <<memory, table, kthr, ipi>>,
           IsCall(c) \/ c \in {[op |-> "TIMEOUT"], [op |-> "SIGNAL"]},
           IsCall(c) <=> ~kthr[t].blocked, c.op = "WAIT" => ~Unblocking(t)
    PROVE  FutexInv' /\ Idle
<1> DEFINE h == [at |-> "spin", call |-> c, turn |-> lock.next, list |-> <<>>]
<1>1. hwt' = [hwt EXCEPT ![t] = h]
  BY DEF Lock_AtomicAcquire
<1>2. h.at = "spin" /\ h.call = c /\ h.list = <<>> /\ lock.next \in Nat
  BY HwKnown DEF LockTypeOK
<1>3. h \in HwThread
  BY <1>2 DEF HwThread, Places
<1> HIDE DEF h
<1>4. HwInv(h)
  BY <1>2 DEF HwInv
<1>5. ThreadInv(kthr[t], hwt[t], Unblocking(t)) /\ hwt[t].list = <<>>
  BY HwKnown DEF HwInv
<1>6. ThreadInv(kthr[t], h, Unblocking(t))
  BY <1>2, <1>5 DEF ThreadInv
<1>7. IsMove(t, h, kthr[t])
  BY <1>1, <1>2, <1>3, <1>4, <1>5, <1>6, HwKnown, ZenonT(30) DEF IsMove
<1>8. LockInv'
  BY HwKnown, Acquires, ZenonT(30) DEF InLock
<1> QED
  BY <1>7, <1>8, MoveStep, ZenonT(30)

\* Hardware thread t leaves the kernel; y is what its thread is then.
LEMMA LeavesMoves ==
    ASSUME Counting, FutexInv, LockInv', NEW t \in KThreads, hwt[t].list = <<>>,
           hwt' = [hwt EXCEPT ![t] = Leaves(hwt[t])], UNCHANGED <<memory, table, ipi>>,
           NEW y \in ThreadState, kthr' = [kthr EXCEPT ![t] = y],
           y.vaddr = kthr[t].vaddr, y.next = kthr[t].next, y.blocked = kthr[t].blocked,
           y.expected = kthr[t].expected,
           y.timed = kthr[t].timed, y.result = "ETIMEDOUT" => ~Unblocking(t)
    PROVE  FutexInv' /\ Idle
<1> DEFINE h == Leaves(hwt[t])
<1>1. Shaped(h) /\ h.at \in {"out", "exited"} /\ h.turn = 0 /\ h.call = NULL /\ h.list = <<>>
  BY Leaving
<1> HIDE DEF h
<1>2. h \in HwThread
  <2>1. h = [at |-> h.at, call |-> NULL, turn |-> 0, list |-> <<>>]
    BY <1>1 DEF Shaped
  <2>2. h.at \in Places /\ NULL \in Calls /\ <<>> \in Seq(KThreads)
    BY <1>1 DEF Places, Calls
  <2> DEFINE a == h.at
  <2> HIDE DEF a
  <2>3. h = [at |-> a, call |-> NULL, turn |-> 0, list |-> <<>>] /\ a \in Places
    BY <2>1, <2>2 DEF a
  <2>4. h \in [at : Places, call : Calls, turn : Nat, list : Seq(KThreads)]
    BY <2>2, <2>3
  <2> QED
    BY <2>4 DEF HwThread
<1>3. HwInv(h) /\ ~InLock(h) /\ h.at # "stored"
  BY <1>1 DEF HwInv, InLock
<1>4. ThreadInv(y, h, Unblocking(t))
  <2>1. ThreadInv(kthr[t], hwt[t], Unblocking(t))
    BY HwKnown
  <2> QED
    BY <1>3, <2>1 DEF ThreadInv
<1>5. IsMove(t, h, y)
  BY <1>1, <1>2, <1>3, <1>4, HwKnown, ZenonT(30) DEF IsMove, h
<1> QED
  BY <1>5, MoveStep, ZenonT(30)

LEMMA WaitFailsStep ==
    ASSUME Counting, FutexInv, NEW t \in KThreads, Futex_WaitFails(t)
    PROVE  FutexInv' /\ Idle
<1> DEFINE y == [kthr[t] EXCEPT !.result = "EWOULDBLOCK"]
<1>1. hwt[t].at = "critical" /\ Fails(t) /\ kthr' = [kthr EXCEPT ![t] = y]
  BY DEF Futex_WaitFails, Critical
<1>2. kthr[t] \in ThreadState /\ HwInv(hwt[t]) /\ LockInv
  BY HwKnown
<1>3. y \in ThreadState /\ y.vaddr = kthr[t].vaddr /\ y.next = kthr[t].next
      /\ y.blocked = kthr[t].blocked /\ y.timed = kthr[t].timed /\ y.result = "EWOULDBLOCK"
      /\ y.expected = kthr[t].expected
  BY <1>2 DEF ThreadState
<1> HIDE DEF y
<1>4. LockInv'
  BY <1>1, <1>2, FailsReleases, ZenonT(30)
<1>5. hwt[t].list = <<>> /\ hwt' = [hwt EXCEPT ![t] = Leaves(hwt[t])]
      /\ UNCHANGED <<memory, table, ipi>>
  BY <1>1, <1>2 DEF HwInv, Fails
<1> QED
  BY <1>1, <1>3, <1>4, <1>5, LeavesMoves, ZenonT(30)

LEMMA RequeueFailsStep ==
    ASSUME Counting, FutexInv, NEW t \in KThreads, RequeueFails(t)
    PROVE  FutexInv' /\ Idle
<1>1. hwt[t].at = "critical" /\ Fails(t) /\ kthr' = kthr
  BY DEF RequeueFails, Critical
<1>2. kthr[t] \in ThreadState /\ HwInv(hwt[t]) /\ LockInv
      /\ ThreadInv(kthr[t], hwt[t], Unblocking(t)) /\ kthr = [kthr EXCEPT ![t] = kthr[t]]
  BY HwKnown
<1>3. LockInv'
  BY <1>1, <1>2, FailsReleases, ZenonT(30)
<1>4. hwt[t].list = <<>> /\ hwt' = [hwt EXCEPT ![t] = Leaves(hwt[t])]
      /\ UNCHANGED <<memory, table, ipi>>
  BY <1>1, <1>2, ZenonT(30) DEF HwInv, Fails
<1>5. kthr[t].result = "ETIMEDOUT" => ~Unblocking(t)
  BY <1>2 DEF ThreadInv
<1> QED
  BY <1>1, <1>2, <1>3, <1>4, <1>5, LeavesMoves, ZenonT(30)

LEMMA TurnStep ==
    ASSUME Counting, FutexInv, NEW t \in KThreads, Turn(t)
    PROVE  FutexInv' /\ Idle
<1> DEFINE h == [hwt[t] EXCEPT !.at = "critical"]
<1>1. /\ hwt' = [hwt EXCEPT ![t] = h] /\ hwt[t].at = "spin"
      /\ UNCHANGED <<memory, table, kthr, lock, ipi, used>>
  BY DEF Turn
<1>2. /\ hwt[t] \in HwThread /\ HwInv(hwt[t]) /\ LockInv
      /\ ThreadInv(kthr[t], hwt[t], Unblocking(t))
  BY HwKnown
<1>3. h \in HwThread /\ h.at = "critical" /\ h.call = hwt[t].call /\ h.list = hwt[t].list
  BY <1>2 DEF HwThread, Places
<1> HIDE DEF h
<1>4. HwInv(h) /\ h.list = <<>>
  BY <1>1, <1>2, <1>3, ZenonT(30) DEF HwInv, InLock
<1>5. ThreadInv(kthr[t], h, Unblocking(t))
  BY <1>1, <1>2, <1>3, ZenonT(30) DEF ThreadInv, InLock
<1>6. IsMove(t, h, kthr[t])
  BY <1>1, <1>3, <1>4, <1>5, HwKnown, ZenonT(30) DEF IsMove
<1>7. LockInv'
  BY <1>2, TurnTakes
<1> QED
  BY <1>6, <1>7, MoveStep, ZenonT(30)

LEMMA StoreStep ==
    ASSUME Counting, FutexInv, LockInv', NEW t \in KThreads, StoreWord(t)
    PROVE  FutexInv' /\ Idle
<1>1. PICK s \in Stores[t] :
        /\ memory' = [memory EXCEPT ![s.f] = s.val]
        /\ hwt' = [hwt EXCEPT ![t] =
                     [at |-> "stored", call |-> s.call, turn |-> 0, list |-> <<>>]]
  BY ZenonT(30) DEF StoreWord
<1>2. s.f \in Addresses /\ s.val \in Values /\ IsCall(s.call) /\ s.call.op = "WAKE"
      /\ s.call \in Calls
  BY CallsAssumption, KnownCalls, ZenonT(30)
<1> DEFINE c == s.call
           h == [at |-> "stored", call |-> c, turn |-> 0, list |-> <<>>]
<1> HIDE DEF c
<1>3. h.at = "stored" /\ h.call = c /\ h.list = <<>> /\ c \in Calls /\ IsCall(c) /\ c.op = "WAKE"
  BY <1>2 DEF c
<1>4. h \in HwThread
  BY <1>3 DEF HwThread, Places
<1>5. hwt' = [hwt EXCEPT ![t] = h]
  BY <1>1 DEF c
<1> HIDE DEF h
<1>6. HwInv(h) /\ ~InLock(h)
  BY <1>3 DEF HwInv, InLock
<1>7. /\ ThreadInv(kthr[t], hwt[t], Unblocking(t)) /\ ~kthr[t].blocked
      /\ hwt[t].list = <<>> /\ UNCHANGED <<table, kthr, ipi>>
      /\ memory \in [Addresses -> Values]
  BY HwKnown DEF HwInv, StoreWord, Runs
<1>8. ThreadInv(kthr[t], h, Unblocking(t))
  BY <1>6, <1>7, ZenonT(30) DEF ThreadInv
<1>9. memory' \in [Addresses -> Values]
  BY <1>1, <1>2, <1>7, ZenonT(30)
<1>10. IsMove(t, h, kthr[t])
  BY <1>3, <1>4, <1>5, <1>6, <1>7, <1>8, <1>9, HwKnown, ZenonT(30) DEF IsMove
<1> QED
  BY <1>10, MoveStep

Used == [calls : Nat, signals : Nat, late : BOOLEAN]

\* A record of the calls says whether an interrupt was late.
LEMMA LateIsSet ==
    ASSUME used \in Used, NEW b, used' = [used EXCEPT !.calls = @ + 1, !.late = @ \/ b]
    PROVE  used' \in Used /\ (used.late \/ b => used'.late)
<1>1. used'.late = (used.late \/ b) /\ used'.calls = used.calls + 1 /\ used'.signals = used.signals
  BY DEF Used
<1>2. used' = [calls |-> used'.calls, signals |-> used'.signals, late |-> used'.late]
  BY DEF Used
<1>3. used.calls \in Nat /\ used.signals \in Nat
  BY DEF Used
<1>4. used.calls + 1 \in Nat
  BY <1>3
<1> QED
  BY <1>1, <1>2, <1>3, <1>4 DEF Used

\* That an interrupt was late stays recorded.
LEMMA LateStays ==
    ASSUME used \in Used, [FNext]_fvars
    PROVE  used' \in Used /\ (used.late => used'.late)
<1>1. ASSUME NEW t \in KThreads, sc_futex(t) PROVE used' \in Used /\ (used.late => used'.late)
  BY <1>1, LateIsSet DEF sc_futex
<1>2. ASSUME NEW t \in KThreads, StoreWord(t) PROVE used' \in Used /\ (used.late => used'.late)
  <2>1. used' = [used EXCEPT !.calls = @ + 1]
    BY <1>2 DEF StoreWord
  <2> QED
    BY <2>1 DEF Used
<1>3. ASSUME NEW t \in KThreads, Signal_Deliver(t)
      PROVE  used' \in Used /\ (used.late => used'.late)
  <2>1. used' = [used EXCEPT !.signals = @ + 1]
    BY <1>3 DEF Signal_Deliver
  <2> QED
    BY <2>1 DEF Used
<1>4. ASSUME NEW t \in KThreads,
             WakeAfterStore(t) \/ IntHandler_UDEC(t) \/ IPI_handler_run_scheduler(t)
      PROVE  used' = used
  BY <1>4 DEF WakeAfterStore, IntHandler_UDEC, IPI_handler_run_scheduler
<1>5. ASSUME NEW t \in KThreads, InKernel(t) PROVE used' = used
  BY <1>5 DEF InKernel, Turn, Futex_WaitFails, Futex_Wait, Futex_Wake, Futex_WakeOp, RequeueFails,
     Futex_Requeue, Futex_CheckTimeout, Futex_Interrupt, IPI_DeliverInterrupt, Fails, Becomes
<1>6. CASE UNCHANGED fvars
  BY <1>6 DEF fvars
<1> QED
  BY <1>1, <1>2, <1>3, <1>4, <1>5, <1>6 DEF FNext

LEMMA AcquireSteps ==
    ASSUME Counting, FutexInv, used \in Used, ~used'.late, NEW t \in KThreads,
           sc_futex(t) \/ WakeAfterStore(t) \/ IntHandler_UDEC(t) \/ Signal_Deliver(t)
    PROVE  FutexInv' /\ Idle
<1>1. /\ HwInv(hwt[t]) /\ ThreadInv(kthr[t], hwt[t], Unblocking(t))
      /\ hwt[t] \in HwThread
  BY HwKnown
<1>2. CASE sc_futex(t)
  <2>1. PICK c \in FutexCalls[t] :
          /\ Lock_AtomicAcquire(t, c)
          /\ used' = [used EXCEPT !.calls = @ + 1,
                                  !.late = @ \/ (c.op = "WAIT" /\ Unblocking(t))]
    BY <1>2 DEF sc_futex
  <2>4. c.op = "WAIT" => ~Unblocking(t)
    BY <2>1, LateIsSet
  <2>2. IsCall(c) /\ c \in Calls
    BY CallsAssumption, KnownCalls
  <2>3. hwt[t].at = "out" /\ ~kthr[t].blocked /\ UNCHANGED <<memory, table, kthr, ipi>>
    BY <1>2 DEF sc_futex, Runs
  <2> QED
    BY <2>1, <2>2, <2>3, <2>4, AcquireMoves, ZenonT(30)
<1>3. CASE WakeAfterStore(t)
  <2> DEFINE c == hwt[t].call
  <2>1. hwt[t].at = "stored" /\ Lock_AtomicAcquire(t, c) /\ UNCHANGED <<memory, table, kthr, ipi>>
    BY <1>3 DEF WakeAfterStore
  <2>2. IsCall(c) /\ c.op = "WAKE" /\ c \in Calls /\ ~kthr[t].blocked
    BY <1>1, <2>1, ZenonT(30) DEF HwInv, HwThread, ThreadInv
  <2> HIDE DEF c
  <2> QED
    BY <2>1, <2>2, AcquireMoves, ZenonT(30)
<1>4. CASE IntHandler_UDEC(t)
  <2> DEFINE c == [op |-> "TIMEOUT"]
  <2>1. hwt[t].at = "out" /\ Lock_AtomicAcquire(t, c) /\ UNCHANGED <<memory, table, kthr, ipi>>
        /\ kthr[t].timed
    BY <1>4 DEF IntHandler_UDEC
  <2>2. ~IsCall(c) /\ c.op = "TIMEOUT" /\ c \in Calls /\ kthr[t].blocked
    BY <1>1, <2>1, InterruptNoCall, KnownCalls, ZenonT(30) DEF ThreadInv
  <2>3. c \in {[op |-> "TIMEOUT"], [op |-> "SIGNAL"]}
    OBVIOUS
  <2> HIDE DEF c
  <2> QED
    BY <2>1, <2>2, <2>3, AcquireMoves, ZenonT(30)
<1>5. CASE Signal_Deliver(t)
  <2> DEFINE c == [op |-> "SIGNAL"]
  <2>1. hwt[t].at = "out" /\ Lock_AtomicAcquire(t, c) /\ UNCHANGED <<memory, table, kthr, ipi>>
        /\ kthr[t].blocked
    BY <1>5 DEF Signal_Deliver
  <2>2. ~IsCall(c) /\ c.op = "SIGNAL" /\ c \in Calls
    BY InterruptNoCall, KnownCalls
  <2>3. c \in {[op |-> "TIMEOUT"], [op |-> "SIGNAL"]}
    OBVIOUS
  <2> HIDE DEF c
  <2> QED
    BY <2>1, <2>2, <2>3, AcquireMoves, ZenonT(30)
<1> QED
  BY <1>2, <1>3, <1>4, <1>5, ZenonT(30)

\* What is left of a list of threads.
LEMMA TailLeft ==
    ASSUME NEW S, NEW s \in Seq(S), s # <<>>
    PROVE  /\ Len(s) # 1 => Tail(s) # <<>>
           /\ Len(s) = 1 => \A u : ~Inside(Tail(s), u) /\ u \notin ThreadsOf(<<>>)
<1>1. Len(s) \in Nat \ {0} /\ Len(Tail(s)) \in Nat /\ Len(Tail(s)) = Len(s) - 1
  BY SMTT(30)
<1>2. Len(s) # 1 => Len(Tail(s)) # 0
  <2>1. \A i, j \in Nat : j = i - 1 /\ i # 1 => j # 0
    BY SMTT(30)
  <2> QED
    BY <1>1, <2>1, ZenonT(30)
<1>3. Len(s) = 1 => 1 .. Len(Tail(s)) = {}
  <2>1. \A j \in Nat : j = 1 - 1 => 1 .. j = {}
    BY SMTT(30)
  <2> QED
    BY <1>1, <2>1, ZenonT(30)
<1>4. DOMAIN <<>> = {} /\ Len(<<>>) = 0
  BY SMTT(30)
<1>5. Len(s) # 1 => Tail(s) # <<>>
  BY <1>2, <1>4, ZenonT(30)
<1> QED
  BY <1>3, <1>4, <1>5 DEF Inside, ThreadsOf

\* A thread is to be unblocked until the interrupt has arrived.
LEMMA DeliverStep ==
    ASSUME Counting, FutexInv, LockInv', NEW t \in KThreads, IPI_DeliverInterrupt(t)
    PROVE  FutexInv' /\ Idle
<1> DEFINE s == hwt[t].list
           x == [hwt[t] EXCEPT !.list = Tail(s)]
           h == IF Len(s) = 1 THEN Leaves(hwt[t]) ELSE x
<1>1. /\ hwt[t].at = "unblocking" /\ ipi' = ipi \cup {<<t, s[1]>>}
      /\ hwt' = [hwt EXCEPT ![t] = h] /\ UNCHANGED <<memory, table, kthr>>
  BY DEF IPI_DeliverInterrupt
<1>2. /\ hwt[t] \in HwThread /\ HwInv(hwt[t]) /\ Shaped(hwt[t])
      /\ ThreadInv(kthr[t], hwt[t], Unblocking(t))
  BY HwKnown
<1>3. s \in Seq(KThreads) /\ s # <<>>
  BY <1>1, <1>2 DEF HwInv, HwThread
<1> HIDE DEF s
<1>4. /\ Len(s) \in Nat /\ Len(s) > 0 /\ s[1] \in KThreads
      /\ Tail(s) \in Seq(KThreads) /\ Len(Tail(s)) = Len(s) - 1
      /\ \A i \in 1 .. Len(s) - 1 : Tail(s)[i] = s[i + 1]
  BY <1>3
<1>5. \A u : Inside(s, u) <=> u = s[1] \/ Inside(Tail(s), u)
  <2>1. ASSUME NEW u, Inside(s, u), u # s[1] PROVE Inside(Tail(s), u)
    <3>1. PICK i \in 1 .. Len(s) : s[i] = u
      BY <2>1 DEF Inside
    <3>2. i # 1 /\ i - 1 \in 1 .. Len(s) - 1 /\ (i - 1) + 1 = i
      BY <1>4, <2>1, <3>1
    <3>3. Tail(s)[i - 1] = u
      BY <1>4, <3>1, <3>2
    <3> QED
      BY <1>4, <3>2, <3>3, ZenonT(30) DEF Inside
  <2>2. ASSUME NEW u, Inside(Tail(s), u) PROVE Inside(s, u)
    BY <1>4, <2>2 DEF Inside
  <2>3. Inside(s, s[1])
    BY <1>4 DEF Inside
  <2> QED
    BY <2>1, <2>2, <2>3
<1>6. /\ h \in HwThread /\ HwInv(h) /\ ~InLock(h) /\ h.at # "stored"
      /\ h.list = IF Len(s) = 1 THEN <<>> ELSE Tail(s)
  <2>1. CASE Len(s) = 1
    <3> DEFINE y == Leaves(hwt[t])
    <3>1. Shaped(y) /\ y.at \in {"out", "exited"} /\ y.turn = 0 /\ y.call = NULL /\ y.list = <<>>
      BY Leaving
    <3> HIDE DEF y
    <3> DEFINE a == y.at
    <3>2. a \in Places /\ NULL \in Calls /\ <<>> \in Seq(KThreads)
          /\ y = [at |-> a, call |-> NULL, turn |-> 0, list |-> <<>>]
      BY <3>1 DEF Places, Calls, Shaped
    <3> HIDE DEF a
    <3>3. y \in [at : Places, call : Calls, turn : Nat, list : Seq(KThreads)]
      BY <3>2
    <3>4. y \in HwThread
      BY <3>3 DEF HwThread
    <3>5. HwInv(y) /\ ~InLock(y) /\ y.at # "stored"
      BY <3>1 DEF HwInv, InLock
    <3>6. h = y
      BY <2>1 DEF y
    <3> HIDE DEF h
    <3> QED
      BY <2>1, <3>1, <3>4, <3>5, <3>6, ZenonT(30)
  <2>2. CASE Len(s) # 1
    <3>1. x \in HwThread /\ x.at = "unblocking" /\ x.list = Tail(s)
      BY <1>1, <1>2, <1>4, ZenonT(30) DEF HwThread
    <3> HIDE DEF x
    <3>2. Tail(s) # <<>>
      BY <1>3, <2>2, TailLeft
    <3>3. HwInv(x) /\ ~InLock(x) /\ x.at # "stored"
      BY <3>1, <3>2 DEF HwInv, InLock
    <3> QED
      BY <2>2, <3>1, <3>3, ZenonT(30)
  <2> QED
    BY <2>1, <2>2
<1> HIDE DEF h
<1>7. /\ hwt \in [KThreads -> HwThread] /\ kthr \in [KThreads -> ThreadState]
      /\ \A u \in KThreads : HwInv(hwt[u]) /\ ThreadInv(kthr[u], hwt[u], Unblocking(u))
      /\ memory \in [Addresses -> Values]
  BY DEF FutexInv, FutexTypeOK
<1>8. /\ hwt' \in [KThreads -> HwThread] /\ hwt'[t] = h
      /\ \A u \in KThreads : u # t => hwt'[u] = hwt[u]
  BY <1>1, <1>6, <1>7
<1>9. ASSUME NEW u \in KThreads PROVE Unblocking(u)' = Unblocking(u)
  <2>1. u \in ThreadsOf(hwt[t].list) <=> u = s[1] \/ Inside(Tail(s), u)
    BY <1>3, <1>5, RangeInside DEF s
  <2>2. u \in ThreadsOf(hwt'[t].list) <=> Inside(Tail(s), u)
    <3>1. CASE Len(s) = 1
      BY <1>3, <1>6, <1>8, <3>1, TailLeft
    <3>2. CASE Len(s) # 1
      BY <1>4, <1>6, <1>8, <3>2, RangeInside, ZenonT(30)
    <3> QED
      BY <3>1, <3>2
  <2>3. \A v \in KThreads :
          v # t => (u \in ThreadsOf(hwt'[v].list) <=> u \in ThreadsOf(hwt[v].list))
    BY <1>8
  <2>4. \A v \in KThreads : <<v, u>> \in ipi' <=> <<v, u>> \in ipi \/ (v = t /\ u = s[1])
    BY <1>1
  <2> QED
    BY <2>1, <2>2, <2>3, <2>4, ZenonT(30) DEF Unblocking
<1>10. ASSUME NEW u \in KThreads PROVE ThreadInv(kthr'[u], hwt'[u], Unblocking(u)')
  <2>1. ThreadInv(kthr[u], hwt'[u], Unblocking(u))
    <3>1. CASE u = t
      BY <1>2, <1>6, <1>8, <3>1, ZenonT(30) DEF ThreadInv
    <3>2. CASE u # t
      BY <1>7, <1>8, <3>2, ZenonT(30)
    <3> QED
      BY <3>1, <3>2
  <2> QED
    BY <1>1, <1>9, <2>1
<1>11. \A u \in KThreads : HwInv(hwt'[u])
  BY <1>6, <1>7, <1>8, ZenonT(30)
<1>12. FutexInv' /\ QOf(Now)' = QOf(Now)
  BY <1>1, <1>7, <1>8, <1>10, <1>11, QuietStep, ZenonT(30)
<1> QED
  BY <1>1, <1>12, ZenonT(30) DEF Idle, Sleeping, Refreshed, Kept

LEMMA HandlerStep ==
    ASSUME Counting, FutexInv, LockInv', NEW t \in KThreads, IPI_handler_run_scheduler(t)
    PROVE  FutexInv' /\ (Idle \/ PRun(t))
<1> DEFINE y == [kthr[t] EXCEPT !.blocked = FALSE]
<1>1. PICK v \in KThreads : <<v, t>> \in ipi /\ ipi' = ipi \ {<<v, t>>}
  BY DEF IPI_handler_run_scheduler
<1>2. /\ hwt[t].at \in {"out", "stored", "exited"} /\ kthr' = [kthr EXCEPT ![t] = y]
      /\ UNCHANGED <<memory, table, hwt>>
  BY DEF IPI_handler_run_scheduler
<1>3. /\ hwt \in [KThreads -> HwThread] /\ kthr \in [KThreads -> ThreadState]
      /\ \A u \in KThreads : HwInv(hwt[u]) /\ ThreadInv(kthr[u], hwt[u], Unblocking(u))
      /\ memory \in [Addresses -> Values]
  BY DEF FutexInv, FutexTypeOK
<1>4. y \in ThreadState /\ y.vaddr = kthr[t].vaddr /\ y.next = kthr[t].next
      /\ y.blocked = FALSE /\ y.timed = kthr[t].timed /\ y.result = kthr[t].result
      /\ y.expected = kthr[t].expected
  BY <1>3, ZenonT(30) DEF ThreadState
<1> HIDE DEF y
<1>5. /\ kthr' \in [KThreads -> ThreadState] /\ kthr'[t] = y
      /\ \A u \in KThreads : u # t => kthr'[u] = kthr[u]
  BY <1>2, <1>3, <1>4, ZenonT(30)
<1>6. Unblocking(t) /\ kthr[t].vaddr = NULL /\ ~kthr[t].timed /\ kthr[t].result # "ETIMEDOUT"
  <2>1. Unblocking(t)
    BY <1>1 DEF Unblocking
  <2> QED
    BY <1>3, <2>1, ZenonT(30) DEF ThreadInv
<1>7. ASSUME NEW u \in KThreads, u # t PROVE Unblocking(u)' = Unblocking(u)
  BY <1>1, <1>2, <1>7, ZenonT(30) DEF Unblocking
<1>8. ASSUME NEW u \in KThreads PROVE ThreadInv(kthr'[u], hwt'[u], Unblocking(u)')
  <2>1. CASE u = t
    <3>1. hwt'[u] = hwt[t] /\ ~InLock(hwt[t])
      BY <1>2, <2>1, ZenonT(30) DEF InLock
    <3> QED
      BY <1>4, <1>5, <1>6, <2>1, <3>1, ZenonT(30) DEF ThreadInv
  <2>2. CASE u # t
    BY <1>2, <1>3, <1>5, <1>7, <2>2, ZenonT(30)
  <2> QED
    BY <2>1, <2>2
<1>9. /\ \A u \in KThreads : kthr'[u].vaddr = kthr[u].vaddr /\ kthr'[u].next = kthr[u].next
      /\ hwt' \in [KThreads -> HwThread] /\ \A u \in KThreads : HwInv(hwt'[u])
  BY <1>2, <1>3, <1>4, <1>5, ZenonT(30)
<1>10. FutexInv' /\ QOf(Now)' = QOf(Now)
  BY <1>2, <1>3, <1>5, <1>8, <1>9, QuietStep, ZenonT(30)
<1>11. Sleeping' = Sleeping \ {t}
  BY <1>4, <1>5, ZenonT(30) DEF Sleeping
<1>12. Refreshed
  BY <1>4, <1>5, ZenonT(30) DEF Refreshed, Kept
<1> QED
  BY <1>6, <1>10, <1>11, <1>12, ZenonT(30) DEF Idle, PRun, Sleeping

\* What a step does to the queues and the sleeping threads.
Promised ==
    \/ Idle
    \/ \E t \in KThreads : PRun(t) \/ \E a \in Addresses : PLeave(t, a) \/ PSleep(t, a)
    \/ \E a, b \in Addresses : \E n, m :
        PWake(a, n) \/ PWakeTwice(a, n, b, m) \/ PRequeue(a, n, b)

LEMMA FutexStep ==
    ASSUME Counting, used \in Used, ~used'.late, FutexInv, [FNext]_fvars
    PROVE  FutexInv' /\ Promised
<1>1. LockInv'
  BY LockStep DEF FutexInv
<1>2. CASE UNCHANGED fvars
  <2>1. UNCHANGED <<memory, table, kthr, hwt, lock, ipi>>
    BY <1>2 DEF fvars
  <2>2. FutexInv' /\ Idle
    BY <1>1, <2>1, ZenonT(30) DEF FutexInv, FutexTypeOK, Now, Unblocking, Idle, Sleeping, Refreshed, Kept
  <2> QED
    BY <2>2 DEF Promised
<1>3. ASSUME NEW t \in KThreads,
             sc_futex(t) \/ WakeAfterStore(t) \/ IntHandler_UDEC(t) \/ Signal_Deliver(t)
      PROVE  FutexInv' /\ Promised
  BY <1>3, AcquireSteps DEF Promised
<1>4. ASSUME NEW t \in KThreads, StoreWord(t) PROVE FutexInv' /\ Promised
  BY <1>1, <1>4, StoreStep, ZenonT(30) DEF Promised
<1>5. ASSUME NEW t \in KThreads, IPI_handler_run_scheduler(t) PROVE FutexInv' /\ Promised
  BY <1>1, <1>5, HandlerStep, ZenonT(30) DEF Promised
<1>6. ASSUME NEW t \in KThreads, IPI_DeliverInterrupt(t) PROVE FutexInv' /\ Promised
  BY <1>1, <1>6, DeliverStep DEF Promised
<1>7. ASSUME NEW t \in KThreads, Turn(t) PROVE FutexInv' /\ Promised
  BY <1>7, TurnStep DEF Promised
<1>8. ASSUME NEW t \in KThreads, Futex_WaitFails(t) PROVE FutexInv' /\ Promised
  BY <1>8, WaitFailsStep, ZenonT(30) DEF Promised
<1>9. ASSUME NEW t \in KThreads, RequeueFails(t) PROVE FutexInv' /\ Promised
  BY <1>9, RequeueFailsStep DEF Promised
<1>10. ASSUME NEW t \in KThreads, Futex_Wait(t) PROVE FutexInv' /\ Promised
  BY <1>10, WaitStep DEF Promised
<1>11. ASSUME NEW t \in KThreads, Futex_Wake(t) PROVE FutexInv' /\ Promised
  BY <1>11, WakeStep, ZenonT(30) DEF Promised
<1>12. ASSUME NEW t \in KThreads, Futex_WakeOp(t) PROVE FutexInv' /\ Promised
  BY <1>12, WakeOpStep, ZenonT(30) DEF Promised
<1>13. ASSUME NEW t \in KThreads, Futex_Requeue(t) PROVE FutexInv' /\ Promised
  BY <1>13, RequeueStep DEF Promised
<1>14. ASSUME NEW t \in KThreads, Futex_CheckTimeout(t) PROVE FutexInv' /\ Promised
  <2>1. hwt[t].at = "critical" /\ hwt[t].call.op = "TIMEOUT" /\ UNCHANGED memory
    BY <1>14 DEF Futex_CheckTimeout, Critical
  <2>2. CASE StillTimed(t)
    <3>1. Becomes(t, WokenUp(Ended(Removed(Kernel(t), t), {t}, "ETIMEDOUT"), t))
      BY <1>14, <2>2, ZenonT(30) DEF Futex_CheckTimeout
    <3>2. kthr[t].vaddr # NULL
      BY <2>2, HwKnown DEF StillTimed, ThreadInv
    <3>3. FutexInv' /\ (PRun(t) \/ \E a \in Addresses : PLeave(t, a))
      BY <2>1, <3>1, <3>2, LeaveStep, ZenonT(30) DEF Results
    <3> QED
      BY <3>3 DEF Promised
  <2>3. CASE ~StillTimed(t)
    <3>1. Becomes(t, Kernel(t)) /\ memory' \in [Addresses -> Values]
      BY <1>14, <2>1, <2>3, HwKnown, ZenonT(30) DEF Futex_CheckTimeout
    <3>2. /\ Kernel(t) \in States /\ Holds(Kernel(t), QOf(Now)) /\ NoneEmpty(Kernel(t))
          /\ Wakening(Kernel(t))
      BY <2>1, Starts, StartWakening, ZenonT(30) DEF IsStart
    <3>3. FutexInv' /\ QOf(Now)' = QOf(Now) /\ Sleeping' = Sleeping /\ Refreshed
      BY <2>1, <3>1, <3>2, WakingStep, ZenonT(30)
    <3> QED
      BY <3>3 DEF Promised, Idle
  <2> QED
    BY <2>2, <2>3
<1>15. ASSUME NEW t \in KThreads, Futex_Interrupt(t) PROVE FutexInv' /\ Promised
  <2>1. /\ hwt[t].at = "critical" /\ hwt[t].call.op = "SIGNAL" /\ UNCHANGED memory
        /\ Becomes(t, WokenUp(Ended(Removed(Kernel(t), t), {t}, "EINTR"), t))
    BY <1>15 DEF Futex_Interrupt, Critical
  <2>2. FutexInv' /\ (PRun(t) \/ \E a \in Addresses : PLeave(t, a))
    BY <2>1, LeaveStep, ZenonT(30) DEF Results
  <2> QED
    BY <2>2 DEF Promised
<1> HIDE DEF Promised
<1> QED
  BY <1>2, <1>3, <1>4, <1>5, <1>6, <1>7, <1>8, <1>9, <1>10, <1>11, <1>12, <1>13, <1>14, <1>15, ZenonT(30)
     DEF FNext, InKernel

-----------------------------------------------------------------------------
(* The initial state, and the queues of the table.                         *)

LEMMA FutexInitially ==
    ASSUME Counting, FInit
    PROVE  FutexInv /\ QOf(Now) = [a \in Addresses |-> <<>>] /\ Sleeping = {}
<1> DEFINE q == [a \in Addresses |-> <<>>]
<1>1. /\ \A t \in KThreads : kthr[t] = Awake /\ hwt[t] = Out
      /\ \A e \in 1 .. NumFutex : table[e] = [vaddr |-> NULL, head |-> NULL]
      /\ ipi = {}
  BY DEF FInit
<1>2. Awake \in ThreadState /\ Awake.vaddr = NULL /\ ~Awake.blocked /\ ~Awake.timed
      /\ Awake.result = "0"
  BY DEF Awake, ThreadState
<1>3. Out \in HwThread /\ Out.at = "out" /\ Out.list = <<>>
  BY DEF Out, HwThread, Places, Calls
<1>4. \A t \in KThreads : HwInv(hwt[t]) /\ ~InLock(hwt[t])
  BY <1>1, <1>3 DEF HwInv, InLock
<1>5. memory \in [Addresses -> Values]
  BY NullAssumption DEF FInit
<1>6. [vaddr |-> NULL, head |-> NULL] \in Entry
  BY DEF Entry
<1>7. FutexTypeOK
  BY <1>2, <1>3, <1>4, <1>5, <1>6, ZenonT(30) DEF FInit, FutexTypeOK
<1>8. \A t \in KThreads : ~Unblocking(t)
  <2>1. \A u \in KThreads : hwt[u].list = <<>>
    BY <1>1, <1>3
  <2> QED
    BY <1>1, <2>1 DEF Unblocking, ThreadsOf
<1>9. \A t \in KThreads : ThreadInv(kthr[t], hwt[t], Unblocking(t))
  BY <1>1, <1>2, <1>3, <1>4, <1>8, ZenonT(30) DEF ThreadInv
<1>10. \A e \in 1 .. NumFutex : Now.table[e].vaddr = NULL /\ Now.table[e].head = NULL
  BY <1>1 DEF Now
<1>11. \A t \in KThreads : Now.kthr[t].vaddr = NULL
  BY <1>1, <1>2 DEF Now
<1>12. Holds(Now, q)
  <2>1. q \in [Addresses -> Seq(KThreads)]
    OBVIOUS
  <2>2. \A a \in Addresses : q[a] = <<>> /\ Len(q[a]) = 0
    OBVIOUS
  <2> HIDE DEF q
  <2>3. \A a \in Addresses : Chained(Now, a, q[a])
    BY <2>2 DEF Chained, Once
  <2>4. \A e \in 1 .. NumFutex : Begins(Now, q, e)
    BY <1>10 DEF Begins
  <2>5. OneEntry(Now)
    BY <1>10 DEF OneEntry
  <2> QED
    BY <1>11, <2>1, <2>2, <2>3, <2>4, <2>5, ZenonT(30) DEF Holds
<1> HIDE DEF q
<1>13. q = QOf(Now)
  BY <1>12, QueuesAre
<1>14. NoneEmpty(Now)
  BY <1>10 DEF NoneEmpty
<1>15. Sleeping = {}
  BY <1>1, <1>2 DEF Sleeping
<1> QED
  BY <1>7, <1>9, <1>12, <1>13, <1>14, <1>15, LockInitially, ZenonT(30) DEF FutexInv, q

LEMMA InQueue ==
    ASSUME Counting, FutexInv, NEW i \in Entries
    PROVE  /\ Queue(i) \in Seq(KThreads)
           /\ table[i].vaddr = NULL => Queue(i) = <<>>
           /\ table[i].vaddr # NULL => Queue(i) = QOf(Now)[table[i].vaddr] /\ Queue(i) # <<>>
           /\ \A t \in KThreads : t \in ThreadsOf(Queue(i)) =>
                kthr[t].vaddr # NULL /\ kthr[t].vaddr = table[i].vaddr
<1> DEFINE q == QOf(Now)
           v == table[i].vaddr
<1>1. Holds(Now, q) /\ NoneEmpty(Now) /\ i \in 1 .. NumFutex
  BY DEF FutexInv, Entries
<1>2. Now.table = table /\ Now.kthr = kthr
  BY DEF Now
<1>3. v = NULL \/ v \in Addresses
  BY <1>1 DEF FutexInv, FutexTypeOK, Entry
<1> HIDE DEF q
<1>4. v = NULL => Queue(i) = <<>>
  BY <1>1, <1>2, EntryWaiters, ZenonT(30) DEF Queue
<1>5. v \in Addresses => Queue(i) = q[v] /\ q[v] \in Seq(KThreads)
  BY <1>1, <1>2, EntryWaiters, ZenonT(30) DEF Queue, Holds
<1>6. v \in Addresses => q[v] # <<>>
  <2>1. v \in Addresses => Now.table[i].head # NULL /\ Now.table[i].head = At(q[v], 1)
    BY <1>1, <1>2, NullAssumption, ZenonT(30) DEF NoneEmpty, Holds, Begins
  <2> QED
    BY <2>1 DEF At
<1>7. ASSUME NEW t \in KThreads, t \in ThreadsOf(Queue(i))
      PROVE  kthr[t].vaddr # NULL /\ kthr[t].vaddr = v
  <2>1. CASE v = NULL
    BY <1>4, <1>7, <2>1 DEF ThreadsOf
  <2>2. CASE v \in Addresses
    <3>1. Inside(q[v], t)
      BY <1>5, <1>7, <2>2, RangeInside
    <3> QED
      BY <1>1, <1>2, <2>2, <3>1, QueueOf, NullAssumption
  <2> QED
    BY <1>3, <2>1, <2>2, ZenonT(30)
<1>8. Queue(i) \in Seq(KThreads)
  <2>1. <<>> \in Seq(KThreads)
    OBVIOUS
  <2> QED
    BY <1>3, <1>4, <1>5, <2>1, ZenonT(30)
<1>9. v # NULL => Queue(i) = QOf(Now)[v] /\ Queue(i) # <<>>
  BY <1>3, <1>5, <1>6, ZenonT(30) DEF q
<1> QED
  BY <1>4, <1>7, <1>8, <1>9, ZenonT(30)

-----------------------------------------------------------------------------
(* The refinement.                                                         *)

LEMMA QueuesOf == Queues = QOf(Now) /\ Queues' = QOf(Now)'
<1>1. Queues = QOf(Now)
  BY DEF Queues, QOf, Queue
<1>2. Queues' = QOf(Now)'
  BY DEF Queues, QOf, Queue
<1> QED
  BY <1>1, <1>2, ZenonT(30)

LEMMA QueuesType ==
    ASSUME FutexInv
    PROVE  Queues \in [Addresses -> Seq(KThreads)]
BY QueuesOf, ZenonT(30) DEF FutexInv, Holds

\* Each disjunct of Promised is a step of FutexQueues.
LEMMA IdlePromised ==
    ASSUME Idle
    PROVE  UNCHANGED Promise!vars
BY QueuesOf DEF Idle, Promise!vars

LEMMA RunPromised ==
    ASSUME FutexInv, NEW t \in KThreads, PRun(t)
    PROVE  Promise!Next
<1>1. t \in Sleeping /\ Sleeping' = Sleeping \ {t} /\ UNCHANGED Queues /\ kthr[t].vaddr = NULL
  BY QueuesOf DEF PRun
<1>2. ASSUME NEW a \in Addresses, t \in ThreadsOf(Queues[a]) PROVE FALSE
  <2>1. Queues[a] \in Seq(KThreads)
    BY QueuesType
  <2>2. Inside(Queues[a], t)
    BY <1>2, <2>1, RangeInside
  <2>3. Holds(Now, Queues) /\ Now.kthr = kthr
    BY QueuesOf, ZenonT(30) DEF FutexInv, Now
  <2> QED
    BY <1>1, <2>2, <2>3, QueueOf, NullAssumption
<1>3. Promise!Run(t)
  BY <1>1, <1>2 DEF Promise!Run, Promise!Queued, ThreadsOf
<1> QED
  BY <1>3 DEF Promise!Next

LEMMA LeavePromised ==
    ASSUME FutexInv, NEW t \in KThreads, NEW a \in Addresses, PLeave(t, a)
    PROVE  Promise!Next
<1>1. PICK i \in 1 .. Len(Queues[a]) :
        Queues[a][i] = t /\ Queues' = [Queues EXCEPT ![a] = Cut(@, i)]
  BY QueuesOf, ZenonT(30) DEF PLeave
<1>2. i \in DOMAIN Queues[a]
  <2>1. Queues[a] \in Seq(KThreads)
    BY QueuesType
  <2> QED
    BY <2>1
<1>3. Promise!Leave(t, a)
  BY <1>1, <1>2, ZenonT(30) DEF PLeave, Promise!Leave, Promise!Without, Cut
<1> QED
  BY <1>3 DEF Promise!Next

LEMMA SleepPromised ==
    ASSUME NEW t \in KThreads, NEW a \in Addresses, PSleep(t, a)
    PROVE  Promise!Next
<1>1. Promise!Sleep(t, a)
  BY QueuesOf DEF PSleep, Promise!Sleep
<1> QED
  BY <1>1 DEF Promise!Next

LEMMA MovePromised ==
    ASSUME Promise!Move, UNCHANGED Sleeping
    PROVE  [Promise!Next]_(Promise!vars)
BY DEF Promise!Next, Promise!vars

LEMMA RequeuePromised ==
    ASSUME NEW a \in Addresses, NEW b \in Addresses, NEW n, PRequeue(a, n, b)
    PROVE  [Promise!Next]_(Promise!vars)
<1>1. a # b /\ n \in 0 .. Len(Queues[a])
  BY QueuesOf DEF PRequeue
<1>2. Promise!Requeue(a, n, b)
  BY QueuesOf DEF PRequeue, Promise!Requeue, Promise!Taken, Rest
<1>3. Promise!Move
  BY <1>1, <1>2, ZenonT(30) DEF Promise!Move
<1> QED
  BY <1>2, <1>3, MovePromised DEF Promise!Requeue

LEMMA WakeTwicePromised ==
    ASSUME NEW a \in Addresses, NEW b \in Addresses, NEW n, NEW m, PWakeTwice(a, n, b, m)
    PROVE  [Promise!Next]_(Promise!vars)
<1>1. n \in 0 .. Len(Queues[a]) /\ m \in 0 .. Len(Queues[b])
  BY QueuesOf DEF PWakeTwice
<1>2. Promise!Wake(a, n, b, m)
  BY QueuesOf DEF PWakeTwice, Promise!Wake, Promise!Taken, Rest
<1>3. Promise!Move
  BY <1>1, <1>2, ZenonT(30) DEF Promise!Move
<1> QED
  BY <1>2, <1>3, MovePromised DEF Promise!Wake

\* A wake of one queue takes no one from the second.
LEMMA WakePromised ==
    ASSUME FutexInv, NEW a \in Addresses, NEW n, PWake(a, n)
    PROVE  [Promise!Next]_(Promise!vars)
<1> DEFINE q == Queues
           p == [q EXCEPT ![a] = Rest(@, n)]
<1>1. n \in 0 .. Len(q[a]) /\ Queues' = p /\ Sleeping' = Sleeping /\ Refreshed
  BY QueuesOf DEF PWake
<1>2. q \in [Addresses -> Seq(KThreads)]
  BY QueuesType
<1> HIDE DEF q
<1>3. q[a] \in Seq(KThreads) /\ Len(q[a]) \in Nat
  BY <1>2
<1>4. Rest(q[a], n) \in Seq(KThreads)
  BY <1>1, <1>3 DEF Rest
<1>5. p \in [Addresses -> Seq(KThreads)]
  BY <1>2, <1>4, ZenonT(30)
<1> HIDE DEF p
<1>6. ASSUME NEW s \in Seq(KThreads) PROVE Rest(s, 0) = s
  BY DEF Rest
<1>7. [p EXCEPT ![a] = Rest(@, 0)] = p
  BY <1>5, <1>6
<1>8. PWakeTwice(a, n, a, 0)
  BY <1>1, <1>3, <1>7, QueuesOf DEF PWakeTwice, q, p
<1> QED
  BY <1>8, WakeTwicePromised, ZenonT(30)

-----------------------------------------------------------------------------
(* No wake is missed.                                                      *)

\* A wake of all who wait on word a is to come.
Covers(h, a) ==
    /\ h.at \in {"stored", "spin", "critical"} /\ h.call.op = "WAKE"
    /\ h.call.f = a /\ h.call.n >= Cardinality(KThreads)

IsCovered(w, a) == \E u \in KThreads : Covers(w[u], a)

MissInv ==
    /\ \A u \in KThreads : InLock(hwt[u]) => AllWoken(hwt[u].call)
    /\ \A t \in KThreads :
        kthr[t].vaddr # NULL /\ memory[kthr[t].vaddr] # kthr[t].expected
            => IsCovered(hwt, kthr[t].vaddr)

\* After the step no thread waits on word a, or all who do will be woken, or neither the
\* word nor the wakes to come have changed.
Safe(a) ==
    \/ \A v \in KThreads : kthr'[v].vaddr # a
    \/ IsCovered(hwt', a)
    \/ memory'[a] = memory[a] /\ (IsCovered(hwt, a) => IsCovered(hwt', a))

LEMMA MissStep ==
    ASSUME MissInv, Refreshed,
           \A u \in KThreads : InLock(hwt'[u]) => AllWoken(hwt'[u].call),
           \A v \in KThreads : kthr'[v].vaddr # NULL => Safe(kthr'[v].vaddr)
    PROVE  MissInv'
<1>1. ASSUME NEW v \in KThreads, kthr'[v].vaddr # NULL,
             memory'[kthr'[v].vaddr] # kthr'[v].expected
      PROVE  IsCovered(hwt', kthr'[v].vaddr)
  <2> DEFINE a == kthr'[v].vaddr
  <2>1. Kept(kthr[v], kthr'[v])
    BY <1>1 DEF Refreshed, Fresh
  <2>2. kthr[v].vaddr = a /\ kthr[v].expected = kthr'[v].expected
    BY <2>1 DEF Kept
  <2>3. Safe(a)
    BY <1>1
  <2>4. memory'[a] = memory[a] => IsCovered(hwt, a)
    BY <1>1, <2>2 DEF MissInv
  <2>5. IsCovered(hwt', a)
    BY <2>3, <2>4, ZenonT(30) DEF Safe
  <2> QED
    BY <2>5
<1> QED
  BY <1>1, ZenonT(30) DEF MissInv

\* Hardware thread t goes on to h.
LEMMA MoveMiss ==
    ASSUME FutexInv, MissInv, Refreshed, NEW t \in KThreads, NEW h,
           hwt' = [hwt EXCEPT ![t] = h], memory' = memory,
           InLock(h) => AllWoken(h.call), \A a : Covers(hwt[t], a) => Covers(h, a)
    PROVE  MissInv'
<1>1. hwt'[t] = h /\ \A u \in KThreads : u # t => hwt'[u] = hwt[u]
  BY DEF FutexInv, FutexTypeOK
<1>2. \A u \in KThreads : InLock(hwt'[u]) => AllWoken(hwt'[u].call)
  BY <1>1 DEF MissInv
<1>3. ASSUME NEW a, NEW u \in KThreads, Covers(hwt[u], a) PROVE Covers(hwt'[u], a)
  BY <1>1, <1>3, ZenonT(30)
<1>4. ASSUME NEW a PROVE Safe(a)
  <2>1. IsCovered(hwt, a) => IsCovered(hwt', a)
    BY <1>3 DEF IsCovered
  <2> QED
    BY <2>1 DEF Safe
<1> QED
  BY <1>2, <1>4, MissStep, ZenonT(30)

\* Hardware thread t leaves the lock.
LEMMA LeavesLock ==
    ASSUME FutexInv, NEW t \in KThreads, Fails(t) \/ \E l : Becomes(t, l)
    PROVE  \E h : hwt' = [hwt EXCEPT ![t] = h] /\ ~InLock(h)
<1>1. Shaped(hwt[t]) /\ HwInv(hwt[t])
  BY HwKnown
<1>2. ~InLock(Leaves(hwt[t]))
  BY Leaving DEF InLock
<1>3. CASE Fails(t)
  BY <1>2, <1>3, ZenonT(30) DEF Fails
<1>4. ASSUME NEW l, Becomes(t, l)
      PROVE  \E h : hwt' = [hwt EXCEPT ![t] = h] /\ ~InLock(h)
  <2> DEFINE x == [hwt[t] EXCEPT !.at = "unblocking", !.list = l.list]
             h == IF l.list = <<>> THEN Leaves(hwt[t]) ELSE x
  <2>1. hwt' = [hwt EXCEPT ![t] = h]
    BY <1>4, ZenonT(30) DEF Becomes
  <2>2. x.at = "unblocking"
    BY <1>1 DEF Shaped
  <2>3. ~InLock(x)
    BY <2>2 DEF InLock
  <2>4. ~InLock(h)
    BY <1>2, <2>3, ZenonT(30)
  <2> QED
    BY <2>1, <2>4, ZenonT(30)
<1> QED
  BY <1>3, <1>4, ZenonT(30)

\* A thread leaves the lock, and its call is none that others count on.
LEMMA CallMiss ==
    ASSUME FutexInv, MissInv, Refreshed, NEW t \in KThreads, hwt[t].call.op # "WAKE",
           Fails(t) \/ \E l : Becomes(t, l), memory' = memory
    PROVE  MissInv'
<1>1. PICK h : hwt' = [hwt EXCEPT ![t] = h] /\ ~InLock(h)
  BY LeavesLock
<1>2. \A a : ~Covers(hwt[t], a)
  BY DEF Covers
<1> QED
  BY <1>1, <1>2, MoveMiss, ZenonT(30)

\* Where the queue is empty, no thread waits.
LEMMA NoneWait ==
    ASSUME FutexInv', NEW a \in Addresses, QOf(Now)'[a] = <<>>
    PROVE  \A v \in KThreads : kthr'[v].vaddr # a
<1>1. \A v \in KThreads : Now'.kthr[v].vaddr # NULL =>
        Inside(QOf(Now)'[Now'.kthr[v].vaddr], v)
  BY ZenonT(30) DEF FutexInv, Holds
<1>2. Now'.kthr = kthr'
  BY DEF Now
<1>3. \A v : ~Inside(<<>>, v)
  BY DEF Inside
<1> QED
  BY <1>1, <1>2, <1>3, NullAssumption, ZenonT(30)

\* A wake of as many as there are threads empties a queue, also one that is cut first.
LEMMA TakesAll ==
    ASSUME Counting, FutexInv, NEW a \in Addresses, NEW b \in Addresses,
           NEW n \in 0 .. Len(QOf(Now)[b]), NEW m \in Nat, m >= Cardinality(KThreads)
    PROVE  /\ Rest(QOf(Now)[a], Taking(QOf(Now)[a], m)) = <<>>
           /\ LET w == [QOf(Now) EXCEPT ![b] = Rest(@, n)][a]
              IN  Rest(w, Taking(w, m)) = <<>>
<1> DEFINE q == QOf(Now)
           w == [q EXCEPT ![b] = Rest(@, n)][a]
<1>1. q \in [Addresses -> Seq(KThreads)] /\ \A c \in Addresses : Once(q[c])
  BY ZenonT(30) DEF FutexInv, Holds, Chained
<1> HIDE DEF q
<1>2. Cardinality(KThreads) \in Nat
      /\ \A c \in Addresses : Len(q[c]) \in Nat /\ Len(q[c]) <= Cardinality(KThreads)
  BY <1>1 DEF Counting, OnceBounded
<1>3. ASSUME NEW s \in Seq(KThreads), Len(s) <= Cardinality(KThreads)
      PROVE  Rest(s, Taking(s, m)) = <<>>
  <2>1. Len(s) \in Nat
    OBVIOUS
  <2>2. Taking(s, m) = Len(s)
    BY <1>2, <1>3, <2>1 DEF Taking
  <2> QED
    BY <2>1, <2>2 DEF Rest
<1>4. w \in Seq(KThreads) /\ Len(w) <= Cardinality(KThreads)
  <2>1. CASE a # b
    BY <1>1, <1>2, <2>1, ZenonT(30)
  <2>2. CASE a = b
    <3>1. w = Rest(q[b], n) /\ n \in 0 .. Len(q[b])
      BY <1>1, <2>2 DEF q
    <3> HIDE DEF w
    <3>2. w \in Seq(KThreads) /\ Len(w) = Len(q[b]) - n
      BY <1>1, <1>2, <3>1 DEF Rest
    <3> QED
      BY <1>2, <3>1, <3>2
  <2> QED
    BY <2>1, <2>2, ZenonT(30)
<1> HIDE DEF w
<1>5. Rest(q[a], Taking(q[a], m)) = <<>>
  BY <1>1, <1>2, <1>3
<1> QED
  BY <1>3, <1>4, <1>5 DEF q, w

LEMMA WakeMiss ==
    ASSUME Counting, FutexInv, MissInv, NEW t \in KThreads, Futex_Wake(t)
    PROVE  MissInv'
<1> DEFINE c == hwt[t].call
           n == Taking(QOf(Now)[c.f], c.n)
<1>1. hwt[t].at = "critical" /\ c.op = "WAKE" /\ memory' = memory /\ \E l : Becomes(t, l)
  BY DEF Futex_Wake, Critical
<1>2. c.f \in Addresses /\ c.n \in Nat
  BY <1>1, InCall, ZenonT(30) DEF IsCall
<1>3. FutexInv' /\ PWake(c.f, n)
  BY WakeStep, ZenonT(30)
<1>4. Refreshed /\ QOf(Now)' = [QOf(Now) EXCEPT ![c.f] = Rest(@, n)] /\ n \in 0 .. Len(QOf(Now)[c.f])
  BY <1>3 DEF PWake
<1>5. PICK h : hwt' = [hwt EXCEPT ![t] = h] /\ ~InLock(h)
  BY <1>1, LeavesLock, ZenonT(30)
<1>6. CASE ~(c.n >= Cardinality(KThreads))
  <2>1. \A a : ~Covers(hwt[t], a)
    BY <1>6 DEF Covers
  <2> QED
    BY <1>1, <1>4, <1>5, <2>1, MoveMiss, ZenonT(30)
<1>7. CASE c.n >= Cardinality(KThreads)
  <2>1. Rest(QOf(Now)[c.f], n) = <<>>
    BY <1>2, <1>4, <1>7, TakesAll, ZenonT(30)
  <2>2. QOf(Now) \in [Addresses -> Seq(KThreads)]
    BY ZenonT(30) DEF FutexInv, Holds
  <2>3. QOf(Now)'[c.f] = <<>>
    BY <1>2, <1>4, <2>1, <2>2, ZenonT(30)
  <2>4. \A v \in KThreads : kthr'[v].vaddr # c.f
    BY <1>2, <1>3, <2>3, NoneWait, ZenonT(30)
  <2>5. hwt'[t] = h /\ \A u \in KThreads : u # t => hwt'[u] = hwt[u]
    BY <1>5 DEF FutexInv, FutexTypeOK
  <2>6. \A u \in KThreads : InLock(hwt'[u]) => AllWoken(hwt'[u].call)
    BY <1>5, <2>5, ZenonT(30) DEF MissInv
  <2>7. ASSUME NEW a, a # c.f PROVE Safe(a)
    <3>1. ~Covers(hwt[t], a)
      BY <2>7, ZenonT(30) DEF Covers
    <3>2. IsCovered(hwt, a) => IsCovered(hwt', a)
      BY <2>5, <3>1, ZenonT(30) DEF IsCovered
    <3> QED
      BY <1>1, <3>2, ZenonT(30) DEF Safe
  <2>8. \A v \in KThreads : Safe(kthr'[v].vaddr)
    BY <2>4, <2>7, ZenonT(30)
  <2> QED
    BY <1>4, <2>6, <2>8, MissStep, ZenonT(30)
<1> QED
  BY <1>6, <1>7, ZenonT(30)

LEMMA WakeOpMiss ==
    ASSUME Counting, FutexInv, MissInv, NEW t \in KThreads, Futex_WakeOp(t)
    PROVE  MissInv'
<1> DEFINE c == hwt[t].call
           q == QOf(Now)
           n == Taking(q[c.f], c.n)
           w == [q EXCEPT ![c.f] = Rest(@, n)]
           m == Taking(w[c.g], c.m)
<1>1. /\ hwt[t].at = "critical" /\ c.op = "WAKE_OP" /\ \E l : Becomes(t, l)
      /\ memory' = [memory EXCEPT ![c.g] = c.new[@]]
  BY ZenonT(30) DEF Futex_WakeOp, Critical
<1>2. c.f \in Addresses /\ c.g \in Addresses /\ c.m \in Nat
  BY <1>1, InCall, ZenonT(30) DEF IsCall
<1>3. c.m >= Cardinality(KThreads) /\ \A v \in Values \ c.cmp : c.new[v] = v
  BY <1>1, ZenonT(30) DEF MissInv, InLock, AllWoken
<1>4. FutexInv' /\ IF memory[c.g] \notin c.cmp THEN PWake(c.f, n) ELSE PWakeTwice(c.f, n, c.g, m)
  BY WakeOpStep, ZenonT(30)
<1>5. memory \in [Addresses -> Values] /\ q \in [Addresses -> Seq(KThreads)]
  BY ZenonT(30) DEF FutexInv, FutexTypeOK, Holds
<1>6. CASE memory[c.g] \notin c.cmp
  <2>1. c.new[memory[c.g]] = memory[c.g]
    BY <1>2, <1>3, <1>5, <1>6, ZenonT(30)
  <2>2. memory' = memory
    BY <1>1, <1>2, <1>5, <2>1, ZenonT(30)
  <2>3. Refreshed
    BY <1>4, <1>6, ZenonT(30) DEF PWake
  <2> QED
    BY <1>1, <2>2, <2>3, CallMiss, ZenonT(30)
<1>7. CASE memory[c.g] \in c.cmp
  <2>1. Refreshed /\ QOf(Now)' = [w EXCEPT ![c.g] = Rest(@, m)] /\ n \in 0 .. Len(q[c.f])
    BY <1>4, <1>7, ZenonT(30) DEF PWakeTwice
  <2>2. Rest(w[c.g], m) = <<>>
    <3> DEFINE W(b, k) == [q EXCEPT ![b] = Rest(@, k)]
    <3>1. \A a, b \in Addresses : \A k \in 0 .. Len(q[b]), l \in Nat :
            l >= Cardinality(KThreads) => Rest(W(b, k)[a], Taking(W(b, k)[a], l)) = <<>>
      BY TakesAll, ZenonT(30)
    <3>2. w = W(c.f, n)
      OBVIOUS
    <3>3. n \in 0 .. Len(q[c.f]) /\ c.m >= Cardinality(KThreads)
      BY <1>3, <2>1, ZenonT(30)
    <3> HIDE DEF W, w, n, q
    <3> QED
      BY <1>2, <3>1, <3>2, <3>3, ZenonT(30)
  <2>3. DOMAIN w = Addresses
    BY <1>5, ZenonT(30)
  <2> HIDE DEF w, m
  <2>4. QOf(Now)'[c.g] = <<>>
    BY <1>2, <2>1, <2>2, <2>3, ZenonT(30)
  <2>5. \A v \in KThreads : kthr'[v].vaddr # c.g
    BY <1>2, <1>4, <2>4, NoneWait, ZenonT(30)
  <2>6. PICK h : hwt' = [hwt EXCEPT ![t] = h] /\ ~InLock(h)
    BY <1>1, LeavesLock, ZenonT(30)
  <2>7. hwt'[t] = h /\ \A u \in KThreads : u # t => hwt'[u] = hwt[u]
    BY <2>6 DEF FutexInv, FutexTypeOK
  <2>8. \A u \in KThreads : InLock(hwt'[u]) => AllWoken(hwt'[u].call)
    BY <2>6, <2>7 DEF MissInv
  <2>9. ASSUME NEW a, a # c.g PROVE Safe(a)
    <3>1. ~Covers(hwt[t], a)
      BY <1>1, ZenonT(30) DEF Covers
    <3>2. IsCovered(hwt, a) => IsCovered(hwt', a)
      BY <2>7, <3>1 DEF IsCovered
    <3>3. memory'[a] = memory[a]
      BY <1>1, <1>5, <2>9
    <3> QED
      BY <3>2, <3>3, ZenonT(30) DEF Safe
  <2>10. \A v \in KThreads : Safe(kthr'[v].vaddr)
    BY <2>5, <2>9
  <2> QED
    BY <2>1, <2>8, <2>10, MissStep, ZenonT(30)
<1> QED
  BY <1>6, <1>7, ZenonT(30)

\* The wake that follows a store covers the word.
LEMMA StoreMiss ==
    ASSUME WakesAll, FutexInv, MissInv, Refreshed, NEW t \in KThreads, StoreWord(t)
    PROVE  MissInv'
<1>1. PICK s \in Stores[t] :
        /\ memory' = [memory EXCEPT ![s.f] = s.val]
        /\ hwt' = [hwt EXCEPT ![t] =
                     [at |-> "stored", call |-> s.call, turn |-> 0, list |-> <<>>]]
  BY ZenonT(30) DEF StoreWord
<1>2. s.call.f = s.f /\ s.call.n >= Cardinality(KThreads) /\ s.call.op = "WAKE"
  BY CallsAssumption DEF WakesAll
<1> DEFINE c == s.call
           h == [at |-> "stored", call |-> c, turn |-> 0, list |-> <<>>]
<1>3. hwt'[t] = h /\ \A u \in KThreads : u # t => hwt'[u] = hwt[u]
  BY <1>1, ZenonT(30) DEF FutexInv, FutexTypeOK
<1> HIDE DEF c
<1>4. h.at = "stored" /\ h.call = c
  OBVIOUS
<1> HIDE DEF h
<1>5. Covers(h, s.f) /\ ~InLock(h)
  BY <1>2, <1>4, ZenonT(30) DEF Covers, InLock, c
<1>6. hwt[t].at = "out" /\ \A a : ~Covers(hwt[t], a)
  BY DEF StoreWord, Runs, Covers
<1>7. \A u \in KThreads : InLock(hwt'[u]) => AllWoken(hwt'[u].call)
  BY <1>3, <1>5 DEF MissInv
<1>8. ASSUME NEW a PROVE Safe(a)
  <2>1. CASE a = s.f
    BY <1>3, <1>5, <2>1, ZenonT(30) DEF Safe, IsCovered
  <2>2. CASE a # s.f
    <3>1. IsCovered(hwt, a) => IsCovered(hwt', a)
      BY <1>3, <1>6, ZenonT(30) DEF IsCovered
    <3>2. memory'[a] = memory[a]
      BY <1>1, <2>2 DEF FutexInv, FutexTypeOK
    <3> QED
      BY <3>1, <3>2 DEF Safe
  <2> QED
    BY <2>1, <2>2, ZenonT(30)
<1> QED
  BY <1>7, <1>8, MissStep

LEMMA AcquireMiss ==
    ASSUME WakesAll, FutexInv, MissInv, Refreshed, NEW t \in KThreads,
           sc_futex(t) \/ WakeAfterStore(t) \/ IntHandler_UDEC(t) \/ Signal_Deliver(t)
    PROVE  MissInv'
<1>1. PICK c : /\ Lock_AtomicAcquire(t, c) /\ memory' = memory /\ AllWoken(c)
               /\ hwt[t].at = "out" \/ (hwt[t].at = "stored" /\ hwt[t].call = c)
  <2>1. CASE sc_futex(t)
    BY <2>1 DEF sc_futex, Runs, WakesAll
  <2>2. CASE WakeAfterStore(t)
    <3>1. hwt[t].call.op = "WAKE"
      BY <2>2, HwKnown, ZenonT(30) DEF WakeAfterStore, HwInv
    <3> QED
      BY <2>2, <3>1, ZenonT(30) DEF WakeAfterStore, AllWoken
  <2>3. CASE IntHandler_UDEC(t)
    BY <2>3 DEF IntHandler_UDEC, AllWoken
  <2>4. CASE Signal_Deliver(t)
    BY <2>4 DEF Signal_Deliver, AllWoken
  <2> QED
    BY <2>1, <2>2, <2>3, <2>4, ZenonT(30)
<1> DEFINE h == [at |-> "spin", call |-> c, turn |-> lock.next, list |-> <<>>]
<1>2. hwt' = [hwt EXCEPT ![t] = h]
  BY <1>1 DEF Lock_AtomicAcquire
<1>3. h.at = "spin" /\ h.call = c
  OBVIOUS
<1> HIDE DEF h
<1>4. \A a : Covers(hwt[t], a) => Covers(h, a)
  BY <1>1, <1>3, ZenonT(30) DEF Covers
<1> QED
  BY <1>1, <1>2, <1>3, <1>4, MoveMiss, ZenonT(30)

LEMMA MissNext ==
    ASSUME Counting, WakesAll, FutexInv, MissInv, Refreshed, [FNext]_fvars
    PROVE  MissInv'
<1>1. CASE UNCHANGED fvars
  BY <1>1, ZenonT(30) DEF fvars, MissInv
<1>2. ASSUME NEW t \in KThreads, Turn(t) PROVE MissInv'
  <2> DEFINE h == [hwt[t] EXCEPT !.at = "critical"]
  <2>1. hwt' = [hwt EXCEPT ![t] = h] /\ hwt[t].at = "spin" /\ memory' = memory
    BY <1>2 DEF Turn
  <2>2. h.at = "critical" /\ h.call = hwt[t].call
    BY HwKnown DEF HwThread
  <2> HIDE DEF h
  <2>3. AllWoken(h.call)
    BY <2>1, <2>2, ZenonT(30) DEF MissInv, InLock
  <2>4. \A a : Covers(hwt[t], a) => Covers(h, a)
    BY <2>2 DEF Covers
  <2> QED
    BY <2>1, <2>3, <2>4, MoveMiss, ZenonT(30)
<1>3. ASSUME NEW t \in KThreads, IPI_DeliverInterrupt(t) PROVE MissInv'
  <2> DEFINE x == [hwt[t] EXCEPT !.list = Tail(hwt[t].list)]
             h == IF Len(hwt[t].list) = 1 THEN Leaves(hwt[t]) ELSE x
  <2>1. hwt' = [hwt EXCEPT ![t] = h] /\ hwt[t].at = "unblocking" /\ memory' = memory
    BY <1>3 DEF IPI_DeliverInterrupt
  <2>2. x.at = "unblocking"
    BY <2>1, HwKnown DEF HwThread
  <2>3. ~InLock(h)
    BY <2>2, Leaving DEF InLock
  <2>4. \A a : ~Covers(hwt[t], a)
    BY <2>1 DEF Covers
  <2> QED
    BY <2>1, <2>3, <2>4, MoveMiss, ZenonT(30)
<1>4. ASSUME NEW t \in KThreads, IPI_handler_run_scheduler(t) PROVE MissInv'
  <2>1. memory' = memory /\ hwt' = [hwt EXCEPT ![t] = hwt[t]]
    BY <1>4 DEF IPI_handler_run_scheduler, FutexInv, FutexTypeOK
  <2>2. InLock(hwt[t]) => AllWoken(hwt[t].call)
    BY DEF MissInv
  <2> QED
    BY <2>1, <2>2, MoveMiss, ZenonT(30)
<1>5. ASSUME NEW t \in KThreads, Futex_WaitFails(t) \/ RequeueFails(t) PROVE MissInv'
  <2>1. Fails(t) /\ memory' = memory /\ hwt[t].call.op # "WAKE"
    BY <1>5 DEF Futex_WaitFails, RequeueFails, Critical, Fails
  <2> QED
    BY <2>1, CallMiss, ZenonT(30)
<1>6. ASSUME NEW t \in KThreads,
             \/ Futex_Wait(t) \/ Futex_Requeue(t) \/ Futex_CheckTimeout(t) \/ Futex_Interrupt(t)
      PROVE  MissInv'
  <2>1. (\E l : Becomes(t, l)) /\ memory' = memory /\ hwt[t].call.op # "WAKE"
    <3>1. CASE Futex_Wait(t)
      BY <3>1 DEF Futex_Wait, Critical
    <3>2. CASE Futex_Requeue(t)
      BY <3>2, ZenonT(30) DEF Futex_Requeue, Critical
    <3>3. CASE Futex_CheckTimeout(t)
      BY <3>3, ZenonT(30) DEF Futex_CheckTimeout, Critical
    <3>4. CASE Futex_Interrupt(t)
      BY <3>4, ZenonT(30) DEF Futex_Interrupt, Critical
    <3> QED
      BY <1>6, <3>1, <3>2, <3>3, <3>4, ZenonT(30)
  <2> QED
    BY <2>1, CallMiss, ZenonT(30)
<1>7. ASSUME NEW t \in KThreads, Futex_Wake(t) \/ Futex_WakeOp(t) PROVE MissInv'
  BY <1>7, WakeMiss, WakeOpMiss, ZenonT(30)
<1>8. ASSUME NEW t \in KThreads, StoreWord(t) PROVE MissInv'
  BY <1>8, StoreMiss
<1>9. ASSUME NEW t \in KThreads,
             sc_futex(t) \/ WakeAfterStore(t) \/ IntHandler_UDEC(t) \/ Signal_Deliver(t)
      PROVE  MissInv'
  BY <1>9, AcquireMiss
<1> QED
  BY <1>1, <1>2, <1>3, <1>4, <1>5, <1>6, <1>7, <1>8, <1>9, ZenonT(30) DEF FNext, InKernel

LEMMA MissInitially ==
    ASSUME FInit
    PROVE  MissInv
<1>1. \A t \in KThreads : kthr[t].vaddr = NULL /\ hwt[t].at = "out"
  BY ZenonT(30) DEF FInit, Awake, Out
<1> QED
  BY <1>1 DEF MissInv, InLock

-----------------------------------------------------------------------------
(* The sizes of the queues and of the table.                              *)

INSTANCE FiniteSetTheorems

\* A set of numbers has a least element.
LEMMA Least ==
    ASSUME NEW S \in SUBSET Nat, S # {}
    PROVE  \E n \in S : \A m \in S : n <= m
<1> DEFINE R == OpToRel(<, Nat)
<1>1. IsWellFoundedOn(R, Nat)
  BY NatLessThanWellFounded, ZenonT(30)
<1>2. \A x, y \in Nat : x < y => <<x, y>> \in R
  BY DEF OpToRel
<1> HIDE DEF R
<1>3. PICK n \in S : \A m \in S : ~(<<m, n>> \in R)
  BY <1>1, WFMin, ZenonT(30)
<1>4. \A m \in S : m \in Nat /\ ~(m < n)
  BY <1>2, <1>3, ZenonT(30)
<1>5. \A m \in S : n <= m
  BY <1>4
<1> QED
  BY <1>3, <1>5

LEMMA OnceIsBounded == OnceBounded
<1> USE NumFutexAssumption
<1>1. Cardinality(KThreads) \in Nat
  BY FS_CardinalityType
<1>2. ASSUME NEW s \in Seq(KThreads), Once(s), Cardinality(KThreads) < Len(s)
      PROVE  FALSE
  <2>1. IsFiniteSet(1 .. Len(s)) /\ Cardinality(1 .. Len(s)) = Len(s)
    BY FS_Interval
  <2>2. s \in [1 .. Len(s) -> KThreads]
    OBVIOUS
  <2>3. \E x, y \in 1 .. Len(s) : x # y /\ s[x] = s[y]
    BY <1>2, <2>1, <2>2, FS_PigeonHole, ZenonT(30)
  <2> QED
    BY <1>2, <2>3, ZenonT(30) DEF Once
<1> QED
  BY <1>1, <1>2 DEF OnceBounded

\* The table has more entries than there are threads besides t: NUM_FUTEX is NUM_KTHREADS.
LEMMA EntriesAreMore == MoreEntries
<1> USE NumFutexAssumption
<1>1. ASSUME NEW t \in KThreads, NEW f \in [1 .. NumFutex -> KThreads \ {t}]
      PROVE  \E i, j \in 1 .. NumFutex : i # j /\ f[i] = f[j]
  <2>1. /\ IsFiniteSet(KThreads \ {t})
        /\ Cardinality(KThreads \ {t}) = Cardinality(KThreads) - 1
    BY FS_RemoveElement
  <2>2. IsFiniteSet(1 .. NumFutex) /\ Cardinality(1 .. NumFutex) = NumFutex
    BY FS_Interval
  <2>3. Cardinality(KThreads \ {t}) < Cardinality(1 .. NumFutex)
    BY <2>1, <2>2, FS_CardinalityType
  <2> QED
    BY <2>1, <2>2, <2>3, FS_PigeonHole, ZenonT(30)
<1> QED
  BY <1>1, ZenonT(30) DEF MoreEntries

LEMMA Counted == Counting
<1>1. HasLeast
  BY Least DEF HasLeast
<1> QED
  BY <1>1, OnceIsBounded, EntriesAreMore, ZenonT(30) DEF Counting

-----------------------------------------------------------------------------
\* The spin lock of the futex calls (Lock_AtomicAcquire and Lock_AtomicRelease) gives
\* mutual exclusion: OneHoldsLock, for any number of threads and calls.
THEOREM LockExcludes == FSpec => []OneHoldsLock
<1>1. LockInv => OneHoldsLock
  BY DEF LockInv, OneHoldsLock, InLock
<1> QED
  BY <1>1, LockInitially, LockStep, PTL DEF FSpec

UnlessLate == used \in Used /\ (used.late \/ FutexInv)

MissUnlessLate == used.late \/ MissInv

\* The invariant FutexInv that the theorems below rest on.  It holds, for every choice
\* of calls, stores, timers and signals, until a thread waits although an interrupt
\* that unblocks it from an earlier sleep is still to come: nothing in futex.c prevents
\* that, and what follows then is not stated.
THEOREM FutexInvariant == FSpec => [](used \in Used /\ (used.late \/ FutexInv))
<1>1. FInit => UnlessLate
  <2>1. ASSUME FInit PROVE used \in Used
    BY <2>1 DEF FInit, Used
  <2> QED
    BY <2>1, FutexInitially, Counted, ZenonT(30) DEF UnlessLate
<1>2. ASSUME UnlessLate, [FNext]_fvars
      PROVE  UnlessLate'
  <2>0. used \in Used /\ (used.late \/ FutexInv)
    BY <1>2 DEF UnlessLate
  <2>1. used' \in Used /\ (used.late => used'.late)
    BY <1>2, <2>0, LateStays
  <2>2. ASSUME ~used'.late PROVE FutexInv'
    BY <1>2, <2>0, <2>1, <2>2, FutexStep, Counted, ZenonT(30)
  <2> QED
    BY <2>1, <2>2 DEF UnlessLate
<1>3. UnlessLate => used \in Used /\ (used.late \/ FutexInv)
  BY DEF UnlessLate
<1> QED
  BY <1>1, <1>2, <1>3, PTL DEF FSpec

\* The table of Futex_findTableEntry: TableInv, for any number of threads and futexes,
\* until an interrupt is late.
THEOREM TableKept == FSpec => [](used.late \/ TableInv)
<1>1. ASSUME FutexInv PROVE TableInv
  <2>1. ASSUME NEW i \in Entries
        PROVE  /\ table[i].vaddr = NULL <=> Queue(i) = <<>>
               /\ \A t \in ThreadsOf(Queue(i)) : kthr[t].vaddr = table[i].vaddr
    <3>1. ThreadsOf(Queue(i)) \subseteq KThreads
      BY <1>1, InQueue, Counted DEF ThreadsOf
    <3> QED
      BY <1>1, <3>1, InQueue, Counted, ZenonT(30)
  <2>2. \A i, j \in Entries :
          i # j /\ table[i].vaddr # NULL => table[i].vaddr # table[j].vaddr
    BY <1>1, ZenonT(30) DEF FutexInv, Holds, OneEntry, Now, Entries
  <2> QED
    BY <2>1, <2>2, ZenonT(30) DEF TableInv
<1> QED
  BY <1>1, FutexInvariant, PTL

\* A thread in a queue is blocked: QueuedIsBlocked, until an interrupt is late.
THEOREM WaitersSleep == FSpec => [](used.late \/ QueuedIsBlocked)
<1>1. ASSUME FutexInv PROVE QueuedIsBlocked
  <2>1. ASSUME NEW i \in Entries, NEW t \in ThreadsOf(Queue(i)) PROVE kthr[t].blocked
    <3>1. t \in KThreads
      BY <1>1, InQueue, Counted DEF ThreadsOf
    <3>2. kthr[t].vaddr # NULL
      BY <1>1, <3>1, InQueue, Counted, ZenonT(30)
    <3> QED
      BY <1>1, <3>1, <3>2, HwKnown, ZenonT(30) DEF ThreadInv
  <2> QED
    BY <2>1 DEF QueuedIsBlocked
<1> QED
  BY <1>1, FutexInvariant, PTL

\* No waiter is left behind: NoWaiterLost, until an interrupt is late.
THEOREM WaitersFound == FSpec => [](used.late \/ NoWaiterLost)
<1>1. ASSUME FutexInv PROVE NoWaiterLost
  <2>1. ASSUME NEW t \in KThreads, kthr[t].blocked, ~Unblocking(t)
        PROVE  \E i \in Entries : table[i].vaddr = kthr[t].vaddr /\ t \in ThreadsOf(Queue(i))
    <3> DEFINE a == kthr[t].vaddr
    <3>1. kthr[t] \in ThreadState /\ ThreadInv(kthr[t], hwt[t], Unblocking(t))
      BY <1>1, HwKnown, ZenonT(30)
    <3>2. a # NULL /\ a \in Addresses
      BY <2>1, <3>1, ZenonT(30) DEF ThreadInv, ThreadState
    <3>3. Holds(Now, QOf(Now)) /\ Now.table = table /\ Now.kthr = kthr
      BY <1>1, ZenonT(30) DEF FutexInv, Now
    <3>4. Inside(QOf(Now)[a], t) /\ QOf(Now)[a] \in Seq(KThreads)
      BY <3>2, <3>3, ZenonT(30) DEF Holds
    <3>5. QOf(Now)[a] # <<>>
      BY <3>4 DEF Inside
    <3>6. PICK i \in Entries : table[i].vaddr = a
      BY <3>2, <3>3, <3>5, ZenonT(30) DEF Holds, HasEntry, Entries
    <3>7. Queue(i) = QOf(Now)[a]
      BY <1>1, <3>2, <3>6, InQueue, Counted, ZenonT(30)
    <3>8. t \in ThreadsOf(Queue(i))
      BY <3>4, <3>7, RangeInside, ZenonT(30)
    <3> QED
      BY <3>6, <3>8
  <2> QED
    BY <2>1, ZenonT(30) DEF NoWaiterLost
<1> QED
  BY <1>1, FutexInvariant, PTL

\* A wake and a timeout never both end a sleep: TimeoutKeepsWake, until an interrupt is
\* late.
THEOREM WokenNotTimedOut == FSpec => [](used.late \/ TimeoutKeepsWake)
<1>1. ASSUME FutexInv PROVE TimeoutKeepsWake
  BY <1>1, HwKnown DEF TimeoutKeepsWake, ThreadInv
<1> QED
  BY <1>1, FutexInvariant, PTL

\* No thread sleeps past the wake that follows a store: NoMissedWake, for an application
\* that wakes all who wait on a word that it changes, until an interrupt is late.
THEOREM WakesNotMissed ==
    ASSUME WakesAll
    PROVE  FSpec => [](used.late \/ NoMissedWake)
<1>1. FInit => MissUnlessLate
  BY MissInitially DEF MissUnlessLate
<1>2. ASSUME used \in Used, used.late \/ FutexInv, MissUnlessLate, [FNext]_fvars
      PROVE  MissUnlessLate'
  <2>1. ASSUME Promised PROVE Refreshed
    BY <2>1, ZenonT(30) DEF Promised, Idle, PRun, PLeave, PSleep, PWake, PWakeTwice, PRequeue
  <2>2. used.late => used'.late
    BY <1>2, LateStays
  <2>3. ASSUME ~used'.late PROVE MissInv'
    BY <1>2, <2>1, <2>2, <2>3, FutexStep, MissNext, Counted, ZenonT(30) DEF MissUnlessLate
  <2> QED
    BY <2>3 DEF MissUnlessLate
<1>3. MissUnlessLate => used.late \/ NoMissedWake
  <2>1. ASSUME MissInv PROVE NoMissedWake
    BY <2>1, ZenonT(30) DEF MissInv, NoMissedWake, IsCovered, Covers
  <2> QED
    BY <2>1 DEF MissUnlessLate
<1> QED
  BY <1>1, <1>2, <1>3, FutexInvariant, PTL DEF FSpec

\* The table and the linked lists of futex.c implement first-in first-out queues:
\* ImplementsQueues, for any number of threads, futexes and calls, until an interrupt is
\* late.
THEOREM QueuesImplemented == FSpec => ImplementsQueues
<1>1. ASSUME FInit PROVE Promise!Init
  BY <1>1, FutexInitially, Counted, QueuesOf, ZenonT(30) DEF Promise!Init
<1>2. ASSUME FutexInv, Promised PROVE [Promise!Next]_(Promise!vars)
  BY <1>2, IdlePromised, RunPromised, LeavePromised, SleepPromised, RequeuePromised,
     WakePromised, WakeTwicePromised DEF Promised
<1>3. ASSUME used \in Used, used.late \/ FutexInv, [FNext]_fvars
      PROVE  [used'.late \/ Promise!Next]_(Promise!vars)
  <2>1. used.late => used'.late
    BY <1>3, LateStays
  <2>2. ASSUME ~used'.late PROVE [Promise!Next]_(Promise!vars)
    BY <1>2, <1>3, <2>1, <2>2, FutexStep, Counted, ZenonT(30)
  <2> QED
    BY <2>2
<1> QED
  BY <1>1, <1>3, FutexInvariant, PTL DEF FSpec, ImplementsQueues

=============================================================================
