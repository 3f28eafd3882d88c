------------------------------ MODULE MCFutex ------------------------------
(***************************************************************************)
(* A small instance of Futex: three threads and two futexes.               *)
(***************************************************************************)
EXTENDS Futex

CONSTANTS k1, k2, k3

Wait(f, timed) == [op |-> "WAIT", f |-> f, val |-> 0, timed |-> timed]

\* k1 and k2 wait, with and without a timeout; k3 wakes and requeues them.
MCFutexCalls ==
    [t \in KThreads |->
        CASE t = k1 -> {Wait("f", TRUE)}
          [] t = k2 -> {Wait("f", FALSE), Wait("g", TRUE)}
          [] t = k3 -> {[op |-> "WAKE", f |-> "f", n |-> 1],
                        [op |-> "CMP_REQUEUE", f |-> "f", n |-> 1, g |-> "g", val |-> 0],
                        [op |-> "REQUEUE", f |-> "f", n |-> 0, g |-> "g"],
                        [op |-> "WAKE_OP", f |-> "f", n |-> 1, g |-> "g", m |-> 3,
                         new |-> [v \in Values |-> 1], cmp |-> {0}]}]

\* k3 stores a word and wakes its waiters, as an unlock does and as its own exit does.
MCStores ==
    [t \in KThreads |->
        IF t # k3 THEN {}
        ELSE {[f |-> "f", val |-> 1, call |-> [op |-> "WAKE", f |-> "f", n |-> 3]],
              [f |-> "g", val |-> 1, call |-> [op |-> "WAKE", f |-> "g", n |-> 3,
                                               exit |-> TRUE]]}]
============================================================================
