---------------------------- MODULE FutexQueues ----------------------------
(***************************************************************************)
(* What the futexes of the compute node kernel promise.  Every futex has a *)
(* queue; a thread that waits sleeps at its end; a wake takes threads from *)
(* the front, a requeue moves the others to the end of a second queue; a   *)
(* timeout or a signal takes a thread out of its queue and ends its sleep; *)
(* a thread that no queue holds any more runs.                             *)
(***************************************************************************)
EXTENDS Naturals, Sequences

CONSTANTS KThreads, Addresses

VARIABLES queues, asleep

Init == queues = [a \in Addresses |-> <<>>] /\ asleep = {}

Queued(t) == \E a \in Addresses : \E i \in DOMAIN queues[a] : queues[a][i] = t

Taken(s, n) == SubSeq(s, n + 1, Len(s))

Without(s, i) == SubSeq(s, 1, i - 1) \o SubSeq(s, i + 1, Len(s))

Sleep(t, a) ==
    /\ t \notin asleep /\ asleep' = asleep \cup {t}
    /\ queues' = [queues EXCEPT ![a] = Append(@, t)]

Wake(a, n, b, m) ==
    LET first == [queues EXCEPT ![a] = Taken(@, n)]
    IN UNCHANGED asleep /\ queues' = [first EXCEPT ![b] = Taken(@, m)]

Requeue(a, n, b) ==
    /\ UNCHANGED asleep
    /\ queues' = [queues EXCEPT ![a] = <<>>, ![b] = @ \o Taken(queues[a], n)]

Leave(t, a) ==
    /\ t \in asleep /\ asleep' = asleep \ {t}
    /\ \E i \in DOMAIN queues[a] :
        queues[a][i] = t /\ queues' = [queues EXCEPT ![a] = Without(@, i)]

Run(t) == t \in asleep /\ ~Queued(t) /\ asleep' = asleep \ {t} /\ UNCHANGED queues

\* Threads are taken from queues, or move to another one.
Move ==
    \E a, b \in Addresses :
        \E n \in 0 .. Len(queues[a]) :
            \/ a # b /\ Requeue(a, n, b)
            \/ \E m \in 0 .. Len(queues[b]) : Wake(a, n, b, m)

\* A wake or a requeue that finds no thread is no step.
Next ==
    \/ queues' # queues /\ Move
    \/ \E t \in KThreads : Run(t) \/ \E a \in Addresses : Leave(t, a) \/ Sleep(t, a)

vars == <<queues, asleep>>

Spec == Init /\ [][Next]_vars
=============================================================================
