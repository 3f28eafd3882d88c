---------------------------- MODULE QueueProofs -----------------------------
(***************************************************************************)
(* Proofs about three queues: the messages a link of the runjob server     *)
(* holds for an I/O node, the requests of the sub-node jobs of a compute   *)
(* node, and the requests of the communication agent of a compute node.    *)
(***************************************************************************)
EXTENDS CiosConnection, RequestQueue, SubNodePacing, TLAPS

USE ZenonT(8), SMTT(20)

-----------------------------------------------------------------------------
(***************************************************************************)
(* The outbox of cios::Connection, for any number of sessions and          *)
(* messages: what is written is the front of the outbox, one message at a  *)
(* time, in the order in which writeImpl took them.                        *)
(***************************************************************************)

Writes == [msg : Messages, on : 0 .. MaxStarts, res : Results]

\* OutboxInv without the types, of any value k of c.
Orderly(k) ==
    /\ \A w \in k.writes :
          k.writes = {w} /\ k.outbox # <<>> /\ w.msg = Head(k.outbox)
    /\ \A i, j \in DOMAIN k.wire : i < j => k.wire[i] < k.wire[j]
    /\ \A i, j \in DOMAIN k.outbox : i < j => k.outbox[i].n < k.outbox[j].n
    /\ \A j \in DOMAIN k.outbox : k.outbox[j].n <= k.accepted
    /\ \A i \in DOMAIN k.wire : k.wire[i] <= k.accepted
    /\ \A i \in DOMAIN k.wire, j \in DOMAIN k.outbox :
          k.wire[i] < k.outbox[j].n
            \/ (k.writes # {} /\ j = 1 /\ k.wire[i] = k.outbox[j].n)

Good(k) == k \in Connections /\ Orderly(k)

\* What the steps that leave the outbox and the writes alone keep.
Alike(k, l) ==
    /\ l.outbox = k.outbox /\ l.writes = k.writes
    /\ l.accepted = k.accepted /\ l.wire = k.wire

\* The elements of a sequence.
LEMMA ElementsOf ==
    ASSUME NEW S, NEW q \in Seq(S)
    PROVE  \A i \in DOMAIN q : q[i] \in S
OBVIOUS

\* Orderly reads only four of the fields.
LEMMA AlikeOrderly ==
    ASSUME NEW k, NEW l, Orderly(k), Alike(k, l)
    PROVE  Orderly(l)
BY DEF Orderly, Alike

\* The invariant in terms of Good.
LEMMA InvIsGood == OutboxInv <=> service \in {"jobctl", "stdio"} /\ Good(c)
BY DEF OutboxInv, CTypeOK, Good, Orderly, FrontInFlight, WrittenInOrder

\* Cancelling the operations of a session keeps each of them the write or
\* the read that it was.
LEMMA CancelKeeps ==
    ASSUME NEW k, Good(k), NEW s
    PROVE  /\ Good(cancel(k, s))
           /\ cancel(k, s).outbox = k.outbox
           /\ cancel(k, s).wire = k.wire
           /\ cancel(k, s).accepted = k.accepted
           /\ cancel(k, s).starts = k.starts
           /\ k.writes = {} => cancel(k, s).writes = {}
<1> DEFINE ch == [a \in Attempts |-> Cancelled(k.chain[a], s)]
           ws == {Cancelled(w, s) : w \in k.writes}
<1>k. k \in Connections /\ Orderly(k)
  BY DEF Good
<1>t. k.chain \in [Attempts -> Chains] /\ k.writes \in SUBSET Writes
  BY <1>k DEF Connections, Writes
<1>1. ch \in [Attempts -> Chains]
  <2>1. \A x \in Chains : Cancelled(x, s) \in Chains
    BY DEF Cancelled, Chains, Results
  <2> QED
    BY <2>1, <1>t
<1>2. \A w \in Writes : Cancelled(w, s) \in Writes /\ Cancelled(w, s).msg = w.msg
  BY DEF Cancelled, Writes, Results
<1>3. ws \in SUBSET Writes
  BY <1>2, <1>t
<1>4. /\ cancel(k, s) \in Connections
      /\ cancel(k, s).outbox = k.outbox /\ cancel(k, s).wire = k.wire
      /\ cancel(k, s).accepted = k.accepted /\ cancel(k, s).starts = k.starts
      /\ cancel(k, s).writes = ws
  BY <1>k, <1>1, <1>3, ZenonT(30) DEF cancel, Connections, Writes
<1>5. Orderly(cancel(k, s))
  <2>1. ws # {} <=> k.writes # {}
    OBVIOUS
  <2>2. \A v \in ws : ws = {v} /\ k.outbox # <<>> /\ v.msg = Head(k.outbox)
    <3> TAKE v \in ws
    <3>1. PICK w \in k.writes : v = Cancelled(w, s)
      OBVIOUS
    <3>2. k.writes = {w} /\ k.outbox # <<>> /\ w.msg = Head(k.outbox)
      BY <1>k DEF Orderly
    <3>3. v.msg = w.msg
      BY <1>2, <1>t, <3>1
    <3>4. ws = {v}
      BY <3>1, <3>2
    <3> QED
      BY <3>2, <3>3, <3>4
  <2> QED
    BY <1>k, <1>4, <2>1, <2>2 DEF Orderly
<1> QED
  BY <1>4, <1>5 DEF Good

\* A chain of reads moves on.
LEMMA ChainKeeps ==
    ASSUME NEW k, Good(k), NEW a \in Attempts, NEW x \in Chains
    PROVE  /\ Good([k EXCEPT !.chain[a] = x])
           /\ [k EXCEPT !.chain[a] = x].starts = k.starts
<1>1. [k.chain EXCEPT ![a] = x] \in [Attempts -> Chains]
  BY DEF Good, Connections
<1>2. /\ [k EXCEPT !.chain[a] = x] \in Connections
      /\ Alike(k, [k EXCEPT !.chain[a] = x])
  BY <1>1, ZenonT(30) DEF Good, Connections, Alike
<1>3. [k EXCEPT !.chain[a] = x].starts = k.starts
  BY DEF Good, Connections
<1> QED
  BY <1>2, <1>3, AlikeOrderly DEF Good

\* read() leaves the outbox alone.
LEMMA ReadKeeps ==
    ASSUME NEW k, Good(k), NEW a \in Attempts
    PROVE  Good(read(k, a))
<1>1. NoChain \in Chains
  BY CiosBoundsAssumption DEF NoChain, Chains, Results
<1>2. k.socket \in 0 .. MaxStarts
  BY DEF Good, Connections
<1>3. [at |-> "header", on |-> k.socket, res |-> "pending"] \in Chains
  BY <1>2 DEF Chains, Results
<1> QED
  BY <1>1, <1>3, ChainKeeps DEF read

\* An attempt to connect moves on.
LEMMA PhaseKeeps ==
    ASSUME NEW k, Good(k), NEW a \in Attempts, NEW p \in Phases
    PROVE  Good([k EXCEPT !.phase[a] = p])
<1>1. [k.phase EXCEPT ![a] = p] \in [Attempts -> Phases]
  BY DEF Good, Connections
<1>2. /\ [k EXCEPT !.phase[a] = p] \in Connections
      /\ Alike(k, [k EXCEPT !.phase[a] = p])
  BY <1>1, ZenonT(30) DEF Good, Connections, Alike
<1> QED
  BY <1>2, AlikeOrderly DEF Good

\* start() leaves the outbox alone.
LEMMA StartKeeps ==
    ASSUME NEW k, Good(k), k.starts < MaxStarts
    PROVE  Good(start(k)) /\ start(k).outbox = k.outbox
<1>1. CASE k.block = "gone"
  BY <1>1 DEF start
<1>2. CASE k.block # "gone"
  <2> DEFINE j == k.starts + 1
             l == cancel(k, k.socket)
             l1 == [l EXCEPT !.socket = 0, !.starts = j]
             l2 == [l1 EXCEPT !.phase[j] = "waiting"]
             m == [l2 EXCEPT !.interval = j]
  <2>1. Good(l) /\ l.outbox = k.outbox /\ k.starts \in 0 .. MaxStarts
    BY CancelKeeps DEF Good, Connections
  <2>2. j \in Attempts /\ j \in 0 .. MaxStarts /\ 0 \in 0 .. MaxStarts
    BY <2>1, CiosBoundsAssumption DEF Attempts
  <2>3. start(k) = m
    BY <1>2 DEF start
  <2> HIDE DEF l, j
  <2>4. l1 \in Connections /\ Alike(l, l1)
    BY <2>1, <2>2, ZenonT(30) DEF Good, Connections, Alike
  <2>5. Good(l1) /\ l1.outbox = k.outbox
    BY <2>1, <2>4, AlikeOrderly, ZenonT(30) DEF Good, Alike
  <2> HIDE DEF l1
  <2>6. Good(l2) /\ l2.outbox = k.outbox
    <3>1. l2.outbox = l1.outbox
      BY <2>5 DEF Good, Connections
    <3> QED
      BY <2>2, <2>5, <3>1, PhaseKeeps, ZenonT(30) DEF Phases
  <2> HIDE DEF l2
  <2>7. m \in Connections /\ Alike(l2, m)
    BY <2>2, <2>6, ZenonT(30) DEF Good, Connections, Alike
  <2> QED
    BY <2>3, <2>6, <2>7, AlikeOrderly, ZenonT(30) DEF Good, Alike
<1> QED
  BY <1>1, <1>2

\* write(), called with a message in the outbox and none on its way.
LEMMA WriteKeeps ==
    ASSUME NEW k, Good(k), k.outbox # <<>>, k.writes = {},
           Head(k.outbox).beat => k.starts < MaxStarts
    PROVE  Good(write(k))
<1> DEFINE m == Head(k.outbox)
<1>t. /\ k.outbox \in Seq(Messages) /\ k.wire \in Seq(1 .. MaxMessages)
      /\ k.accepted \in 0 .. MaxMessages /\ k.silent \in BOOLEAN
      /\ k.socket \in 0 .. MaxStarts
  BY DEF Good, Connections
<1>m. m \in Messages /\ m = k.outbox[1] /\ 1 \in DOMAIN k.outbox
  BY <1>t
<1>1. CASE m.beat /\ k.silent
  <2> DEFINE l == [k EXCEPT !.outbox = <<>>, !.silent = FALSE]
  <2>0. <<>> \in Seq(Messages) /\ FALSE \in BOOLEAN
    OBVIOUS
  <2>1. l \in Connections
    BY <2>0, ZenonT(30) DEF Good, Connections
  <2>2. /\ l.starts = k.starts /\ l.outbox = <<>> /\ l.writes = {} /\ l.wire = k.wire
        /\ l.accepted = k.accepted
    BY DEF Good, Connections
  <2>3. Orderly(l)
    BY <2>2 DEF Good, Orderly
  <2>s. k.starts < MaxStarts
    BY <1>1, Zenon
  <2> HIDE DEF l
  <2>4. Good(start(l))
    BY <2>1, <2>2, <2>3, <2>s, StartKeeps DEF Good
  <2> QED
    BY <1>1, <2>4 DEF write, l
<1>2. CASE ~(m.beat /\ k.silent) /\ k.socket = 0
  <2> DEFINE l == [k EXCEPT !.crashed = TRUE]
  <2>1. l \in Connections /\ Alike(k, l)
    BY ZenonT(30) DEF Good, Connections, Alike
  <2>2. Good(l)
    BY <2>1, AlikeOrderly DEF Good
  <2> QED
    BY <1>2, <2>2 DEF write
<1>3. CASE ~(m.beat /\ k.silent) /\ k.socket # 0
  <2> DEFINE h == [k EXCEPT !.silent = @ \/ m.beat]
             w == [msg |-> m, on |-> k.socket, res |-> "pending"]
             l == async_write(h, m)
  <2>b. m.beat \in BOOLEAN /\ m.n \in 1 .. MaxMessages
    BY <1>m DEF Messages
  <2>0. (k.silent \/ m.beat) \in BOOLEAN
    OBVIOUS
  <2>1. h \in Connections /\ Alike(k, h) /\ h.socket = k.socket
    BY <2>0, ZenonT(30) DEF Good, Connections, Alike
  <2>2. w \in Writes /\ {w} \in SUBSET Writes
    BY <1>t, <1>m DEF Writes, Results
  <2>3. Append(k.wire, m.n) \in Seq(1 .. MaxMessages)
    BY <1>t, <2>b
  <2> HIDE DEF h, m
  <2>4. /\ l \in Connections /\ l.writes = {w} /\ l.wire = Append(k.wire, m.n)
        /\ l.outbox = k.outbox /\ l.accepted = k.accepted
    <3>1. h.writes = {} /\ h.wire = k.wire /\ h.outbox = k.outbox /\ h.accepted = k.accepted
      BY <2>1 DEF Alike
    <3>2. h.writes \cup {w} = {w}
      BY <3>1
    <3> HIDE DEF w
    <3>3. l = [h EXCEPT !.writes = {w}, !.wire = Append(k.wire, m.n)]
      BY <2>1, <3>1, <3>2 DEF async_write, w
    <3>4. [h EXCEPT !.writes = {w}, !.wire = Append(k.wire, m.n)] \in Connections
      BY <2>1, <2>2, <2>3, ZenonT(30) DEF Connections, Writes
    <3>5. h \in [block : {"there", "stopping", "gone"}, starts : 0 .. MaxStarts,
                 phase : [Attempts -> Phases],
                 interval : 0 .. MaxStarts, authenticate : 0 .. MaxStarts,
                 socket : 0 .. MaxStarts, chain : [Attempts -> Chains],
                 outbox : Seq(Messages), writes : SUBSET Writes,
                 accepted : 0 .. MaxMessages, wire : Seq(1 .. MaxMessages),
                 silent : BOOLEAN, crashed : BOOLEAN]
      BY <2>1 DEF Connections, Writes
    <3> QED
      BY <3>1, <3>3, <3>4, <3>5
  <2>5. Orderly(l)
    <3>1. \A i \in DOMAIN k.wire : k.wire[i] < m.n /\ k.wire[i] <= k.accepted
      BY <1>m DEF Good, Orderly, m
    <3>2. m.n <= k.accepted
      BY <1>m DEF Good, Orderly, m
    <3>3. \A j \in DOMAIN k.outbox : j # 1 => m.n < k.outbox[j].n
      BY <1>m, <1>t DEF Good, Orderly, m
    <3>w. Len(l.wire) = Len(k.wire) + 1 /\ DOMAIN l.wire = 1 .. Len(k.wire) + 1
          /\ l.wire[Len(k.wire) + 1] = m.n
          /\ DOMAIN k.wire = 1 .. Len(k.wire) /\ Len(k.wire) \in Nat
          /\ \A i \in DOMAIN k.wire : l.wire[i] = k.wire[i]
      BY <1>t, <2>b, <2>4
    <3> HIDE DEF l
    <3>4. \A i, j \in DOMAIN l.wire : i < j => l.wire[i] < l.wire[j]
      BY <3>1, <3>w DEF Good, Orderly
    <3>5. \A i \in DOMAIN l.wire : l.wire[i] <= k.accepted
      <4> TAKE i \in DOMAIN l.wire
      <4>1. CASE i = Len(k.wire) + 1
        BY <3>2, <3>w, <4>1
      <4>2. CASE i # Len(k.wire) + 1
        BY <3>1, <3>w, <4>2
      <4> QED
        BY <4>1, <4>2
    <3>6. \A i \in DOMAIN l.wire, j \in DOMAIN k.outbox :
             l.wire[i] < k.outbox[j].n \/ (j = 1 /\ l.wire[i] = k.outbox[j].n)
      <4> TAKE i \in DOMAIN l.wire, j \in DOMAIN k.outbox
      <4>1. CASE i = Len(k.wire) + 1
        BY <1>m, <3>3, <3>w, <4>1 DEF m
      <4>2. CASE i # Len(k.wire) + 1
        BY <3>w, <4>2 DEF Good, Orderly
      <4> QED
        BY <4>1, <4>2
    <3>7. \A v \in l.writes : l.writes = {v} /\ l.outbox # <<>> /\ v.msg = Head(l.outbox)
      BY <2>4 DEF m
    <3> QED
      BY <2>4, <3>4, <3>5, <3>6, <3>7 DEF Orderly, Good
  <2>6. write(k) = l
    BY <1>3 DEF write, h, m
  <2> QED
    BY <2>4, <2>5, <2>6 DEF Good
<1> QED
  BY <1>1, <1>2, <1>3

\* writeImpl puts the message behind every other.
LEMMA EnqueueKeeps ==
    ASSUME NEW k, Good(k), NEW m \in Messages, m.n = k.accepted + 1
    PROVE  /\ Good(enqueue(k, m))
           /\ enqueue(k, m).outbox = Append(k.outbox, m)
           /\ enqueue(k, m).writes = k.writes
           /\ enqueue(k, m).starts = k.starts
<1> DEFINE l == enqueue(k, m)
<1>t. /\ k.outbox \in Seq(Messages) /\ k.wire \in Seq(1 .. MaxMessages)
      /\ k.accepted \in 0 .. MaxMessages
  BY DEF Good, Connections
<1>m. m.n \in 1 .. MaxMessages /\ m.n \in 0 .. MaxMessages
  BY CiosBoundsAssumption DEF Messages
<1>1. Append(k.outbox, m) \in Seq(Messages)
  BY <1>t
<1>2. l \in Connections
  BY <1>1, <1>m, ZenonT(30) DEF Good, Connections, enqueue
<1>3. /\ l.outbox = Append(k.outbox, m) /\ l.writes = k.writes
      /\ l.starts = k.starts /\ l.wire = k.wire /\ l.accepted = m.n
  BY DEF Good, Connections, enqueue
<1> HIDE DEF l
<1>o. /\ DOMAIN l.outbox = 1 .. Len(k.outbox) + 1
      /\ DOMAIN k.outbox = 1 .. Len(k.outbox) /\ Len(k.outbox) \in Nat
      /\ l.outbox[Len(k.outbox) + 1] = m
      /\ \A i \in DOMAIN k.outbox : l.outbox[i] = k.outbox[i]
  BY <1>t, <1>3
<1>w. \A i \in DOMAIN k.wire : k.wire[i] \in Nat /\ k.wire[i] <= k.accepted
  <2>1. \A i \in DOMAIN k.wire : k.wire[i] \in 1 .. MaxMessages
    BY <1>t, ElementsOf, ZenonT(30)
  <2> QED
    BY <2>1, CiosBoundsAssumption DEF Good, Orderly
<1>n. \A j \in DOMAIN k.outbox : k.outbox[j].n \in Nat /\ k.outbox[j].n <= k.accepted
  <2>1. \A j \in DOMAIN k.outbox : k.outbox[j] \in Messages
    BY <1>t
  <2>2. \A x \in Messages : x.n \in Nat
    BY CiosBoundsAssumption DEF Messages
  <2> QED
    BY <2>1, <2>2 DEF Good, Orderly
<1>4. \A w \in l.writes :
         l.writes = {w} /\ l.outbox # <<>> /\ w.msg = Head(l.outbox)
  <2> TAKE w \in l.writes
  <2>1. l.writes = {w} /\ k.outbox # <<>> /\ w.msg = Head(k.outbox)
    BY <1>3 DEF Good, Orderly
  <2>2. Append(k.outbox, m) # <<>> /\ Head(Append(k.outbox, m)) = Head(k.outbox)
    BY <1>t, <2>1
  <2> QED
    BY <1>3, <2>1, <2>2
<1>5. \A i, j \in DOMAIN l.outbox : i < j => l.outbox[i].n < l.outbox[j].n
  <2> SUFFICES ASSUME NEW i \in DOMAIN l.outbox, NEW j \in DOMAIN l.outbox, i < j
               PROVE  l.outbox[i].n < l.outbox[j].n
    OBVIOUS
  <2>1. i \in 1 .. Len(k.outbox) /\ j \in 1 .. Len(k.outbox) + 1
    BY <1>o
  <2>2. CASE j = Len(k.outbox) + 1
    <3>1. l.outbox[i].n \in Nat /\ l.outbox[i].n <= k.accepted
      BY <1>o, <1>n, <2>1
    <3>2. l.outbox[j].n = k.accepted + 1
      BY <1>o, <2>2
    <3> QED
      BY <1>t, <3>1, <3>2
  <2>3. CASE j # Len(k.outbox) + 1
    BY <1>o, <2>1, <2>3 DEF Good, Orderly
  <2> QED
    BY <2>2, <2>3
<1>6. \A j \in DOMAIN l.outbox : l.outbox[j].n <= l.accepted
  <2> TAKE j \in DOMAIN l.outbox
  <2>1. CASE j = Len(k.outbox) + 1
    BY <1>o, <1>m, <1>3, <2>1
  <2>2. CASE j # Len(k.outbox) + 1
    BY <1>o, <1>n, <1>t, <1>3, <2>2
  <2> QED
    BY <2>1, <2>2
<1>7. \A i \in DOMAIN l.wire, j \in DOMAIN l.outbox :
         l.wire[i] < l.outbox[j].n
           \/ (l.writes # {} /\ j = 1 /\ l.wire[i] = l.outbox[j].n)
  <2> TAKE i \in DOMAIN l.wire, j \in DOMAIN l.outbox
  <2>1. CASE j = Len(k.outbox) + 1
    BY <1>o, <1>w, <1>t, <1>3, <2>1
  <2>2. CASE j # Len(k.outbox) + 1
    BY <1>o, <1>3, <2>2 DEF Good, Orderly
  <2> QED
    BY <2>1, <2>2
<1>8. \A i \in DOMAIN l.wire : l.wire[i] <= l.accepted
  BY <1>w, <1>t, <1>3
<1>9. \A i, j \in DOMAIN l.wire : i < j => l.wire[i] < l.wire[j]
  BY <1>3 DEF Good, Orderly
<1>10. Orderly(l)
  BY <1>4, <1>5, <1>6, <1>7, <1>8, <1>9 DEF Orderly
<1> QED
  BY <1>2, <1>3, <1>10 DEF Good, l

\* writeHandler takes the front away: it was the one on its way.
LEMMA PopKeeps ==
    ASSUME NEW k, Good(k), NEW w \in k.writes
    PROVE  /\ Good(pop(k, w))
           /\ pop(k, w).writes = {}
           /\ pop(k, w).starts = k.starts
<1> DEFINE l == pop(k, w)
<1>t. k.outbox \in Seq(Messages) /\ k.writes = {w} /\ k.outbox # <<>>
  BY DEF Good, Connections, Orderly
<1>1. Tail(k.outbox) \in Seq(Messages) /\ k.writes \ {w} = {}
  BY <1>t
<1>2. l \in Connections
  <2>1. [k EXCEPT !.writes = {}, !.outbox = Tail(k.outbox)] \in Connections
    BY <1>1, ZenonT(30) DEF Good, Connections
  <2> QED
    BY <2>1, <1>1, ZenonT(30) DEF pop, Good, Connections
<1>3. /\ l.outbox = Tail(k.outbox) /\ l.writes = {} /\ l.starts = k.starts
      /\ l.wire = k.wire /\ l.accepted = k.accepted
  BY <1>1 DEF Good, Connections, pop
<1> HIDE DEF l
<1>4. /\ Len(k.outbox) \in Nat \ {0} /\ DOMAIN k.outbox = 1 .. Len(k.outbox)
      /\ DOMAIN l.outbox = 1 .. Len(k.outbox) - 1
      /\ \A j \in DOMAIN l.outbox : l.outbox[j] = k.outbox[j + 1]
  <2>1. Len(k.outbox) \in Nat \ {0} /\ DOMAIN k.outbox = 1 .. Len(k.outbox)
    BY <1>t
  <2>2. Len(l.outbox) = Len(k.outbox) - 1 /\ DOMAIN l.outbox = 1 .. Len(l.outbox)
    BY <1>t, <1>1, <1>3
  <2>3. \A j \in 1 .. Len(k.outbox) - 1 : Tail(k.outbox)[j] = k.outbox[j + 1]
    BY <1>t
  <2> QED
    BY <1>3, <2>1, <2>2, <2>3
<1>5. \A j \in DOMAIN l.outbox : j + 1 \in DOMAIN k.outbox /\ j + 1 # 1
  BY <1>4
<1>6. \A i, j \in DOMAIN l.outbox : i < j => l.outbox[i].n < l.outbox[j].n
  <2> SUFFICES ASSUME NEW i \in DOMAIN l.outbox, NEW j \in DOMAIN l.outbox, i < j
               PROVE  l.outbox[i].n < l.outbox[j].n
    OBVIOUS
  <2>1. i + 1 \in DOMAIN k.outbox /\ j + 1 \in DOMAIN k.outbox /\ i + 1 < j + 1
    BY <1>4, <1>5
  <2>2. k.outbox[i + 1].n < k.outbox[j + 1].n
    BY <2>1 DEF Good, Orderly
  <2> QED
    BY <1>4, <2>2
<1>7. \A i \in DOMAIN l.wire, j \in DOMAIN l.outbox : l.wire[i] < l.outbox[j].n
  BY <1>3, <1>4, <1>5 DEF Good, Orderly
<1>8. \A j \in DOMAIN l.outbox : l.outbox[j].n <= l.accepted
  BY <1>3, <1>4, <1>5 DEF Good, Orderly
<1>9. Orderly(l)
  BY <1>3, <1>6, <1>7, <1>8 DEF Good, Orderly
<1> QED
  BY <1>2, <1>3, <1>9 DEF Good, l

\* The attempts to connect do not touch the outbox.
LEMMA ConnectingKeeps ==
    ASSUME Good(c), NEW a \in Attempts, Connecting(a)
    PROVE  Good(c')
<1>a. a \in 0 .. MaxStarts /\ 0 \in 0 .. MaxStarts
  BY CiosBoundsAssumption DEF Attempts
<1>1. CASE TimerHandler(a)
  BY <1>1, PhaseKeeps, ZenonT(30) DEF TimerHandler, Phases
<1>2. CASE ConnectFails(a)
  BY <1>2, PhaseKeeps, ZenonT(30) DEF ConnectFails, retry, Phases
<1>3. CASE Connects(a)
  BY <1>3, PhaseKeeps, ZenonT(30) DEF Connects, Phases
<1>4. CASE ConnectHandler(a)
  <2>1. CASE c.block = "gone"
    BY <1>4, <2>1, PhaseKeeps, ZenonT(30) DEF ConnectHandler, Phases
  <2>2. CASE c.block # "gone"
    <3>p. PICK p \in {"authenticating", "unwatched"} :
             c' = [c EXCEPT !.phase[a] = p, !.interval = 0, !.authenticate = a]
      BY <1>4, <2>2 DEF ConnectHandler
    <3> DEFINE l == [c EXCEPT !.phase[a] = p]
               m == [l EXCEPT !.interval = 0, !.authenticate = a]
    <3>1. Good(l)
      BY PhaseKeeps, ZenonT(30) DEF Phases
    <3>2. c' = m
      BY <3>p
    <3> HIDE DEF l
    <3>3. m \in Connections /\ Alike(l, m)
      BY <3>1, <1>a, ZenonT(30) DEF Good, Connections, Alike
    <3> QED
      BY <3>1, <3>2, <3>3, AlikeOrderly DEF Good
  <2> QED
    BY <2>1, <2>2
<1>5. CASE Authenticated(a)
  <2>1. PICK p \in {"authenticated", "failed"} : c' = [c EXCEPT !.phase[a] = p]
    BY <1>5 DEF Authenticated
  <2>2. p \in Phases
    BY DEF Phases
  <2> QED
    BY <2>1, <2>2, PhaseKeeps
<1>7. CASE AuthenticateTimer(a)
  <2>1. PICK p \in {"failed", "authenticated", "unwatched"} : c' = [c EXCEPT !.phase[a] = p]
    BY <1>7 DEF AuthenticateTimer
  <2>2. p \in Phases
    BY DEF Phases
  <2> QED
    BY <2>1, <2>2, PhaseKeeps
<1>6. CASE AuthenticateHandler(a)
  <2> DEFINE l == cancel(c, c.socket)
             l1 == [l EXCEPT !.phase[a] = "over"]
             m == [l1 EXCEPT !.socket = a, !.authenticate = 0]
  <2>1. Good(l)
    BY CancelKeeps
  <2>2. c' = read(m, a)
    BY <1>6 DEF AuthenticateHandler
  <2> HIDE DEF l
  <2>3. Good(l1)
    BY <2>1, PhaseKeeps, ZenonT(30) DEF Phases
  <2> HIDE DEF l1
  <2>4. m \in Connections /\ Alike(l1, m)
    BY <2>3, <1>a, ZenonT(30) DEF Good, Connections, Alike
  <2>5. Good(m)
    BY <2>3, <2>4, AlikeOrderly DEF Good
  <2> QED
    BY <2>2, <2>5, ReadKeeps
<1> QED
  BY <1>1, <1>2, <1>3, <1>4, <1>5, <1>6, <1>7 DEF Connecting

\* The chains of reads do not touch the outbox.
LEMMA ReceivingKeeps ==
    ASSUME Good(c), NEW a \in Attempts, Receiving(a)
    PROVE  Good(c')
<1>n. NoChain \in Chains
  BY CiosBoundsAssumption DEF NoChain, Chains, Results
<1>c. c.chain[a] \in Chains /\ c.socket \in 0 .. MaxStarts
  BY DEF Good, Connections
<1>m. ASSUME NEW k, Good(k), NEW p \in {"pulse", "away"}
      PROVE  Good(move(k, a, p))
  <2>1. [NoChain EXCEPT !.at = p] \in Chains
    BY CiosBoundsAssumption DEF NoChain, Chains, Results
  <2> QED
    BY <1>m, <2>1, ChainKeeps DEF move
<1>1. CASE ReadCompletes(a)
  <2>1. PICK r \in {"ok", "failed"} : c' = [c EXCEPT !.chain[a].res = r]
    BY <1>1 DEF ReadCompletes
  <2>2. [c.chain[a] EXCEPT !.res = r] \in Chains
    BY <1>c DEF Chains, Results
  <2>3. c' = [c EXCEPT !.chain[a] = [c.chain[a] EXCEPT !.res = r]]
    BY <2>1 DEF Good, Connections
  <2> QED
    BY <2>2, <2>3, ChainKeeps
<1>2. CASE ReadAborted(a)
  BY <1>2, <1>n, ChainKeeps DEF ReadAborted
<1>3. CASE ReadFailed(a)
  <2>1. /\ Good([c EXCEPT !.chain[a] = NoChain])
        /\ [c EXCEPT !.chain[a] = NoChain].starts < MaxStarts
    BY <1>3, <1>n, ChainKeeps DEF ReadFailed, CanStart
  <2> QED
    BY <1>3, <2>1, StartKeeps, ZenonT(30) DEF ReadFailed
<1>4. CASE ReadHeaderHandler(a)
  <2>1. CASE c.socket = 0
    <3>1. /\ [c EXCEPT !.crashed = TRUE] \in Connections
          /\ Alike(c, [c EXCEPT !.crashed = TRUE])
      BY ZenonT(30) DEF Good, Connections, Alike
    <3> QED
      BY <1>4, <2>1, <3>1, AlikeOrderly DEF ReadHeaderHandler, Good
  <2>2. CASE c.socket # 0
    <3>1. [at |-> "data", on |-> c.socket, res |-> "pending"] \in Chains
      BY <1>c DEF Chains, Results
    <3> QED
      BY <1>4, <2>2, <3>1, ChainKeeps DEF ReadHeaderHandler
  <2> QED
    BY <2>1, <2>2
<1>5. CASE ReadDataHandler(a)
  BY <1>5, <1>m, ReadKeeps DEF ReadDataHandler
<1>6. CASE Pulse(a)
  <2> DEFINE k == [c EXCEPT !.silent = FALSE]
  <2>1. k \in Connections /\ Alike(c, k)
    BY ZenonT(30) DEF Good, Connections, Alike
  <2>2. Good(k)
    BY <2>1, AlikeOrderly DEF Good
  <2>3. c' = read(k, a) \/ c' = move(k, a, "away")
    BY <1>6 DEF Pulse
  <2> HIDE DEF k
  <2> QED
    BY <2>2, <2>3, <1>m, ReadKeeps
<1>7. CASE FindJobHandler(a)
  BY <1>7, ReadKeeps DEF FindJobHandler
<1> QED
  BY <1>1, <1>2, <1>3, <1>4, <1>5, <1>6, <1>7 DEF Receiving

\* The steps of a write.
LEMMA WritingKeeps ==
    ASSUME Good(c),
           \/ \E beat \in BOOLEAN : WriteImpl(beat)
           \/ \E w \in c.writes : WriteCompletes(w) \/ WriteHandler(w)
    PROVE  Good(c')
<1>t. c.outbox \in Seq(Messages) /\ c.accepted \in 0 .. MaxMessages
  BY DEF Good, Connections
<1>1. ASSUME NEW beat \in BOOLEAN, WriteImpl(beat)
      PROVE  Good(c')
  <2> DEFINE m == [n |-> c.accepted + 1, beat |-> beat]
             k == enqueue(c, m)
  <2>a. c.accepted + 1 \in 1 .. MaxMessages
    BY <1>1, <1>t, CiosBoundsAssumption DEF WriteImpl
  <2>0. m \in Messages /\ m.n = c.accepted + 1
    BY <2>a DEF Messages
  <2>b. m.beat = beat
    OBVIOUS
  <2>1. c' = sendNext(k) /\ (beat => c.starts < MaxStarts)
    BY <1>1, Zenon DEF WriteImpl, CanStart
  <2> HIDE DEF m
  <2>2. /\ Good(k) /\ k.outbox = Append(c.outbox, m)
        /\ k.writes = c.writes /\ k.starts = c.starts
    BY <2>0, EnqueueKeeps
  <2> HIDE DEF k
  <2>3. CASE Len(k.outbox) > 1
    BY <2>1, <2>2, <2>3 DEF sendNext
  <2>4. CASE ~(Len(k.outbox) > 1)
    <3>1. c.outbox = <<>>
      BY <1>t, <2>0, <2>2, <2>4
    <3>2. k.writes = {}
      BY <2>2, <3>1 DEF Good, Orderly
    <3>3. k.outbox # <<>> /\ Head(k.outbox) = m
      BY <2>2, <2>0, <3>1
    <3>4. Head(k.outbox).beat => k.starts < MaxStarts
      BY <2>b, <2>1, <2>2, <3>3, Zenon
    <3> QED
      BY <2>1, <2>2, <2>4, <3>2, <3>3, <3>4, WriteKeeps DEF sendNext
  <2> QED
    BY <2>3, <2>4
<1>2. ASSUME NEW w \in c.writes, WriteCompletes(w)
      PROVE  Good(c')
  <2>1. PICK r \in {"ok", "failed"} :
            c' = [c EXCEPT !.writes = (@ \ {w}) \cup {[w EXCEPT !.res = r]}]
    BY <1>2 DEF WriteCompletes
  <2> DEFINE v == [w EXCEPT !.res = r]
  <2>2. w \in Writes /\ c.writes = {w} /\ c.outbox # <<>> /\ w.msg = Head(c.outbox)
    BY DEF Good, Connections, Orderly, Writes
  <2>3. v \in Writes /\ v.msg = w.msg
    BY <2>2 DEF Writes, Results
  <2>4. c' = [c EXCEPT !.writes = {v}]
    <3>1. (c.writes \ {w}) \cup {v} = {v}
      BY <2>2
    <3> QED
      BY <2>1, <3>1
  <2> HIDE DEF v
  <2>5. c' \in Connections
    BY <2>3, <2>4 DEF Good, Connections, Writes
  <2>6. /\ c'.outbox = c.outbox /\ c'.wire = c.wire
        /\ c'.accepted = c.accepted /\ c'.writes = {v}
    BY <2>4 DEF Good, Connections
  <2>7. Orderly(c')
    BY <2>2, <2>3, <2>6 DEF Good, Orderly
  <2> QED
    BY <2>5, <2>7 DEF Good
<1>3. ASSUME NEW w \in c.writes, WriteHandler(w)
      PROVE  Good(c')
  <2> DEFINE k == pop(c, w)
  <2>1. Good(k) /\ k.writes = {} /\ k.starts = c.starts
    BY PopKeeps
  <2>2. /\ w.res = "ok" /\ k.outbox # <<>> /\ Head(k.outbox).beat => c.starts < MaxStarts
        /\ c' = IF w.res # "ok" \/ k.outbox = <<>> THEN k ELSE write(k)
    BY <1>3 DEF WriteHandler, CanStart
  <2> HIDE DEF k
  <2>3. CASE w.res # "ok" \/ k.outbox = <<>>
    BY <2>1, <2>2, <2>3
  <2>4. CASE ~(w.res # "ok" \/ k.outbox = <<>>)
    <3>1. Head(k.outbox).beat => k.starts < MaxStarts
      BY <2>1, <2>2, <2>4, Zenon
    <3> QED
      BY <2>1, <2>2, <2>4, <3>1, WriteKeeps
  <2> QED
    BY <2>3, <2>4
<1> QED
  BY <1>1, <1>2, <1>3

\* The end of the block.
LEMMA EndingKeeps ==
    ASSUME Good(c), StopImpl \/ BlockRemoved
    PROVE  Good(c')
<1>1. CASE StopImpl
  <2>1. PICK hit \in SUBSET (Attempts \cap {c.interval, c.authenticate}) :
           c' = [cancel(c, c.socket) EXCEPT
                   !.block = IF @ = "gone" THEN "gone" ELSE "stopping",
                   !.phase = [a \in Attempts |->
                       IF a \in hit /\ c.phase[a] \in
                             {"waiting", "connecting", "authenticating", "unwatched"}
                       THEN "over" ELSE c.phase[a]]]
    BY <1>1, ZenonT(30) DEF StopImpl
  <2> DEFINE l == cancel(c, c.socket)
             ph == [a \in Attempts |->
                       IF a \in hit /\ c.phase[a] \in
                             {"waiting", "connecting", "authenticating", "unwatched"}
                       THEN "over" ELSE c.phase[a]]
             bl == IF l.block = "gone" THEN "gone" ELSE "stopping"
             m == [l EXCEPT !.block = bl, !.phase = ph]
  <2>2. Good(l)
    BY CancelKeeps
  <2>3. ph \in [Attempts -> Phases]
    BY DEF Good, Connections, Phases
  <2>4. c' = m
    BY <2>1
  <2>6. bl \in {"stopping", "gone"}
    OBVIOUS
  <2> HIDE DEF l, ph, bl
  <2>5. m \in Connections /\ Alike(l, m)
    BY <2>2, <2>3, <2>6, ZenonT(30) DEF Good, Connections, Alike
  <2> QED
    BY <2>2, <2>4, <2>5, AlikeOrderly DEF Good
<1>2. CASE BlockRemoved
  <2>1. c' \in Connections /\ Alike(c, c')
    BY <1>2 DEF BlockRemoved, Good, Connections, Alike
  <2> QED
    BY <2>1, AlikeOrderly DEF Good
<1> QED
  BY <1>1, <1>2

\* OutboxInv is an invariant of the connection, whatever the numbers of
\* sessions and messages.
THEOREM OutboxInvariant == CiosSafety => []OutboxInv
<1>1. CiosInit => OutboxInv
  <2> SUFFICES ASSUME CiosInit PROVE OutboxInv
    OBVIOUS
  <2>1. NoChain \in Chains
    BY CiosBoundsAssumption DEF NoChain, Chains, Results
  <2>2. /\ [a \in Attempts |-> IF a = 1 THEN "waiting" ELSE "none"] \in [Attempts -> Phases]
        /\ [a \in Attempts |-> NoChain] \in [Attempts -> Chains]
    BY <2>1 DEF Phases
  <2>3. c \in Connections
    BY <2>2, CiosBoundsAssumption DEF CiosInit, NewConnection, Connections
  <2>4. Orderly(c)
    BY DEF CiosInit, NewConnection, Orderly
  <2> QED
    BY <2>3, <2>4, InvIsGood DEF CiosInit, Good
<1>2. OutboxInv /\ [CiosNext]_cvars => OutboxInv'
  <2> SUFFICES ASSUME OutboxInv, [CiosNext]_cvars PROVE OutboxInv'
    OBVIOUS
  <2>1. service \in {"jobctl", "stdio"} /\ Good(c)
    BY InvIsGood
  <2>2. CASE CiosNext
    <3>1. service' = service
      BY <2>2 DEF CiosNext, Step
    <3>2. Good(c')
      BY <2>1, <2>2, ConnectingKeeps, ReceivingKeeps, WritingKeeps, EndingKeeps
         DEF CiosNext, Step
    <3>3. (service \in {"jobctl", "stdio"} /\ Good(c))'
      BY <2>1, <3>1, <3>2 DEF Good, Orderly
    <3> QED
      BY <3>3, InvIsGood, PTL
  <2>3. CASE UNCHANGED cvars
    BY <2>3, ZenonT(30) DEF cvars, OutboxInv, CTypeOK, FrontInFlight, WrittenInOrder
  <2> QED
    BY <2>2, <2>3
<1> QED
  BY <1>1, <1>2, PTL DEF CiosSafety

\* One message at a time is on its way, and it is the one that writeHandler
\* removes.
THEOREM FrontIsInFlight == CiosSafety => []FrontInFlight
BY OutboxInvariant, PTL DEF OutboxInv

\* Messages are written in the order of writeImpl and never twice.
THEOREM MessagesInOrder == CiosSafety => []WrittenInOrder
BY OutboxInvariant, PTL DEF OutboxInv

---------------------------------------------------------------------------
(* The chains of reads.                                                    *)

\* Listening and NotDeaf, of any value k of c.
Hears(k, a) ==
    \/ k.chain[a].at \in {"pulse", "away"}
    \/ k.chain[a].at \in {"header", "data"} /\ k.chain[a].res \in {"ok", "failed"}
    \/ /\ k.chain[a].at \in {"header", "data"}
       /\ k.chain[a].res = "pending" /\ k.chain[a].on = k.socket

Hearing(k) == k.socket # 0 /\ k.block = "there" => \E a \in Attempts : Hears(k, a)

\* NotDeaf in terms of Hearing.
LEMMA NotDeafIsHearing == NotDeaf <=> Hearing(c)
BY DEF NotDeaf, Hearing, Hears, Listening, Reading

\* Hearing reads three of the fields.
LEMMA SameHearing ==
    ASSUME NEW k, NEW l, Hearing(k),
           l.chain = k.chain, l.socket = k.socket, l.block = k.block
    PROVE  Hearing(l)
BY DEF Hearing, Hears

\* After start() there is no socket, or no block.
LEMMA StartHears ==
    ASSUME NEW k, k \in Connections, k.starts < MaxStarts
    PROVE  Hearing(start(k))
<1>1. CASE k.block = "gone"
  BY <1>1 DEF start, Hearing
<1>2. CASE k.block # "gone"
  <2> DEFINE l == cancel(k, k.socket)
             m == [l EXCEPT !.socket = 0]
  <2>1. start(k) = [m EXCEPT !.starts = k.starts + 1,
                             !.phase[k.starts + 1] = "waiting",
                             !.interval = k.starts + 1]
    BY <1>2 DEF start
  <2>2. DOMAIN l = DOMAIN k /\ "socket" \in DOMAIN k
    BY DEF cancel, Connections
  <2> HIDE DEF l
  <2>3. m.socket = 0
    BY <2>2
  <2>4. start(k).socket = 0
    BY <2>1, <2>3
  <2> QED
    BY <2>4 DEF Hearing
<1> QED
  BY <1>1, <1>2

\* A chain that is put in a place where it hears.
LEMMA ChainHears ==
    ASSUME NEW k, k \in Connections, NEW a \in Attempts, NEW x \in Chains,
           \/ x.at \in {"pulse", "away"}
           \/ x.at \in {"header", "data"} /\ x.res \in {"ok", "failed"}
           \/ x.at \in {"header", "data"} /\ x.res = "pending" /\ x.on = k.socket
    PROVE  Hearing([k EXCEPT !.chain[a] = x])
<1> DEFINE l == [k EXCEPT !.chain[a] = x]
<1>1. l.chain[a] = x /\ l.socket = k.socket
  BY DEF Connections
<1> HIDE DEF l
<1>2. Hears(l, a)
  BY <1>1 DEF Hears
<1>3. Hearing(l)
  BY <1>2 DEF Hearing
<1> QED
  BY <1>3 DEF l

\* read() is heard, if there is a socket to read from.
LEMMA ReadHears ==
    ASSUME NEW k, k \in Connections, NEW a \in Attempts
    PROVE  Hearing(read(k, a))
<1>1. CASE k.socket = 0
  <2>1. read(k, a).socket = 0
    BY <1>1 DEF read, Connections
  <2> QED
    BY <2>1 DEF Hearing
<1>2. CASE k.socket # 0
  <2>1. [at |-> "header", on |-> k.socket, res |-> "pending"] \in Chains
    BY DEF Chains, Results, Connections
  <2> QED
    BY <1>2, <2>1, ChainHears DEF read
<1> QED
  BY <1>1, <1>2

\* write() leaves the chains and the socket, or starts again.
LEMMA WriteHears ==
    ASSUME NEW k, Good(k), Hearing(k), k.outbox # <<>>, k.writes = {},
           Head(k.outbox).beat => k.starts < MaxStarts
    PROVE  Hearing(write(k))
<1> DEFINE m == Head(k.outbox)
<1>1. CASE m.beat /\ k.silent
  <2> DEFINE l == [k EXCEPT !.outbox = <<>>, !.silent = FALSE]
  <2>0. <<>> \in Seq(Messages) /\ FALSE \in BOOLEAN
    OBVIOUS
  <2>1. l \in Connections /\ l.starts = k.starts
    <3>1. l \in Connections
      BY <2>0, ZenonT(30) DEF Good, Connections
    <3>2. l.starts = k.starts
      BY DEF Good, Connections
    <3> QED
      BY <3>1, <3>2
  <2>s. k.starts < MaxStarts
    BY <1>1, Zenon
  <2> HIDE DEF l
  <2>2. Hearing(start(l))
    BY <2>1, <2>s, StartHears
  <2> QED
    BY <1>1, <2>2 DEF write, l
<1>2. CASE ~(m.beat /\ k.silent) /\ k.socket = 0
  <2>1. write(k).socket = 0
    BY <1>2 DEF write, Good, Connections
  <2> QED
    BY <2>1 DEF Hearing
<1>3. CASE ~(m.beat /\ k.silent) /\ k.socket # 0
  <2> DEFINE h == [k EXCEPT !.silent = @ \/ m.beat]
  <2>1. write(k) = async_write(h, m)
    BY <1>3 DEF write
  <2>2. /\ h.chain = k.chain /\ h.socket = k.socket /\ h.block = k.block
        /\ DOMAIN h = DOMAIN k
    BY DEF Good, Connections
  <2> HIDE DEF h, m
  <2>3. /\ async_write(h, m).chain = h.chain /\ async_write(h, m).socket = h.socket
        /\ async_write(h, m).block = h.block
    BY <2>2 DEF async_write, Good, Connections
  <2> QED
    BY <2>1, <2>2, <2>3, SameHearing
<1> QED
  BY <1>1, <1>2, <1>3

\* Every step keeps a chain that hears, or loses the socket.
LEMMA StepHears ==
    ASSUME Good(c), Hearing(c), CiosNext
    PROVE  Hearing(c')
<1>t. c \in Connections /\ c.outbox \in Seq(Messages) /\ c.accepted \in 0 .. MaxMessages
  BY DEF Good, Connections
<1>s. ASSUME c'.chain = c.chain, c'.socket = c.socket, c'.block = c.block
      PROVE  Hearing(c')
  BY <1>s, SameHearing
<1>1. ASSUME NEW a \in Attempts, Connecting(a)
      PROVE  Hearing(c')
  <2>1. CASE AuthenticateHandler(a)
    <3> DEFINE l == cancel(c, c.socket)
               l1 == [l EXCEPT !.phase[a] = "over"]
               m == [l1 EXCEPT !.socket = a, !.authenticate = 0]
    <3>1. Good(l1)
      BY CancelKeeps, PhaseKeeps, ZenonT(30) DEF Phases
    <3> HIDE DEF l1
    <3>a. a \in 0 .. MaxStarts /\ 0 \in 0 .. MaxStarts
      BY CiosBoundsAssumption DEF Attempts
    <3>2. m \in Connections
      BY <3>1, <3>a, ZenonT(30) DEF Good, Connections
    <3>3. c' = read(m, a)
      BY <2>1 DEF AuthenticateHandler, l1
    <3> HIDE DEF m
    <3> QED
      BY <3>2, <3>3, ReadHears
  <2>2. CASE ~AuthenticateHandler(a)
    <3>1. c'.chain = c.chain /\ c'.socket = c.socket /\ c'.block = c.block
      BY <1>1, <2>2, <1>t, ZenonT(30) DEF Connecting, TimerHandler, ConnectFails, retry, Connects,
            ConnectHandler, Authenticated, AuthenticateTimer, Connections
    <3> QED
      BY <1>s, <3>1
  <2> QED
    BY <2>1, <2>2
<1>2. ASSUME NEW a \in Attempts, Receiving(a)
      PROVE  Hearing(c')
  <2>c. c.chain[a] \in Chains /\ c.socket \in 0 .. MaxStarts
    BY <1>t DEF Connections
  <2>m. ASSUME NEW k \in Connections, NEW p \in {"pulse", "away"}
        PROVE  Hearing(move(k, a, p))
    <3>1. [NoChain EXCEPT !.at = p] \in Chains /\ [NoChain EXCEPT !.at = p].at = p
      BY CiosBoundsAssumption DEF NoChain, Chains, Results
    <3> QED
      BY <3>1, ChainHears, ZenonT(30) DEF move
  <2>1. CASE ReadCompletes(a)
    <3>1. PICK r \in {"ok", "failed"} : c' = [c EXCEPT !.chain[a].res = r]
      BY <2>1 DEF ReadCompletes
    <3> DEFINE x == [c.chain[a] EXCEPT !.res = r]
    <3>2. x \in Chains /\ x.at = c.chain[a].at /\ x.res = r
      BY <2>c DEF Chains, Results
    <3>3. c' = [c EXCEPT !.chain[a] = x]
      BY <3>1, <1>t DEF Connections
    <3>4. c.chain[a].at \in {"header", "data"}
      BY <2>1 DEF ReadCompletes, Reading
    <3> HIDE DEF x
    <3> QED
      BY <1>t, <3>2, <3>3, <3>4, ChainHears
  <2>2. CASE ReadAborted(a)
    <3>1. /\ c'.socket = c.socket /\ c'.block = c.block
          /\ \A b \in Attempts : b # a => c'.chain[b] = c.chain[b]
      BY <2>2, <1>t DEF ReadAborted, Connections
    <3>2. ~Hears(c, a)
      BY <2>2 DEF ReadAborted, Reading, Hears
    <3> QED
      BY <3>1, <3>2 DEF Hearing, Hears
  <2>3. CASE ReadFailed(a)
    <3> DEFINE k == [c EXCEPT !.chain[a] = NoChain]
    <3>1. NoChain \in Chains
      BY CiosBoundsAssumption DEF NoChain, Chains, Results
    <3>2. k \in Connections /\ k.starts < MaxStarts
      BY <2>3, <3>1, ChainKeeps DEF ReadFailed, CanStart, Good
    <3>3. c' = start(k)
      BY <2>3 DEF ReadFailed
    <3> HIDE DEF k
    <3> QED
      BY <3>2, <3>3, StartHears
  <2>4. CASE ReadHeaderHandler(a)
    <3>1. CASE c.socket = 0
      <4>1. c'.chain = c.chain /\ c'.socket = c.socket /\ c'.block = c.block
        BY <2>4, <3>1, <1>t DEF ReadHeaderHandler, Connections
      <4> QED
        BY <1>s, <4>1
    <3>2. CASE c.socket # 0
      <4>1. [at |-> "data", on |-> c.socket, res |-> "pending"] \in Chains
        BY <2>c DEF Chains, Results
      <4> QED
        BY <2>4, <3>2, <4>1, <1>t, ChainHears DEF ReadHeaderHandler
    <3> QED
      BY <3>1, <3>2
  <2>5. CASE ReadDataHandler(a)
    BY <2>5, <1>t, <2>m, ReadHears DEF ReadDataHandler
  <2>6. CASE Pulse(a)
    <3> DEFINE k == [c EXCEPT !.silent = FALSE]
    <3>1. k \in Connections
      BY <1>t, ZenonT(30) DEF Connections
    <3>2. c' = read(k, a) \/ c' = move(k, a, "away")
      BY <2>6 DEF Pulse
    <3> HIDE DEF k
    <3> QED
      BY <3>1, <3>2, <2>m, ReadHears
  <2>7. CASE FindJobHandler(a)
    BY <2>7, <1>t, ReadHears DEF FindJobHandler
  <2> QED
    BY <1>2, <2>1, <2>2, <2>3, <2>4, <2>5, <2>6, <2>7 DEF Receiving
<1>3. ASSUME NEW beat \in BOOLEAN, WriteImpl(beat)
      PROVE  Hearing(c')
  <2> DEFINE m == [n |-> c.accepted + 1, beat |-> beat]
             k == enqueue(c, m)
  <2>a. c.accepted + 1 \in 1 .. MaxMessages
    BY <1>3, <1>t, CiosBoundsAssumption DEF WriteImpl
  <2>0. m \in Messages /\ m.n = c.accepted + 1
    BY <2>a DEF Messages
  <2>b. m.beat = beat
    OBVIOUS
  <2>1. c' = sendNext(k) /\ (beat => c.starts < MaxStarts)
    BY <1>3, Zenon DEF WriteImpl, CanStart
  <2> HIDE DEF m
  <2>2. /\ Good(k) /\ k.outbox = Append(c.outbox, m)
        /\ k.writes = c.writes /\ k.starts = c.starts
    BY <2>0, EnqueueKeeps
  <2>h. Hearing(k)
    <3>1. k.chain = c.chain /\ k.socket = c.socket /\ k.block = c.block
      BY <1>t DEF enqueue, Connections
    <3> HIDE DEF k
    <3> QED
      BY <3>1, SameHearing
  <2> HIDE DEF k
  <2>3. CASE Len(k.outbox) > 1
    BY <2>1, <2>h, <2>3 DEF sendNext
  <2>4. CASE ~(Len(k.outbox) > 1)
    <3>1. c.outbox = <<>>
      BY <1>t, <2>0, <2>2, <2>4
    <3>2. k.writes = {}
      BY <2>2, <3>1 DEF Good, Orderly
    <3>3. k.outbox # <<>> /\ Head(k.outbox) = m
      BY <2>2, <2>0, <3>1
    <3>4. Head(k.outbox).beat => k.starts < MaxStarts
      BY <2>b, <2>1, <2>2, <3>3, Zenon
    <3> QED
      BY <2>1, <2>2, <2>h, <2>4, <3>2, <3>3, <3>4, WriteHears DEF sendNext
  <2> QED
    BY <2>3, <2>4
<1>4. ASSUME NEW w \in c.writes, WriteCompletes(w)
      PROVE  Hearing(c')
  <2>1. c'.chain = c.chain /\ c'.socket = c.socket /\ c'.block = c.block
    BY <1>4, <1>t DEF WriteCompletes, Connections
  <2> QED
    BY <1>s, <2>1
<1>5. ASSUME NEW w \in c.writes, WriteHandler(w)
      PROVE  Hearing(c')
  <2> DEFINE k == pop(c, w)
  <2>1. Good(k) /\ k.writes = {} /\ k.starts = c.starts
    BY PopKeeps
  <2>2. /\ w.res = "ok" /\ k.outbox # <<>> /\ Head(k.outbox).beat => c.starts < MaxStarts
        /\ c' = IF w.res # "ok" \/ k.outbox = <<>> THEN k ELSE write(k)
    BY <1>5 DEF WriteHandler, CanStart
  <2>h. Hearing(k)
    <3>1. k.chain = c.chain /\ k.socket = c.socket /\ k.block = c.block
      BY <1>t DEF pop, Connections
    <3> HIDE DEF k
    <3> QED
      BY <3>1, SameHearing
  <2> HIDE DEF k
  <2>3. CASE w.res # "ok" \/ k.outbox = <<>>
    BY <2>h, <2>2, <2>3
  <2>4. CASE ~(w.res # "ok" \/ k.outbox = <<>>)
    <3>1. Head(k.outbox).beat => k.starts < MaxStarts
      BY <2>1, <2>2, <2>4, Zenon
    <3> QED
      BY <2>1, <2>2, <2>h, <2>4, <3>1, WriteHears
  <2> QED
    BY <2>3, <2>4
<1>6. CASE StopImpl
  <2> DEFINE l == cancel(c, c.socket)
  <2>1. Good(l)
    BY CancelKeeps
  <2>2. \E ph : \E bl \in {"stopping", "gone"} : c' = [l EXCEPT !.block = bl, !.phase = ph]
    BY <1>6, ZenonT(30) DEF StopImpl
  <2> HIDE DEF l
  <2>3. c'.block # "there"
    BY <2>1, <2>2 DEF Good, Connections
  <2> QED
    BY <2>3 DEF Hearing
<1>7. CASE BlockRemoved
  <2>1. c'.block = "gone"
    BY <1>7, <1>t DEF BlockRemoved, Connections
  <2> QED
    BY <2>1 DEF Hearing
<1> QED
  BY <1>1, <1>2, <1>3, <1>4, <1>5, <1>6, <1>7 DEF CiosNext, Step

\* A connection with a socket listens to it while its block is there,
\* whatever sessions were lost before and whatever handlers come late.
THEOREM NeverDeaf == CiosSafety => []NotDeaf
<1>1. CiosInit => Hearing(c)
  BY DEF CiosInit, NewConnection, Hearing
<1>2. OutboxInv /\ Hearing(c) /\ [CiosNext]_cvars => Hearing(c)'
  <2> SUFFICES ASSUME OutboxInv, Hearing(c), [CiosNext]_cvars PROVE Hearing(c)'
    OBVIOUS
  <2>1. CASE CiosNext
    BY <2>1, InvIsGood, StepHears DEF Hearing, Hears
  <2>2. CASE UNCHANGED cvars
    BY <2>2 DEF cvars, Hearing, Hears
  <2> QED
    BY <2>1, <2>2
<1>3. Hearing(c) => NotDeaf
  BY NotDeafIsHearing
<1> QED
  BY <1>1, <1>2, <1>3, OutboxInvariant, PTL DEF CiosSafety

-----------------------------------------------------------------------------
(***************************************************************************)
(* The request queue, for every number of producers and every size of the  *)
(* queue: QueueInv is an invariant, a slot has one owner and requests are  *)
(* processed in order.                                                     *)
(***************************************************************************)

\* Indexes that are less than the size of the queue apart have slots of their own.
LEMMA NoAlias ==
    ASSUME NEW i \in Nat, NEW j \in Nat, i < j, j < i + QueueSize
    PROVE  Masked(i) # Masked(j)
<1> DEFINE N == QueueSize
           a == i \div N
           b == j \div N
<1>1. N \in Nat /\ N > 0
    BY QueueSizeAssumption
<1>2. a \in Int /\ b \in Int
    BY <1>1
<1>3. i = N * a + (i % N) /\ j = N * b + (j % N)
    BY <1>1
<1>4. SUFFICES ASSUME i % N = j % N PROVE FALSE
    BY DEF Masked
<1>5. j - i = N * (b - a)
    BY <1>1, <1>2, <1>3, <1>4
<1>6. CASE b - a <= 0
    <2>1. N * (b - a) <= 0
        BY <1>1, <1>2, <1>6
    <2> QED BY <1>5, <2>1
<1>7. CASE b - a >= 1
    <2>1. N * (b - a) >= N
        BY <1>1, <1>2, <1>7
    <2> QED BY <1>5, <2>1, <1>1
<1> QED BY <1>2, <1>6, <1>7

\* A mask is a slot.
LEMMA MaskedSlot ==
    ASSUME NEW i \in Int
    PROVE  Masked(i) \in Slots
BY QueueSizeAssumption DEF Masked, Slots

\* Two indexes between the head and the bound have different slots.
LEMMA Apart ==
    ASSUME QTypeOK, CountersInv,
           NEW i \in Int, NEW j \in Int, i # j,
           agent.head <= i, i < agent.head + QueueSize,
           agent.head <= j, j < agent.head + QueueSize
    PROVE  Masked(i) # Masked(j)
<1>1. agent.head \in Nat /\ QueueSize \in Nat
    BY QueueSizeAssumption DEF QTypeOK
<1>2. i \in Nat /\ j \in Nat
    BY <1>1
<1>3. CASE i < j
    BY <1>1, <1>2, <1>3, NoAlias
<1>4. CASE j < i
    BY <1>1, <1>2, <1>4, NoAlias
<1> QED BY <1>2, <1>3, <1>4

\* Indexes of the window are below the head plus the size of the queue.
LEMMA WindowBound ==
    ASSUME QTypeOK, CountersInv, NEW i \in Window
    PROVE  i \in Nat /\ agent.head <= i /\ i < agent.head + QueueSize /\ i < producerL2counter
BY QueueSizeAssumption DEF QTypeOK, CountersInv, Window

\* The new index is behind all others, and its slot may not be clear yet.
LEMMA AllocateWorkRequestKeeps ==
    ASSUME QueueInv, NEW p \in Producers, AllocateWorkRequest(p)
    PROVE  QueueInv'
<1>0. QTypeOK /\ CountersInv /\ ProducersInv /\ SlotsInv /\ InOrderOnce
    BY DEF QueueInv
<1>1. QTypeOK'
    <2>1. event' \in BOOLEAN /\ primed' \in BOOLEAN
        <3>1. event \in BOOLEAN /\ primed \in BOOLEAN
            BY <1>0 DEF QTypeOK
        <3> QED BY <3>1, Zenon DEF AllocateWorkRequest, Invalidate
    <2> QED BY <1>0, <2>1, QueueSizeAssumption DEF QTypeOK, Contents, AllocateWorkRequest
<1>2. CountersInv'
    BY <1>0, QueueSizeAssumption DEF QTypeOK, CountersInv, AllocateWorkRequest, Invalidate, header
<1>3. ProducersInv'
    <2> SUFFICES ASSUME NEW q \in Producers
                 PROVE  /\ app'[q].at # "idle" => app'[q].index \in Window'
                        /\ \A r \in Producers \ {q} : app'[q].at # "idle" => ~Holds(r, app[q].index)'
                        /\ app'[q].at \in {"fill", "submit"} =>
                            ~slot'[Masked(app'[q].index)].ready /\ ~Clearing(Masked(app[q].index))'
                        /\ app'[q].at = "submit" => slot'[Masked(app'[q].index)].contents = app'[q].index
        BY DEF ProducersInv
    <2>1. CASE q = p
        BY <1>0, <2>1, WindowBound DEF QTypeOK, CountersInv, ProducersInv, Window, Holds, AllocateWorkRequest
    <2>2. CASE q # p
        BY <1>0, <2>2, WindowBound DEF QTypeOK, ProducersInv, Window, Holds, Clearing, AllocateWorkRequest
    <2> QED BY <2>1, <2>2
<1>4. SlotsInv'
    BY <1>0, Apart, WindowBound, MaskedSlot DEF QTypeOK, ProducersInv, SlotsInv, Window, Holds, Clearing, AllocateWorkRequest, Invalidate, header
<1>5. InOrderOnce'
    BY <1>0 DEF QTypeOK, InOrderOnce, AllocateWorkRequest, Invalidate, header
<1> QED BY <1>1, <1>2, <1>3, <1>4, <1>5 DEF QueueInv

\* A slot that is not ready is not one the agent has yet to clear.
LEMMA SlotClearedKeeps ==
    ASSUME QueueInv, NEW p \in Producers, SlotCleared(p)
    PROVE  QueueInv'
<1>0. QTypeOK /\ CountersInv /\ ProducersInv /\ SlotsInv /\ InOrderOnce
    BY DEF QueueInv
<1>1. QTypeOK'
    BY <1>0, QueueSizeAssumption, MaskedSlot, ZenonT(30) DEF QTypeOK, Contents, SlotCleared, header
<1>2. CountersInv'
    BY <1>0, QueueSizeAssumption DEF QTypeOK, CountersInv, SlotCleared, header
<1>3. ProducersInv'
    BY <1>0, Apart, WindowBound, MaskedSlot DEF QTypeOK, ProducersInv, SlotsInv, Window, Holds, Clearing, SlotCleared, header
<1>4. SlotsInv'
    BY <1>0, Apart, WindowBound, MaskedSlot DEF QTypeOK, ProducersInv, SlotsInv, Window, Holds, Clearing, SlotCleared, header
<1>5. InOrderOnce'
    BY <1>0 DEF QTypeOK, InOrderOnce, SlotCleared, header
<1> QED BY <1>1, <1>2, <1>3, <1>4, <1>5 DEF QueueInv

\* The slot that is written belongs to no other index of the window.
LEMMA FillKeeps ==
    ASSUME QueueInv, NEW p \in Producers, Fill(p)
    PROVE  QueueInv'
<1>0. QTypeOK /\ CountersInv /\ ProducersInv /\ SlotsInv /\ InOrderOnce
    BY DEF QueueInv
<1>1. QTypeOK'
    <2>1. slot' \in [Slots -> [ready : BOOLEAN, contents : Contents]]
        <3>1. Masked(app[p].index) \in Slots /\ app[p].index \in Contents
            BY <1>0, MaskedSlot DEF QTypeOK, Contents
        <3>2. slot \in [Slots -> [ready : BOOLEAN, contents : Contents]]
            BY <1>0 DEF QTypeOK
        <3> QED BY <3>1, <3>2 DEF Fill
    <2> QED BY <1>0, <2>1 DEF QTypeOK, Fill, header
<1>2. CountersInv'
    BY <1>0, QueueSizeAssumption DEF QTypeOK, CountersInv, Fill, header
<1>3. ProducersInv'
    BY <1>0, Apart, WindowBound, MaskedSlot DEF QTypeOK, ProducersInv, SlotsInv, Window, Holds, Clearing, Fill, header
<1>4. SlotsInv'
    BY <1>0, Apart, WindowBound, MaskedSlot DEF QTypeOK, ProducersInv, SlotsInv, Window, Holds, Clearing, Fill, header
<1>5. InOrderOnce'
    BY <1>0 DEF QTypeOK, InOrderOnce, Fill, header
<1> QED BY <1>1, <1>2, <1>3, <1>4, <1>5 DEF QueueInv

\* The request becomes ready as it was written.
LEMMA SubmitWorkRequestKeeps ==
    ASSUME QueueInv, NEW p \in Producers, SubmitWorkRequest(p)
    PROVE  QueueInv'
<1>0. QTypeOK /\ CountersInv /\ ProducersInv /\ SlotsInv /\ InOrderOnce
    BY DEF QueueInv
<1>1. QTypeOK'
    <2>1. slot' \in [Slots -> [ready : BOOLEAN, contents : Contents]]
        <3>1. Masked(app[p].index) \in Slots /\ app[p].index \in Contents
            BY <1>0, MaskedSlot DEF QTypeOK, Contents
        <3>2. slot \in [Slots -> [ready : BOOLEAN, contents : Contents]]
            BY <1>0 DEF QTypeOK
        <3> QED BY <3>1, <3>2 DEF SubmitWorkRequest
    <2> QED BY <1>0, <2>1 DEF QTypeOK, SubmitWorkRequest, header
<1>2. CountersInv'
    BY <1>0, QueueSizeAssumption DEF QTypeOK, CountersInv, SubmitWorkRequest, header
<1>3. ProducersInv'
    BY <1>0, Apart, WindowBound, MaskedSlot DEF QTypeOK, ProducersInv, SlotsInv, Window, Holds, Clearing, SubmitWorkRequest, header
<1>4. SlotsInv'
    BY <1>0, Apart, WindowBound, MaskedSlot DEF QTypeOK, ProducersInv, SlotsInv, Window, Holds, Clearing, SubmitWorkRequest, header
<1>5. InOrderOnce'
    BY <1>0 DEF QTypeOK, InOrderOnce, SubmitWorkRequest, header
<1> QED BY <1>1, <1>2, <1>3, <1>4, <1>5 DEF QueueInv

\* Arming the wakeup unit touches no slot.
LEMMA reArmWUKeeps ==
    ASSUME QueueInv, reArmWU
    PROVE  QueueInv'
<1>0. QTypeOK /\ CountersInv /\ ProducersInv /\ SlotsInv /\ InOrderOnce
    BY DEF QueueInv
<1>1. QTypeOK'
    BY <1>0, QueueSizeAssumption, MaskedSlot, ZenonT(30) DEF QTypeOK, Contents, reArmWU, header
<1>2. CountersInv'
    BY <1>0, QueueSizeAssumption DEF QTypeOK, CountersInv, reArmWU, header
<1>3. ProducersInv'
    BY <1>0, Apart, WindowBound, MaskedSlot DEF QTypeOK, ProducersInv, SlotsInv, Window, Holds, Clearing, reArmWU, header
<1>4. SlotsInv'
    BY <1>0, Apart, WindowBound, MaskedSlot DEF QTypeOK, ProducersInv, SlotsInv, Window, Holds, Clearing, reArmWU, header
<1>5. InOrderOnce'
    BY <1>0 DEF QTypeOK, InOrderOnce, reArmWU, header
<1> QED BY <1>1, <1>2, <1>3, <1>4, <1>5 DEF QueueInv

\* The tail is the producer counter, which never falls.
LEMMA FetchTailKeeps ==
    ASSUME QueueInv, FetchTail
    PROVE  QueueInv'
<1>0. QTypeOK /\ CountersInv /\ ProducersInv /\ SlotsInv /\ InOrderOnce
    BY DEF QueueInv
<1>1. QTypeOK'
    BY <1>0, QueueSizeAssumption, MaskedSlot, ZenonT(30) DEF QTypeOK, Contents, FetchTail, header
<1>2. CountersInv'
    BY <1>0, QueueSizeAssumption DEF QTypeOK, CountersInv, FetchTail, header
<1>3. ProducersInv'
    BY <1>0, Apart, WindowBound, MaskedSlot DEF QTypeOK, ProducersInv, SlotsInv, Window, Holds, Clearing, FetchTail, header
<1>4. SlotsInv'
    BY <1>0, Apart, WindowBound, MaskedSlot DEF QTypeOK, ProducersInv, SlotsInv, Window, Holds, Clearing, FetchTail, header
<1>5. InOrderOnce'
    BY <1>0 DEF QTypeOK, InOrderOnce, FetchTail, header
<1> QED BY <1>1, <1>2, <1>3, <1>4, <1>5 DEF QueueInv

\* The agent processes the request with the index of its head.
LEMMA processWorkRequestKeeps ==
    ASSUME QueueInv, processWorkRequest
    PROVE  QueueInv'
<1>0. QTypeOK /\ CountersInv /\ ProducersInv /\ SlotsInv /\ InOrderOnce
    BY DEF QueueInv
<1>a. /\ agent.at = "check" /\ agent.head < agent.tail /\ stores = {}
      /\ slot[Masked(agent.head)].ready
      /\ processed' = Append(processed, slot[Masked(agent.head)].contents)
      /\ agent' = [agent EXCEPT !.head = @ + 1]
      /\ stores' = {"type", "bound"}
      /\ UNCHANGED <<producerL2counter, boundL2counter, slot, app, primed, event>>
    BY DEF processWorkRequest, Ready, header
<1>b. /\ agent.head \in Nat /\ agent.tail \in Nat /\ processed \in Seq(Contents)
      /\ Masked(agent.head) \in Slots /\ slot[Masked(agent.head)].contents \in Contents
    BY <1>0, MaskedSlot DEF QTypeOK
<1>c. agent'.head = agent.head + 1 /\ agent'.tail = agent.tail /\ agent'.at = agent.at
    BY <1>0, <1>a DEF QTypeOK
<1>d. /\ processed' \in Seq(Contents) /\ Len(processed') = Len(processed) + 1
      /\ processed'[Len(processed) + 1] = slot[Masked(agent.head)].contents
      /\ \A n \in 1 .. Len(processed) : processed'[n] = processed[n]
    BY <1>a, <1>b
<1>e. agent.head \in Window
    BY <1>0, <1>a, <1>b DEF CountersInv, QTypeOK, Window
\* A ready slot at the head, with nothing left to clear, is nobody's.
<1>f. (\A p \in Producers : ~Holds(p, agent.head)) /\ slot[Masked(agent.head)].contents = agent.head
    <2>1. PICK i \in Window : Masked(i) = Masked(agent.head) /\ \A p \in Producers : ~Holds(p, i)
        BY <1>0, <1>a, <1>b DEF SlotsInv, Clearing
    <2>2. i = agent.head
        BY <1>0, <1>e, <2>1, Apart, WindowBound
    <2> QED BY <1>0, <1>e, <2>1, <2>2 DEF SlotsInv
<1>1. QTypeOK'
    BY <1>0, <1>a, <1>c, <1>d DEF QTypeOK
<1>2. CountersInv'
    BY <1>0, <1>a, <1>b, <1>c, <1>d, QueueSizeAssumption DEF QTypeOK, CountersInv
<1>3. ProducersInv'
    BY <1>0, Apart, WindowBound, MaskedSlot DEF QTypeOK, ProducersInv, SlotsInv, Window, Holds, Clearing, processWorkRequest, Ready, header
<1>4. SlotsInv'
    <2>1. Window' = Window \ {agent.head}
        BY <1>0, <1>a, <1>b, <1>c DEF Window, QTypeOK
    <2>2. \A s : Clearing(s)' <=> s = Masked(agent.head)
        BY <1>a, <1>b, <1>c DEF Clearing
    <2>3. \A p \in Producers : \A i : Holds(p, i)' <=> Holds(p, i)
        BY <1>a DEF Holds
    <2>4. \A i \in Window : i # agent.head => Masked(i) # Masked(agent.head)
        BY <1>0, <1>e, Apart, WindowBound
    <2>5. ASSUME NEW i \in Window', \A p \in Producers : ~Holds(p, i)'
          PROVE  slot'[Masked(i)].ready /\ slot'[Masked(i)].contents = i /\ ~Clearing(Masked(i))'
        BY <1>0, <1>a, <2>1, <2>2, <2>3, <2>4, <2>5 DEF SlotsInv
    <2>6. ASSUME NEW s \in Slots, slot'[s].ready
          PROVE  \/ Clearing(s)'
                 \/ \E i \in Window' : Masked(i) = s /\ \A p \in Producers : ~Holds(p, i)'
        BY <1>0, <1>a, <2>1, <2>2, <2>3, <2>6 DEF SlotsInv, Clearing
    <2>7. agent'.head > 0 /\ slot'[Masked(agent'.head - 1)].ready
        BY <1>a, <1>b, <1>c
    <2> QED BY <2>5, <2>6, <2>7 DEF SlotsInv
<1>5. InOrderOnce'
    BY <1>0, <1>b, <1>d, <1>f DEF CountersInv, InOrderOnce
<1> QED BY <1>1, <1>2, <1>3, <1>4, <1>5 DEF QueueInv

\* The slot that is cleared belongs to no request that is ready.
LEMMA StoreTypeKeeps ==
    ASSUME QueueInv, StoreType
    PROVE  QueueInv'
<1>0. QTypeOK /\ CountersInv /\ ProducersInv /\ SlotsInv /\ InOrderOnce
    BY DEF QueueInv
<1>1. QTypeOK'
    BY <1>0, QueueSizeAssumption, MaskedSlot, ZenonT(30) DEF QTypeOK, Contents, StoreType, header
<1>2. CountersInv'
    BY <1>0, QueueSizeAssumption DEF QTypeOK, CountersInv, StoreType, header
<1>3. ProducersInv'
    BY <1>0, Apart, WindowBound, MaskedSlot DEF QTypeOK, ProducersInv, SlotsInv, Window, Holds, Clearing, StoreType, header
<1>4. SlotsInv'
    BY <1>0, Apart, WindowBound, MaskedSlot DEF QTypeOK, ProducersInv, SlotsInv, Window, Holds, Clearing, StoreType, header
<1>5. InOrderOnce'
    BY <1>0 DEF QTypeOK, InOrderOnce, StoreType, header
<1> QED BY <1>1, <1>2, <1>3, <1>4, <1>5 DEF QueueInv

\* One more slot was given back.
LEMMA StoreBoundKeeps ==
    ASSUME QueueInv, StoreBound
    PROVE  QueueInv'
<1>0. QTypeOK /\ CountersInv /\ ProducersInv /\ SlotsInv /\ InOrderOnce
    BY DEF QueueInv
<1>1. QTypeOK'
    <2>1. event' \in BOOLEAN /\ primed' \in BOOLEAN
        <3>1. event \in BOOLEAN /\ primed \in BOOLEAN
            BY <1>0 DEF QTypeOK
        <3> QED BY <3>1, Zenon DEF StoreBound, Invalidate
    <2> QED BY <1>0, <2>1, QueueSizeAssumption DEF QTypeOK, Contents, StoreBound
<1>2. CountersInv'
    BY <1>0, QueueSizeAssumption DEF QTypeOK, CountersInv, StoreBound, Invalidate, header
<1>3. ProducersInv'
    BY <1>0, Apart, WindowBound, MaskedSlot DEF QTypeOK, ProducersInv, SlotsInv, Window, Holds, Clearing, StoreBound, Invalidate, header
<1>4. SlotsInv'
    BY <1>0, Apart, WindowBound, MaskedSlot DEF QTypeOK, ProducersInv, SlotsInv, Window, Holds, Clearing, StoreBound, Invalidate, header
<1>5. InOrderOnce'
    BY <1>0 DEF QTypeOK, InOrderOnce, StoreBound, Invalidate, header
<1> QED BY <1>1, <1>2, <1>3, <1>4, <1>5 DEF QueueInv

\* Going to sleep touches no slot.
LEMMA WaitForWorkKeeps ==
    ASSUME QueueInv, WaitForWork
    PROVE  QueueInv'
<1>0. QTypeOK /\ CountersInv /\ ProducersInv /\ SlotsInv /\ InOrderOnce
    BY DEF QueueInv
<1>1. QTypeOK'
    BY <1>0, QueueSizeAssumption, MaskedSlot DEF QTypeOK, Contents, WaitForWork, header
<1>2. CountersInv'
    BY <1>0, QueueSizeAssumption, ZenonT(30) DEF QTypeOK, CountersInv, WaitForWork, header
<1>3. ProducersInv'
    BY <1>0, Apart, WindowBound, MaskedSlot DEF QTypeOK, ProducersInv, SlotsInv, Window, Holds, Clearing, WaitForWork, header
<1>4. SlotsInv'
    BY <1>0, Apart, WindowBound, MaskedSlot DEF QTypeOK, ProducersInv, SlotsInv, Window, Holds, Clearing, WaitForWork, header
<1>5. InOrderOnce'
    BY <1>0 DEF QTypeOK, InOrderOnce, WaitForWork, header
<1> QED BY <1>1, <1>2, <1>3, <1>4, <1>5 DEF QueueInv

\* QueueInv holds when the agent has set up its shared memory.
LEMMA QueueInvInit ==
    ASSUME RequestQueueSize = QueueSize
    PROVE  QInit => QueueInv
<1> SUFFICES ASSUME QInit PROVE QueueInv
    OBVIOUS
<1>1. QTypeOK
    <2>1. slot \in [Slots -> [ready : BOOLEAN, contents : Contents]]
        BY DEF QInit, Contents
    <2>2. primed \in BOOLEAN /\ event \in BOOLEAN
        BY Zenon DEF QInit
    <2>3. producerL2counter \in Nat /\ boundL2counter \in Nat
        BY QueueSizeAssumption DEF QInit
    <2>4. /\ app \in [Producers -> [at : {"idle", "allocated", "fill", "submit"}, index : Nat]]
          /\ agent \in [at : {"wait", "armed", "check"}, head : Nat, tail : Nat]
          /\ stores \subseteq {"type", "bound"}
          /\ processed \in Seq(Contents)
        BY DEF QInit
    <2> QED BY <2>1, <2>2, <2>3, <2>4, Zenon DEF QTypeOK
<1>2. CountersInv
    BY QueueSizeAssumption DEF QInit, CountersInv
<1>3. Window = {}
    BY DEF QInit, Window
<1>4. ProducersInv
    BY DEF QInit, ProducersInv
<1>5. SlotsInv
    BY <1>3 DEF QInit, SlotsInv
<1>6. InOrderOnce
    BY DEF QInit, InOrderOnce
<1> QED BY <1>1, <1>2, <1>4, <1>5, <1>6 DEF QueueInv

\* Every step of a producer, of the agent or of its stores keeps QueueInv.
LEMMA QueueInvStep == QueueInv /\ [QNext]_qvars => QueueInv'
<1> SUFFICES ASSUME QueueInv, [QNext]_qvars PROVE QueueInv'
    OBVIOUS
<1>1. ASSUME NEW p \in Producers, AllocateWorkRequest(p) \/ UseSlot(p)
      PROVE  QueueInv'
    BY <1>1, AllocateWorkRequestKeeps, SlotClearedKeeps, FillKeeps, SubmitWorkRequestKeeps DEF UseSlot
<1>2. CASE Consume
    BY <1>2, reArmWUKeeps, FetchTailKeeps, processWorkRequestKeeps, WaitForWorkKeeps DEF Consume
<1>3. CASE StoreType \/ StoreBound
    BY <1>3, StoreTypeKeeps, StoreBoundKeeps
<1>4. CASE UNCHANGED qvars
    <2>1. QTypeOK' /\ CountersInv' /\ InOrderOnce'
        BY <1>4 DEF qvars, QueueInv, QTypeOK, CountersInv, InOrderOnce
    <2>2. ProducersInv'
        BY <1>4 DEF qvars, QueueInv, ProducersInv, Window, Holds, Clearing
    <2>3. SlotsInv'
        BY <1>4, ZenonT(30) DEF qvars, QueueInv, SlotsInv, Window, Holds, Clearing
    <2> QED BY <2>1, <2>2, <2>3 DEF QueueInv
<1> QED BY <1>1, <1>2, <1>3, <1>4 DEF QNext

\* QueueInv is an invariant of the request queue, for any number of producers and of
\* slots, where COMMAGENT_REQUESTQUEUESIZE is left at the number of slots.
THEOREM QueueInvariant ==
    ASSUME RequestQueueSize = QueueSize
    PROVE  QSpec => []QueueInv
BY QueueInvInit, QueueInvStep, PTL DEF QSpec

\* A producer that writes into its slot of the request queue is alone with it, although
\* neither the producers nor the agent hold a lock: the bound alone keeps two requests
\* out of one slot, as long as COMMAGENT_REQUESTQUEUESIZE is the number of slots.
THEOREM SlotsAreOwned ==
    ASSUME RequestQueueSize = QueueSize
    PROVE  QSpec => []SlotOwned
<1>1. ASSUME QueueInv PROVE SlotOwned
    <2> SUFFICES ASSUME NEW p \in Producers, app[p].at \in {"fill", "submit"},
                        NEW q \in Producers \ {p}, app[q].at \in {"fill", "submit"}
                 PROVE  Masked(app[q].index) # Masked(app[p].index)
        BY <1>1 DEF QueueInv, ProducersInv, SlotOwned
    <2>1. app[p].index \in Window /\ app[q].index \in Window /\ app[p].index # app[q].index
        BY <1>1 DEF QueueInv, ProducersInv, Holds
    <2> QED BY <1>1, <2>1, Apart, WindowBound DEF QueueInv
<1> QED BY <1>1, QueueInvariant, PTL

\* checkForNewWork processes the requests in the order of their unique IDs, each once
\* and as it was submitted, as long as COMMAGENT_REQUESTQUEUESIZE is the number of slots.
THEOREM RequestsInOrder ==
    ASSUME RequestQueueSize = QueueSize
    PROVE  QSpec => []InOrderOnce
<1>1. QueueInv => InOrderOnce
    BY DEF QueueInv
<1> QED BY <1>1, QueueInvariant, PTL

-----------------------------------------------------------------------------
(* SubNodePacing: one request of a compute node at a time.                 *)

StageOf(j) == [job |-> j, kind |-> "stage"]

\* A job has a request for a stage in the queue only while it waits for the
\* acknowledgement, and one only.
StagePending(p, box, j) ==
    /\ p[j].asked \in {p[j].done, p[j].done + 1}
    /\ \A i \in 1 .. Len(box) : box[i] = StageOf(j) => p[j].asked = p[j].done + 1
    /\ \A i, k \in 1 .. Len(box) : box[i] = StageOf(j) /\ box[k] = StageOf(j) => i = k

PacingInv ==
    PacedOneAtATime /\ \A j \in PacedJobs : ~paced[j].gone => StagePending(paced, pacing, j)

PacedType == [asked : 0 .. Stages, done : 0 .. Stages,
              signal : {"none", "asked", "done"}, gone : BOOLEAN]

LEMMA OneRequest ==
    ASSUME NEW r \in Requests, NEW s \in {<<>>, <<r>>}
    PROVE  s \in Seq(Requests) /\ Len(s) <= 1 /\ (s # <<>> => Head(s) = r)
<1>1. CASE s = <<>>
  BY <1>1
<1>2. CASE s = <<r>>
  BY <1>2
<1> QED
  BY <1>1, <1>2

\* SubNodePacing::add keeps one request at the I/O node, the front of the queue.
LEMMA AddPaces ==
    ASSUME PacedOneAtATime, NEW r \in Requests, add(r)
    PROVE  /\ pacing' = Append(pacing, r) /\ pacing' \in Seq(Requests)
           /\ requests' \in Seq(Requests) /\ Len(requests') <= 1
           /\ requests' # <<>> => pacing' # <<>> /\ Head(pacing') = Head(requests')
<1>1. /\ pacing \in Seq(Requests) /\ requests \in Seq(Requests) /\ Len(requests) <= 1
      /\ requests # <<>> => pacing # <<>> /\ Head(pacing) = Head(requests)
      /\ pacing' = Append(pacing, r)
      /\ requests' = IF pacing = <<>> THEN paceWrite(<<r>>, requests) ELSE requests
  BY DEF PacedOneAtATime, PTypeOK, add
<1>2. CASE pacing = <<>>
  <2>1. requests = <<>> /\ Head(<<r>>) = r /\ pacing' = <<r>> /\ pacing' # <<>>
    BY <1>1, <1>2
  <2>2. requests' \in {<<>>, <<r>>}
    BY <1>1, <1>2, <2>1 DEF paceWrite
  <2> QED
    BY <1>1, <2>1, <2>2, OneRequest, ZenonT(30)
<1>3. CASE pacing # <<>>
  <2>1. pacing' \in Seq(Requests) /\ pacing' # <<>> /\ Head(pacing') = Head(pacing)
    BY <1>1, <1>3
  <2> QED
    BY <1>1, <1>3, <2>1
<1> QED
  BY <1>2, <1>3

\* SubNodePacing::next, after the answer to the one request.
LEMMA NextPaces ==
    ASSUME PacedOneAtATime, requests # <<>>, next(Tail(requests))
    PROVE  /\ pacing # <<>> /\ pacing' = Tail(pacing) /\ pacing' \in Seq(Requests)
           /\ requests' \in Seq(Requests) /\ Len(requests') <= 1
           /\ requests' # <<>> => pacing' # <<>> /\ Head(pacing') = Head(requests')
<1>1. /\ pacing \in Seq(Requests) /\ requests \in Seq(Requests) /\ Len(requests) <= 1
      /\ pacing # <<>> /\ pacing' = Tail(pacing)
      /\ requests' = IF Len(pacing) < 2 THEN Tail(requests)
                     ELSE paceWrite(Tail(pacing), Tail(requests))
  BY DEF PacedOneAtATime, PTypeOK, next
<1>2. Tail(requests) = <<>> /\ Tail(pacing) \in Seq(Requests) /\ Len(pacing) \in Nat
  BY <1>1
<1>3. CASE Len(pacing) < 2
  BY <1>1, <1>2, <1>3
<1>4. CASE ~(Len(pacing) < 2)
  <2> DEFINE q == Tail(pacing)
             r == Head(q)
  <2>1. q \in Seq(Requests) /\ q # <<>> /\ r \in Requests
    BY <1>1, <1>2, <1>4
  <2>2. requests' = paceWrite(q, <<>>)
    BY <1>1, <1>2, <1>4, ZenonT(30)
  <2> HIDE DEF q
  <2>3. requests' \in {<<>>, <<r>>}
    BY <2>1, <2>2 DEF paceWrite
  <2> HIDE DEF r
  <2>4. /\ requests' \in Seq(Requests) /\ Len(requests') <= 1
        /\ requests' # <<>> => Head(requests') = r
    BY <2>1, <2>3, OneRequest, ZenonT(30)
  <2> QED
    BY <1>1, <1>2, <2>1, <2>4 DEF q, r
<1> QED
  BY <1>3, <1>4

\* Another request at the end of the queue.
LEMMA PendingAppend ==
    ASSUME NEW p, NEW o, NEW box \in Seq(Requests), NEW r \in Requests, NEW j \in PacedJobs,
           StagePending(o, box, j),
           \/ p[j] = o[j] /\ r # StageOf(j)
           \/ /\ r = StageOf(j) /\ o[j].asked = o[j].done /\ o[j].done \in Nat
              /\ p[j].asked = o[j].asked + 1 /\ p[j].done = o[j].done
           \/ p[j].asked = o[j].asked /\ p[j].done = o[j].done /\ r # StageOf(j)
    PROVE  StagePending(p, Append(box, r), j)
<1> DEFINE b == Append(box, r)
<1>1. /\ Len(box) \in Nat /\ Len(b) = Len(box) + 1 /\ b[Len(b)] = r
      /\ \A i \in 1 .. Len(box) : b[i] = box[i]
  OBVIOUS
<1>2. \A i \in 1 .. Len(b) : i = Len(b) \/ i \in 1 .. Len(box)
  BY <1>1
<1> HIDE DEF b
<1>3. CASE r # StageOf(j)
  BY <1>1, <1>2, <1>3, ZenonT(30) DEF StagePending, b
<1>4. CASE r = StageOf(j)
  <2>1. \A i \in 1 .. Len(box) : box[i] # StageOf(j)
    BY <1>4 DEF StagePending
  <2>2. /\ p[j].asked = p[j].done + 1
        /\ \A i \in 1 .. Len(b) : b[i] = StageOf(j) => i = Len(b)
    BY <1>1, <1>2, <1>4, <2>1
  <2> QED
    BY <2>2 DEF StagePending, b
<1> QED
  BY <1>3, <1>4

\* The front of the queue is answered.
LEMMA PendingTail ==
    ASSUME NEW p, NEW o, NEW box \in Seq(Requests), box # <<>>, NEW j \in PacedJobs,
           StagePending(o, box, j), o[j].done \in Nat,
           \/ p[j].asked = o[j].asked /\ p[j].done = o[j].done
           \/ /\ Head(box) = StageOf(j)
              /\ p[j].asked = o[j].asked /\ p[j].done = o[j].done + 1
    PROVE  StagePending(p, Tail(box), j)
<1> DEFINE b == Tail(box)
<1>1. /\ Len(box) \in Nat \ {0} /\ Len(b) = Len(box) - 1 /\ box[1] = Head(box)
      /\ \A i \in 1 .. Len(b) : b[i] = box[i + 1]
  OBVIOUS
<1>2. \A i \in 1 .. Len(b) : i \in Nat /\ i + 1 \in 1 .. Len(box) /\ i + 1 # 1
  BY <1>1
<1> HIDE DEF b
<1>3. \A i, k \in 1 .. Len(b) : b[i] = StageOf(j) /\ b[k] = StageOf(j) => i = k
  <2> SUFFICES ASSUME NEW i \in 1 .. Len(b), NEW k \in 1 .. Len(b),
                      b[i] = StageOf(j), b[k] = StageOf(j)
               PROVE  i = k
    OBVIOUS
  <2>1. i + 1 = k + 1
    BY <1>1, <1>2 DEF StagePending
  <2> QED
    BY <1>2, <2>1
<1>4. CASE p[j].asked = o[j].asked /\ p[j].done = o[j].done
  BY <1>1, <1>2, <1>3, <1>4 DEF StagePending, b
<1>5. CASE /\ Head(box) = StageOf(j)
           /\ p[j].asked = o[j].asked /\ p[j].done = o[j].done + 1
  <2>1. 1 \in 1 .. Len(box) /\ o[j].asked = o[j].done + 1
    BY <1>1, <1>5 DEF StagePending
  <2>2. \A i \in 1 .. Len(b) : b[i] # StageOf(j)
    BY <1>1, <1>2, <1>5, <2>1 DEF StagePending
  <2> QED
    BY <1>3, <1>5, <2>1, <2>2 DEF StagePending, b
<1> QED
  BY <1>4, <1>5

\* Every action keeps the queue paced.
LEMMA PacingStep ==
    ASSUME PacingInv, [PacingNext]_pvars
    PROVE  PacingInv'
<1> USE PacingAssumption
<1>1. /\ paced \in [PacedJobs -> PacedType] /\ pacing \in Seq(Requests)
      /\ requests \in Seq(Requests) /\ disturbed \in BOOLEAN /\ PacedOneAtATime
      /\ \A j \in PacedJobs : ~paced[j].gone => StagePending(paced, pacing, j)
      /\ \A j \in PacedJobs : paced[j] \in PacedType
  BY DEF PacingInv, PacedOneAtATime, PTypeOK, PacedType
<1> SUFFICES /\ paced' \in [PacedJobs -> PacedType] /\ pacing' \in Seq(Requests)
             /\ requests' \in Seq(Requests) /\ disturbed' \in BOOLEAN /\ Len(requests') <= 1
             /\ requests' # <<>> => pacing' # <<>> /\ Head(pacing') = Head(requests')
             /\ \A j \in PacedJobs : ~paced'[j].gone => StagePending(paced', pacing', j)
  BY DEF PacingInv, PacedOneAtATime, PTypeOK, PacedType, StagePending
<1>2. ASSUME NEW j \in PacedJobs, AskStage(j)
      PROVE  /\ paced' \in [PacedJobs -> PacedType] /\ pacing' \in Seq(Requests)
             /\ requests' \in Seq(Requests) /\ disturbed' \in BOOLEAN /\ Len(requests') <= 1
             /\ requests' # <<>> => pacing' # <<>> /\ Head(pacing') = Head(requests')
             /\ \A v \in PacedJobs : ~paced'[v].gone => StagePending(paced', pacing', v)
  <2>1. /\ ~paced[j].gone /\ paced[j].asked = paced[j].done /\ paced[j].asked < Stages
        /\ add(StageOf(j)) /\ UNCHANGED disturbed
        /\ paced' = [paced EXCEPT ![j] = [paced[j] EXCEPT !.asked = paced[j].asked + 1]]
    BY <1>2 DEF AskStage, StageOf
  <2>2. StageOf(j) \in Requests
    BY DEF Requests, StageOf
  <2>3. /\ paced'[j].asked = paced[j].asked + 1 /\ paced'[j].done = paced[j].done
        /\ \A v \in PacedJobs \ {j} : paced'[v] = paced[v] /\ StageOf(v) # StageOf(j)
        /\ paced'[j] \in PacedType /\ paced[j].done \in Nat
    <3>1. /\ paced[j] \in PacedType /\ paced'[j] = [paced[j] EXCEPT !.asked = paced[j].asked + 1]
          /\ \A v \in PacedJobs \ {j} : paced'[v] = paced[v]
      BY <1>1, <2>1
    <3>2. /\ paced[j].asked + 1 \in 0 .. Stages /\ paced[j].done \in Nat
      BY <2>1, <3>1 DEF PacedType
    <3>3. /\ paced'[j].asked = paced[j].asked + 1 /\ paced'[j].done = paced[j].done
          /\ paced'[j] \in PacedType
      BY <3>1, <3>2 DEF PacedType
    <3> QED
      BY <3>1, <3>2, <3>3 DEF StageOf
  <2>4. paced' \in [PacedJobs -> PacedType]
    BY <1>1, <2>1, <2>3
  <2>5. pacing' = Append(pacing, StageOf(j))
    BY <1>1, <2>1, <2>2, AddPaces
  <2>6. ASSUME NEW v \in PacedJobs, ~paced'[v].gone
        PROVE  StagePending(paced', pacing', v)
    <3>1. StagePending(paced, pacing, v)
      BY <1>1, <2>1, <2>3, <2>6
    <3> QED
      BY <1>1, <2>1, <2>2, <2>3, <2>5, <3>1, PendingAppend, ZenonT(30)
  <2> QED
    BY <1>1, <2>1, <2>2, <2>4, <2>6, AddPaces, ZenonT(30)
<1>3. ASSUME NEW j \in PacedJobs, AskSignal(j)
      PROVE  /\ paced' \in [PacedJobs -> PacedType] /\ pacing' \in Seq(Requests)
             /\ requests' \in Seq(Requests) /\ disturbed' \in BOOLEAN /\ Len(requests') <= 1
             /\ requests' # <<>> => pacing' # <<>> /\ Head(pacing') = Head(requests')
             /\ \A v \in PacedJobs : ~paced'[v].gone => StagePending(paced', pacing', v)
  <2> DEFINE r == [job |-> j, kind |-> "signal"]
  <2>1. /\ add(r) /\ UNCHANGED disturbed
        /\ paced' = [paced EXCEPT ![j] = [paced[j] EXCEPT !.signal = "asked"]]
    BY <1>3 DEF AskSignal
  <2>2. r \in Requests /\ \A v \in PacedJobs : r # StageOf(v)
    BY DEF Requests, StageOf
  <2>3. /\ \A v \in PacedJobs : /\ paced'[v].asked = paced[v].asked
                                /\ paced'[v].done = paced[v].done
                                /\ paced'[v].gone = paced[v].gone
        /\ paced'[j] \in PacedType
    BY <1>1, <2>1, ZenonT(30) DEF PacedType
  <2>4. paced' \in [PacedJobs -> PacedType]
    BY <1>1, <2>1, <2>3
  <2> HIDE DEF r
  <2>5. pacing' = Append(pacing, r)
    BY <1>1, <2>1, <2>2, AddPaces
  <2>6. ASSUME NEW v \in PacedJobs, ~paced'[v].gone
        PROVE  StagePending(paced', pacing', v)
    BY <1>1, <2>2, <2>3, <2>5, <2>6, PendingAppend, ZenonT(30)
  <2> QED
    BY <1>1, <2>1, <2>2, <2>4, <2>6, AddPaces, ZenonT(30)
<1>4. ASSUME NEW j \in PacedJobs, KillTimerRemoves(j)
      PROVE  /\ paced' \in [PacedJobs -> PacedType] /\ pacing' \in Seq(Requests)
             /\ requests' \in Seq(Requests) /\ disturbed' \in BOOLEAN /\ Len(requests') <= 1
             /\ requests' # <<>> => pacing' # <<>> /\ Head(pacing') = Head(requests')
             /\ \A v \in PacedJobs : ~paced'[v].gone => StagePending(paced', pacing', v)
  <2>1. /\ add(StageOf(j)) /\ disturbed' = TRUE
        /\ paced' = [paced EXCEPT ![j] = [paced[j] EXCEPT !.gone = TRUE]]
    BY <1>4 DEF KillTimerRemoves, StageOf
  <2>2. StageOf(j) \in Requests
    BY DEF Requests, StageOf
  <2>3. /\ paced'[j] \in PacedType /\ paced'[j].gone
        /\ \A v \in PacedJobs \ {j} : paced'[v] = paced[v] /\ StageOf(v) # StageOf(j)
    BY <1>1, <2>1, ZenonT(30) DEF PacedType, StageOf
  <2>4. paced' \in [PacedJobs -> PacedType]
    BY <1>1, <2>1, <2>3
  <2>5. pacing' = Append(pacing, StageOf(j))
    BY <1>1, <2>1, <2>2, AddPaces
  <2>6. ASSUME NEW v \in PacedJobs, ~paced'[v].gone
        PROVE  StagePending(paced', pacing', v)
    BY <1>1, <2>2, <2>3, <2>5, <2>6, PendingAppend, ZenonT(30)
  <2> QED
    BY <1>1, <2>1, <2>2, <2>4, <2>6, AddPaces, ZenonT(30)
<1>5. CASE Acknowledge
  <2> DEFINE r == Head(requests)
             p == paced[r.job]
             n == IF r.kind = "signal" THEN [p EXCEPT !.signal = "done"]
                  ELSE [p EXCEPT !.done = p.done + 1, !.gone = (p.asked = Stages)]
  <2>1. requests # <<>> /\ UNCHANGED disturbed /\ r \in Requests
    BY <1>1, <1>5 DEF Acknowledge
  <2>2. r.job \in PacedJobs /\ p \in PacedType /\ (r.kind # "signal" => r = StageOf(r.job))
    BY <1>1, <2>1 DEF Requests, StageOf
  <2>3. CASE p.gone
    <3>1. requests' = Tail(requests) /\ UNCHANGED <<paced, pacing>>
      BY <1>5, <2>3 DEF Acknowledge
    <3>2. Tail(requests) = <<>>
      BY <1>1, <2>1 DEF PacedOneAtATime
    <3> HIDE DEF r, p, n
    <3>3. requests' = <<>> /\ requests' \in Seq(Requests) /\ Len(requests') <= 1
      BY <2>1, <3>1, <3>2, OneRequest, ZenonT(30)
    <3>4. \A j \in PacedJobs : ~paced'[j].gone => StagePending(paced', pacing', j)
      BY <1>1, <3>1
    <3>5. disturbed' \in BOOLEAN
      BY <1>1, <2>1
    <3> QED
      BY <1>1, <3>1, <3>3, <3>4, <3>5
  <2>4. CASE ~p.gone
    <3>1. next(Tail(requests)) /\ paced' = [paced EXCEPT ![r.job] = n]
      BY <1>5, <2>4 DEF Acknowledge
    <3>2. /\ pacing # <<>> /\ pacing' = Tail(pacing) /\ Head(pacing) = r
      BY <1>1, <2>1, <3>1, NextPaces DEF PacedOneAtATime
    <3>3. StagePending(paced, pacing, r.job)
      BY <1>1, <2>2, <2>4
    <3>4. r.kind # "signal" => p.asked = p.done + 1
      BY <1>1, <2>2, <3>2, <3>3 DEF StagePending
    <3> HIDE DEF r
    <3>5. /\ n \in PacedType /\ n.asked = p.asked
          /\ \/ n.done = p.done
             \/ r = StageOf(r.job) /\ n.done = p.done + 1
      BY <2>2, <3>4, ZenonT(30) DEF PacedType
    <3> HIDE DEF n, p
    <3>6. /\ paced' \in [PacedJobs -> PacedType] /\ paced'[r.job] = n
          /\ \A v \in PacedJobs \ {r.job} : paced'[v] = paced[v]
      BY <1>1, <2>2, <3>1, <3>5
    <3>7. ASSUME NEW v \in PacedJobs, ~paced'[v].gone
          PROVE  StagePending(paced', pacing', v)
      <4>1. StagePending(paced, pacing, v) /\ paced[v].done \in Nat
        <5>1. ~paced[v].gone
          BY <2>4, <3>6, <3>7 DEF p
        <5>2. paced[v].done \in Nat
          BY <1>1 DEF PacedType
        <5> QED
          BY <1>1, <5>1, <5>2
      <4>2. CASE v = r.job
        BY <1>1, <3>2, <3>5, <3>6, <4>1, <4>2, PendingTail, ZenonT(30) DEF p
      <4>3. CASE v # r.job
        BY <1>1, <3>2, <3>6, <4>1, <4>3, PendingTail
      <4> QED
        BY <4>2, <4>3
    <3> QED
      BY <1>1, <2>1, <3>1, <3>6, <3>7, NextPaces, ZenonT(30)
  <2> QED
    BY <2>3, <2>4
<1>6. CASE LinkFails
  <2>1. /\ requests' = <<>> /\ disturbed' = TRUE /\ pacing' = pacing
        /\ paced' = [j \in PacedJobs |-> [paced[j] EXCEPT !.gone = paced[j].gone \/ paced[j].asked > 0]]
    BY <1>6 DEF LinkFails
  <2>2. ASSUME NEW j \in PacedJobs
        PROVE  /\ paced'[j] \in PacedType /\ (~paced'[j].gone => ~paced[j].gone)
               /\ paced'[j].asked = paced[j].asked /\ paced'[j].done = paced[j].done
    BY <1>1, <2>1, ZenonT(30) DEF PacedType
  <2>3. paced' \in [PacedJobs -> PacedType]
    BY <2>1, <2>2
  <2>4. ASSUME NEW v \in PacedJobs, ~paced'[v].gone
        PROVE  StagePending(paced', pacing', v)
    BY <1>1, <2>1, <2>2, <2>4, ZenonT(30) DEF StagePending
  <2>5. <<>> \in Seq(Requests) /\ Len(<<>>) <= 1
    OBVIOUS
  <2> QED
    BY <1>1, <2>1, <2>3, <2>4, <2>5
<1>7. CASE UNCHANGED pvars
  BY <1>1, <1>7 DEF pvars, PacedOneAtATime
<1> QED
  BY <1>2, <1>3, <1>4, <1>5, <1>6, <1>7 DEF PacingNext

\* SubNodePacing: whatever jobs share the compute node and however many
\* stages they have, one request at most is at the I/O node, and it is the
\* front of the queue.
THEOREM PacingOneAtATime == PacingSpec => []PacedOneAtATime
<1>1. PacingInit => PacingInv
  <2> SUFFICES ASSUME PacingInit PROVE PacingInv
    OBVIOUS
  <2>1. <<>> \in Seq(Requests) /\ Len(<<>>) = 0 /\ 1 .. 0 = {} /\ 0 \in 0 .. Stages
    BY PacingAssumption
  <2>2. PacedOneAtATime
    <3>1. [asked |-> 0, done |-> 0, signal |-> "none", gone |-> FALSE]
             \in [asked : 0 .. Stages, done : 0 .. Stages,
                  signal : {"none", "asked", "done"}, gone : BOOLEAN]
      BY <2>1
    <3>2. PTypeOK
      BY <2>1, <3>1, ZenonT(30) DEF PacingInit, PTypeOK
    <3> QED
      BY <2>1, <3>2 DEF PacingInit, PacedOneAtATime
  <2>3. \A j \in PacedJobs : StagePending(paced, pacing, j)
    <3> TAKE j \in PacedJobs
    <3>1. paced[j].asked = 0 /\ paced[j].done = 0 /\ pacing = <<>>
      BY DEF PacingInit
    <3>2. 1 .. Len(pacing) = {}
      BY <2>1, <3>1
    <3> QED
      BY <3>1, <3>2 DEF StagePending
  <2> QED
    BY <2>2, <2>3 DEF PacingInv
<1>2. PacingInv => PacedOneAtATime
  BY DEF PacingInv
<1> QED
  BY <1>1, <1>2, PacingStep, PTL DEF PacingSpec

=============================================================================
