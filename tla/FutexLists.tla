----------------------------- MODULE FutexLists -----------------------------
(***************************************************************************)
(* What the operators of Futex do to the queues: the table with its linked *)
(* lists holds the same queues before and after, but for the change that   *)
(* the operator makes.                                                     *)
(***************************************************************************)
EXTENDS Futex, TLAPS

USE ZenonT(8), SMTT(20)

-----------------------------------------------------------------------------
(* Lists.                                                                  *)

\* What the lemmas use of numbers and finite sets; FutexProofs derives it from the library.
HasLeast == \A S \in SUBSET Nat : S # {} => \E n \in S : \A m \in S : n <= m

OnceBounded ==
    /\ Cardinality(KThreads) \in Nat
    /\ \A s \in Seq(KThreads) : Once(s) => Len(s) <= Cardinality(KThreads)

MoreEntries ==
    \A t \in KThreads : \A f \in [1 .. NumFutex -> KThreads \ {t}] :
        \E i, j \in 1 .. NumFutex : i # j /\ f[i] = f[j]

Counting == HasLeast /\ OnceBounded /\ MoreEntries

\* At most one sequence of threads is linked from a head.
LEMMA LinkedOnce ==
    ASSUME Counting, NEW k, NEW head, NEW s \in Seq(KThreads), NEW w \in Seq(KThreads),
           Linked(k, head, s), Linked(k, head, w)
    PROVE  s = w
<1> DEFINE D == {i \in Nat \ {0} : At(s, i) # At(w, i)}
<1> USE NullAssumption
<1>1. D = {}
  <2> SUFFICES ASSUME D # {} PROVE FALSE
    OBVIOUS
  <2>1. PICK n \in D : \A m \in D : n <= m
    <3> D \in SUBSET Nat
      OBVIOUS
    <3> QED
      BY ZenonT(30) DEF Counting, HasLeast
  <2>2. n # 1
    BY DEF Linked
  <2>3. n - 1 \in Nat \ {0} /\ n - 1 \notin D
    BY <2>1, <2>2
  <2>4. At(s, n - 1) = At(w, n - 1)
    BY <2>3
  <2>5. CASE n - 1 <= Len(s)
    <3>1. At(s, n - 1) = s[n - 1] /\ s[n - 1] \in KThreads
      BY <2>3, <2>5 DEF At
    <3>2. n - 1 <= Len(w) /\ w[n - 1] = s[n - 1]
      BY <2>3, <2>4, <3>1 DEF At
    <3>3. At(s, n) = k.kthr[s[n - 1]].next /\ At(w, n) = k.kthr[w[n - 1]].next
      BY <2>3, <2>5, <3>2 DEF Linked
    <3> QED
      BY <3>2, <3>3
  <2>6. CASE ~(n - 1 <= Len(s))
    <3>1. At(s, n - 1) = NULL /\ At(s, n) = NULL
      BY <2>3, <2>6 DEF At
    <3>2. ~(n - 1 <= Len(w))
      <4> SUFFICES ASSUME n - 1 <= Len(w) PROVE FALSE
        OBVIOUS
      <4>1. At(w, n - 1) = w[n - 1] /\ w[n - 1] \in KThreads
        BY <2>3 DEF At
      <4> QED
        BY <2>4, <3>1, <4>1
    <3>3. At(w, n) = NULL
      BY <2>3, <3>2 DEF At
    <3> QED
      BY <3>1, <3>3
  <2> QED
    BY <2>5, <2>6
<1>2. \A i \in Nat \ {0} : At(s, i) = At(w, i)
  BY <1>1
<1>3. \A i \in 1 .. Len(s) : s[i] \in KThreads /\ At(s, i) = s[i]
  BY DEF At
<1>4. \A i \in 1 .. Len(w) : w[i] \in KThreads /\ At(w, i) = w[i]
  BY DEF At
<1>5. Len(s) = Len(w)
  <2>1. At(s, Len(s) + 1) = NULL /\ At(w, Len(w) + 1) = NULL
    BY DEF At
  <2>2. ~(Len(s) < Len(w))
    <3> SUFFICES ASSUME Len(s) < Len(w) PROVE FALSE
      OBVIOUS
    <3> Len(s) + 1 \in 1 .. Len(w)
      OBVIOUS
    <3> QED
      BY <1>2, <1>4, <2>1
  <2>3. ~(Len(w) < Len(s))
    <3> SUFFICES ASSUME Len(w) < Len(s) PROVE FALSE
      OBVIOUS
    <3> Len(w) + 1 \in 1 .. Len(s)
      OBVIOUS
    <3> QED
      BY <1>2, <1>3, <2>1
  <2> QED
    BY <2>2, <2>3
<1>6. \A i \in 1 .. Len(s) : s[i] = w[i]
  BY <1>2, <1>3, <1>4, <1>5
<1> QED
  BY <1>5, <1>6

LEMMA OnceShort ==
    ASSUME Counting, NEW s \in Seq(KThreads), Once(s)
    PROVE  s \in ThreadSeqs
<1>1. Cardinality(KThreads) \in Nat /\ Len(s) <= Cardinality(KThreads)
  BY DEF Counting, OnceBounded
<1>2. s \in [1 .. Len(s) -> KThreads] /\ Len(s) \in 0 .. Cardinality(KThreads)
  BY <1>1
<1> QED
  BY <1>2 DEF ThreadSeqs

\* What Waiters returns.
LEMMA WaitersAre ==
    ASSUME Counting, NEW k, NEW head, NEW s \in Seq(KThreads), Once(s), Linked(k, head, s)
    PROVE  Waiters(k, head) = s
<1> USE NullAssumption
<1>1. CASE head = NULL
  <2>1. ~(1 <= Len(s))
    <3> SUFFICES ASSUME 1 <= Len(s) PROVE FALSE
      OBVIOUS
    <3> s[1] \in KThreads
      OBVIOUS
    <3> QED
      BY <1>1 DEF Linked, At
  <2> QED
    BY <1>1, <2>1 DEF Waiters
<1>2. CASE head # NULL
  <2> DEFINE w == CHOOSE v \in ThreadSeqs : Linked(k, head, v)
  <2>1. w \in ThreadSeqs /\ Linked(k, head, w)
    BY OnceShort, Zenon
  <2> HIDE DEF w
  <2>2. w \in Seq(KThreads)
    BY <2>1 DEF ThreadSeqs
  <2>3. w = s
    BY <2>1, <2>2, LinkedOnce
  <2> QED
    BY <1>2, <2>3 DEF Waiters, w
<1> QED
  BY <1>1, <1>2

-----------------------------------------------------------------------------
(* The table.  A state k of table and kthr holds the queues q.             *)

ThreadState ==
    [next : KThreads \cup {NULL}, vaddr : Addresses \cup {NULL}, expected : Values \cup {NULL},
     timed : BOOLEAN, blocked : BOOLEAN,
     result : {"0", "EWOULDBLOCK", "ETIMEDOUT", "EINTR"}]

Entry == [vaddr : Addresses \cup {NULL}, head : KThreads \cup {NULL}]

States == [table : [1 .. NumFutex -> Entry], kthr : [KThreads -> ThreadState],
           list : Seq(KThreads)]

\* The threads of s have the address a and are linked in this order.
Chained(k, a, s) ==
    /\ Once(s)
    /\ \A i \in 1 .. Len(s) : k.kthr[s[i]].vaddr = a /\ k.kthr[s[i]].next = At(s, i + 1)

HasEntry(k, a) == \E e \in 1 .. NumFutex : k.table[e].vaddr = a

Inside(s, t) == \E i \in 1 .. Len(s) : s[i] = t

\* An entry begins the queue of its address.
Begins(k, q, e) ==
    /\ k.table[e].vaddr = NULL => k.table[e].head = NULL
    /\ k.table[e].vaddr # NULL => k.table[e].head = At(q[k.table[e].vaddr], 1)

OneEntry(k) ==
    \A e, f \in 1 .. NumFutex :
        k.table[e].vaddr # NULL /\ k.table[f].vaddr = k.table[e].vaddr => e = f

\* Each queue is the list of the entry with its address, and has the threads with its
\* address.
Holds(k, q) ==
    /\ q \in [Addresses -> Seq(KThreads)]
    /\ \A a \in Addresses : Chained(k, a, q[a]) /\ (q[a] # <<>> => HasEntry(k, a))
    /\ \A t \in KThreads : k.kthr[t].vaddr # NULL => Inside(q[k.kthr[t].vaddr], t)
    /\ \A e \in 1 .. NumFutex : Begins(k, q, e)
    /\ OneEntry(k)

\* Entries are freed with their last waiter.
NoneEmpty(k) == \A e \in 1 .. NumFutex : k.table[e].vaddr # NULL => k.table[e].head # NULL

\* What Futex_findTableEntry returns.
LEMMA Found ==
    ASSUME Counting, NEW k, NEW a
    PROVE  LET e == Futex_findTableEntry(k, a)
           IN  /\ e = 0 => \A f \in 1 .. NumFutex : k.table[f].vaddr # a
               /\ e # 0 => e \in 1 .. NumFutex /\ k.table[e].vaddr = a
<1> DEFINE found == {i \in 1 .. NumFutex : k.table[i].vaddr = a}
<1>1. CASE found = {}
  <2>1. Futex_findTableEntry(k, a) = 0
    BY <1>1 DEF Futex_findTableEntry
  <2> QED
    BY <1>1, <2>1
<1>2. CASE found # {}
  <2>1. found \in SUBSET Nat
    BY NumFutexAssumption
  <2>2. \E x \in found : \A y \in found : x <= y
    BY Zenon, <1>2, <2>1 DEF Counting, HasLeast
  <2> DEFINE e == CHOOSE i \in found : \A j \in found : i <= j
  <2>3. e \in found
    <3> HIDE DEF found
    <3> QED
      BY <2>2, Zenon
  <2>4. Futex_findTableEntry(k, a) = e
    BY <1>2, Zenon DEF Futex_findTableEntry
  <2> HIDE DEF e
  <2>5. e \in 1 .. NumFutex /\ k.table[e].vaddr = a
    BY <2>3
  <2>6. e # 0
    BY <2>5, NumFutexAssumption
  <2> QED
    BY <2>4, <2>5, <2>6
<1> QED
  BY <1>1, <1>2

\* The waiters of an entry are the queue of its address.
LEMMA EntryWaiters ==
    ASSUME Counting, NEW k, NEW q, Holds(k, q), NEW e \in 1 .. NumFutex
    PROVE  /\ k.table[e].vaddr = NULL => WaitersOf(k, e) = <<>>
           /\ k.table[e].vaddr \in Addresses => WaitersOf(k, e) = q[k.table[e].vaddr]
<1>1. ASSUME k.table[e].vaddr = NULL
      PROVE  WaitersOf(k, e) = <<>>
  BY <1>1 DEF WaitersOf, Waiters, Holds, Begins
<1>2. ASSUME k.table[e].vaddr \in Addresses
      PROVE  WaitersOf(k, e) = q[k.table[e].vaddr]
  <2> DEFINE a == k.table[e].vaddr
  <2>1. q[a] \in Seq(KThreads) /\ Chained(k, a, q[a])
    BY <1>2 DEF Holds
  <2>2. a # NULL
    BY <1>2, NullAssumption
  <2>3. Linked(k, k.table[e].head, q[a])
    BY <2>1, <2>2, ZenonT(30) DEF Holds, Begins, Linked, Chained
  <2> HIDE DEF a
  <2>4. Waiters(k, k.table[e].head) = q[a]
    BY <2>1, <2>3, WaitersAre DEF Chained
  <2> QED
    BY <2>4 DEF WaitersOf, a
<1> QED
  BY <1>1, <1>2

\* The queues that k holds are what the refinement mapping reads off k.
LEMMA Contents ==
    ASSUME Counting, NEW k, NEW q, Holds(k, q), NEW a \in Addresses
    PROVE  q[a] = LET i == Futex_findTableEntry(k, a)
                  IN  IF i = 0 THEN <<>> ELSE WaitersOf(k, i)
<1> DEFINE e == Futex_findTableEntry(k, a)
<1>1. /\ e = 0 => \A f \in 1 .. NumFutex : k.table[f].vaddr # a
      /\ e # 0 => e \in 1 .. NumFutex /\ k.table[e].vaddr = a
  BY Found
<1> HIDE DEF e
<1>2. CASE e = 0
  <2>1. q[a] = <<>>
    BY <1>1, <1>2 DEF Holds, HasEntry
  <2> QED
    BY <1>2, <2>1 DEF e
<1>3. CASE e # 0
  <2>1. WaitersOf(k, e) = q[a]
    BY <1>1, <1>3, EntryWaiters
  <2> QED
    BY <1>3, <2>1 DEF e
<1> QED
  BY <1>2, <1>3

\* While a thread is in no queue, the table has a free entry: NUM_FUTEX is NUM_KTHREADS.
LEMMA FreeEntry ==
    ASSUME Counting, NEW k \in States, NEW q, Holds(k, q), NoneEmpty(k),
           NEW t \in KThreads, k.kthr[t].vaddr = NULL
    PROVE  \E e \in 1 .. NumFutex : k.table[e].vaddr = NULL
<1> SUFFICES ASSUME \A e \in 1 .. NumFutex : k.table[e].vaddr # NULL
             PROVE  FALSE
  OBVIOUS
<1> USE NullAssumption, NumFutexAssumption
<1> DEFINE f == [e \in 1 .. NumFutex |-> k.table[e].head]
<1>1. ASSUME NEW e \in 1 .. NumFutex
      PROVE  /\ k.table[e].vaddr \in Addresses
             /\ k.table[e].head \in KThreads \ {t}
             /\ k.kthr[k.table[e].head].vaddr = k.table[e].vaddr
  <2> DEFINE a == k.table[e].vaddr
  <2>1. a \in Addresses /\ k.table[e].head \in KThreads
    BY DEF States, Entry, NoneEmpty
  <2>2. k.table[e].head = At(q[a], 1) /\ q[a] \in Seq(KThreads)
    BY <2>1 DEF Holds, Begins
  <2>3. 1 <= Len(q[a])
    BY <2>1, <2>2 DEF At
  <2>4. Chained(k, a, q[a])
    BY <2>1 DEF Holds
  <2>5. k.table[e].head = q[a][1]
    BY <2>2, <2>3 DEF At
  <2> HIDE DEF a
  <2>6. 1 \in 1 .. Len(q[a])
    BY <2>2, <2>3
  <2>7. k.kthr[q[a][1]].vaddr = a
    BY <2>4, <2>6 DEF Chained
  <2> QED
    BY <2>1, <2>5, <2>7 DEF a
<1>2. f \in [1 .. NumFutex -> KThreads \ {t}]
  BY <1>1
<1> HIDE DEF f
<1>6. PICK x, y \in 1 .. NumFutex : x # y /\ f[x] = f[y]
  BY <1>2 DEF Counting, MoreEntries
<1>7. k.table[x].head = k.table[y].head
  BY <1>6 DEF f
<1>8. k.table[x].vaddr = k.table[y].vaddr
  BY <1>1, <1>7
<1> QED
  BY <1>6, <1>8 DEF Holds, OneEntry

\* Allocated finds or makes an entry for the address.
LEMMA AllocatedEntry ==
    ASSUME Counting, NEW k \in States, NEW q, Holds(k, q), NoneEmpty(k),
           NEW t \in KThreads, k.kthr[t].vaddr = NULL, NEW a \in Addresses
    PROVE  LET l == Allocated(k, a)
               e == Futex_findTableEntry(l, a)
           IN  /\ l \in States /\ l.kthr = k.kthr /\ l.list = k.list
               /\ Holds(l, q)
               /\ e \in 1 .. NumFutex /\ l.table[e].vaddr = a
               /\ \A f \in 1 .. NumFutex : f # e => l.table[f] = k.table[f]
               /\ \A f \in 1 .. NumFutex :
                    k.table[f].vaddr # NULL => l.table[f] = k.table[f]
<1> DEFINE l == Allocated(k, a)
           e == Futex_findTableEntry(l, a)
           free == Futex_findTableEntry(k, NULL)
           new == [vaddr |-> a, head |-> NULL]
<1> USE NullAssumption, NumFutexAssumption
<1>1. free \in 1 .. NumFutex /\ k.table[free].vaddr = NULL
  BY Found, FreeEntry, ZenonT(30)
<1>2. CASE Futex_findTableEntry(k, a) # 0
  <2>1. l = k
    BY <1>2 DEF Allocated
  <2>2. e \in 1 .. NumFutex /\ l.table[e].vaddr = a
    BY <1>2, <2>1, Found
  <2> QED
    BY <2>1, <2>2
<1>3. CASE Futex_findTableEntry(k, a) = 0
  <2>1. \A f \in 1 .. NumFutex : k.table[f].vaddr # a
    BY <1>3, Found
  <2>2. l = [k EXCEPT !.table[free] = new]
    BY <1>1, <1>3 DEF Allocated
  <2> HIDE DEF l, e, free
  <2>3. /\ l.table = [k.table EXCEPT ![free] = new]
        /\ l.kthr = k.kthr /\ l.list = k.list /\ l \in States
    BY <1>1, <2>2, ZenonT(30) DEF States, Entry
  <2>4. q[a] = <<>>
    BY <2>1 DEF Holds, HasEntry
  <2>5. Holds(l, q)
    <3>1. \A f \in 1 .. NumFutex : l.table[f] = IF f = free THEN new ELSE k.table[f]
      BY <2>3 DEF States
    <3>2. \A b \in Addresses : q[b] # <<>> => HasEntry(l, b)
      <4> SUFFICES ASSUME NEW b \in Addresses, q[b] # <<>>
                   PROVE  \E f \in 1 .. NumFutex : l.table[f].vaddr = b
        BY DEF HasEntry
      <4>1. PICK f \in 1 .. NumFutex : k.table[f].vaddr = b
        BY DEF Holds, HasEntry
      <4>2. f # free
        BY <1>1, <4>1
      <4> QED
        BY <3>1, <4>1, <4>2
    <3>3. At(q[a], 1) = NULL
      BY <2>4 DEF At
    <3>4. \A f \in 1 .. NumFutex : Begins(l, q, f)
      <4> SUFFICES ASSUME NEW f \in 1 .. NumFutex PROVE Begins(l, q, f)
        OBVIOUS
      <4>1. Begins(k, q, f)
        BY DEF Holds
      <4> QED
        BY <3>1, <3>3, <4>1 DEF Begins
    <3>5. OneEntry(l)
      <4>1. OneEntry(k)
        BY DEF Holds
      <4> QED
        BY <1>1, <2>1, <3>1, <4>1 DEF OneEntry
    <3>6. \A b \in Addresses : Chained(l, b, q[b])
      BY <2>3 DEF Holds, Chained
    <3> QED
      BY <2>3, <3>2, <3>4, <3>5, <3>6 DEF Holds
  <2>6. l.table[free].vaddr = a
    BY <1>1, <2>3 DEF States
  <2>7. e \in 1 .. NumFutex /\ l.table[e].vaddr = a
    BY <1>1, <2>6, Found DEF e
  <2>8. e = free
    BY <1>1, <2>5, <2>6, <2>7 DEF Holds, OneEntry
  <2> QED
    BY <1>1, <2>3, <2>5, <2>7, <2>8 DEF States, l, e
<1> QED
  BY <1>2, <1>3

\* A queue stays what it is while its threads keep their links.
LEMMA SameChain ==
    ASSUME NEW k, NEW l, NEW a, NEW s, Chained(k, a, s),
           \A i \in 1 .. Len(s) : /\ l.kthr[s[i]].vaddr = k.kthr[s[i]].vaddr
                                  /\ l.kthr[s[i]].next = k.kthr[s[i]].next
    PROVE  Chained(l, a, s)
BY DEF Chained

\* No thread is in both lists.
Apart(w, r) == \A i \in 1 .. Len(w) : \A j \in 1 .. Len(r) : w[i] # r[j]

\* Two lists of different threads, the first linked to the second, are one.
LEMMA JoinedOnce ==
    ASSUME NEW w \in Seq(KThreads), NEW r \in Seq(KThreads), Once(w), Once(r),
           Apart(w, r)
    PROVE  Once(w \o r)
<1> DEFINE s == w \o r
<1>1. Len(s) = Len(w) + Len(r)
  OBVIOUS
<1>2. \A i \in 1 .. Len(w) : s[i] = w[i]
  OBVIOUS
<1>3. \A i \in 1 .. Len(s) : ~(i <= Len(w)) => i - Len(w) \in 1 .. Len(r) /\ s[i] = r[i - Len(w)]
  OBVIOUS
<1> HIDE DEF s
<1>a. ASSUME NEW i \in 1 .. Len(s), NEW j \in 1 .. Len(s), i <= Len(w), ~(j <= Len(w))
      PROVE  s[i] # s[j]
  <2>1. i \in 1 .. Len(w) /\ s[i] = w[i]
    BY <1>2, <1>a
  <2>2. j - Len(w) \in 1 .. Len(r) /\ s[j] = r[j - Len(w)]
    BY <1>3, <1>a
  <2> QED
    BY <2>1, <2>2 DEF Apart
<1>4. ASSUME NEW i \in 1 .. Len(s), NEW j \in 1 .. Len(s), s[i] = s[j]
      PROVE  i = j
  <2>1. CASE i <= Len(w) /\ j <= Len(w)
    BY <1>1, <1>2, <1>4, <2>1 DEF Once
  <2>2. CASE ~(i <= Len(w)) /\ ~(j <= Len(w))
    <3>1. r[i - Len(w)] = r[j - Len(w)]
      BY <1>3, <1>4, <2>2
    <3>2. i - Len(w) \in 1 .. Len(r) /\ j - Len(w) \in 1 .. Len(r)
      BY <1>3, <2>2
    <3>3. i - Len(w) = j - Len(w)
      BY <3>1, <3>2 DEF Once
    <3>4. Len(w) \in Nat /\ i \in Int /\ j \in Int
      OBVIOUS
    <3> QED
      BY <3>3, <3>4
  <2>3. CASE i <= Len(w) /\ ~(j <= Len(w))
    BY <1>4, <1>a, <2>3
  <2>4. CASE ~(i <= Len(w)) /\ j <= Len(w)
    BY <1>4, <1>a, <2>4
  <2> QED
    BY <2>1, <2>2, <2>3, <2>4
<1>5. Once(s)
  BY <1>4 DEF Once
<1> QED
  BY <1>5 DEF s

\* A link of a thread changes.
LEMMA Relinked ==
    ASSUME NEW x \in ThreadState, NEW n \in KThreads \cup {NULL}
    PROVE  [x EXCEPT !.next = n] \in ThreadState
BY DEF ThreadState

\* The list r comes after the queue w of entry e.
IsPasted(k, l, a, e, w, r) ==
    /\ l \in States /\ l.list = k.list
    /\ Chained(l, a, w \o r)
    /\ l.table = [k.table EXCEPT ![e].head = At(w \o r, 1)]
    /\ \A t \in KThreads :
        l.kthr[t] = IF w # <<>> /\ t = w[Len(w)]
                    THEN [k.kthr[t] EXCEPT !.next = r[1]] ELSE k.kthr[t]

\* Paste appends the list r to the queue w of entry e.
LEMMA Pasted ==
    ASSUME Counting, NEW k \in States, NEW a \in Addresses, NEW e \in 1 .. NumFutex,
           NEW w \in Seq(KThreads), NEW r \in Seq(KThreads), r # <<>>,
           Chained(k, a, w), Chained(k, a, r), k.table[e].head = At(w, 1),
           Apart(w, r)
    PROVE  IsPasted(k, Paste(k, e, r[1]), a, e, w, r)
<1> DEFINE l == Paste(k, e, r[1])
           s == w \o r
<1>1. WaitersOf(k, e) = w
  <2>1. Linked(k, k.table[e].head, w) /\ Once(w)
    BY DEF Linked, Chained
  <2> QED
    BY <2>1, WaitersAre DEF WaitersOf
<1>2. Once(s)
  BY JoinedOnce DEF Chained
<1>3. /\ Len(r) \in Nat \ {0} /\ r[1] \in KThreads /\ Len(w) \in Nat
      /\ s \in Seq(KThreads) /\ Len(s) = Len(w) + Len(r)
  OBVIOUS
<1>4. \A i \in 1 .. Len(w) : s[i] = w[i]
  OBVIOUS
<1>5. \A i \in 1 .. Len(s) : ~(i <= Len(w)) => i - Len(w) \in 1 .. Len(r) /\ s[i] = r[i - Len(w)]
  OBVIOUS
<1>6. At(s, Len(w) + 1) = r[1]
  BY <1>3, <1>5 DEF At
<1>7. \A i \in 1 .. Len(w) : i # Len(w) => At(s, i + 1) = At(w, i + 1)
  BY <1>3, <1>4 DEF At
<1>8. \A i \in 1 .. Len(s) : ~(i <= Len(w)) => At(s, i + 1) = At(r, i - Len(w) + 1)
  <2> SUFFICES ASSUME NEW i \in 1 .. Len(s), ~(i <= Len(w))
               PROVE  At(s, i + 1) = At(r, i - Len(w) + 1)
    OBVIOUS
  <2>1. i - Len(w) \in 1 .. Len(r)
    BY <1>5
  <2>2. CASE i + 1 <= Len(s)
    <3>1. i + 1 \in 1 .. Len(s) /\ ~(i + 1 <= Len(w))
      BY <1>3, <2>2
    <3>2. s[i + 1] = r[i + 1 - Len(w)]
      BY <1>5, <3>1
    <3>3. i + 1 - Len(w) = i - Len(w) + 1
      BY <1>3
    <3> QED
      BY <1>3, <2>1, <2>2, <3>2, <3>3 DEF At
  <2>3. CASE ~(i + 1 <= Len(s))
    BY <1>3, <2>1, <2>3 DEF At
  <2> QED
    BY <2>2, <2>3
<1> HIDE DEF s
<1>9. CASE w = <<>>
  <2>1. l = [k EXCEPT !.table[e].head = r[1]]
    BY <1>1, <1>9 DEF Paste
  <2> HIDE DEF l
  <2>2. /\ l.table = [k.table EXCEPT ![e].head = r[1]]
        /\ l.kthr = k.kthr /\ l.list = k.list /\ l \in States
    BY <1>3, <2>1, ZenonT(30) DEF States, Entry
  <2>3. s = r
    BY <1>9 DEF s
  <2>4. At(s, 1) = r[1]
    BY <1>3, <2>3 DEF At
  <2>5. Chained(l, a, s)
    BY <2>2, <2>3, SameChain
  <2> QED
    BY <1>9, <2>2, <2>4, <2>5 DEF l, s, IsPasted
<1>10. CASE w # <<>>
  <2> DEFINE z == w[Len(w)]
  <2>1. l = [k EXCEPT !.kthr[z].next = r[1]]
    BY <1>1, <1>10 DEF Paste, Last
  <2>2. z \in KThreads /\ Len(w) \in 1 .. Len(w)
    <3>1. Len(w) \in Nat \ {0}
      BY <1>10
    <3> QED
      BY <3>1
  <2> HIDE DEF l, z
  <2>3. /\ l.kthr = [k.kthr EXCEPT ![z].next = r[1]]
        /\ l.table = k.table /\ l.list = k.list /\ l \in States
    <3>1. /\ l.kthr = [k.kthr EXCEPT ![z].next = r[1]]
          /\ l.table = k.table /\ l.list = k.list
          /\ l = [table |-> l.table, kthr |-> l.kthr, list |-> l.list]
      BY <2>1, ZenonT(30) DEF States
    <3>2. [k.kthr[z] EXCEPT !.next = r[1]] \in ThreadState
      <4>1. k.kthr[z] \in ThreadState
        BY <2>2 DEF States
      <4> QED
        BY <1>3, <4>1, Relinked
    <3>3. l.kthr \in [KThreads -> ThreadState]
      <4>1. l.kthr = [k.kthr EXCEPT ![z] = [k.kthr[z] EXCEPT !.next = r[1]]]
        BY <3>1
      <4>2. k.kthr \in [KThreads -> ThreadState]
        BY DEF States
      <4> QED
        BY <3>2, <4>1, <4>2, ZenonT(30)
    <3> QED
      BY <3>1, <3>3, ZenonT(30) DEF States
  <2>4. \A t \in KThreads :
            l.kthr[t] = IF t = z THEN [k.kthr[t] EXCEPT !.next = r[1]] ELSE k.kthr[t]
    BY <2>3 DEF States
  <2>5. l.kthr[z].next = r[1] /\ \A t \in KThreads : l.kthr[t].vaddr = k.kthr[t].vaddr
    BY <2>2, <2>4, ZenonT(30) DEF States, ThreadState
  <2>6. ASSUME NEW i \in 1 .. Len(s)
        PROVE  l.kthr[s[i]].vaddr = a /\ l.kthr[s[i]].next = At(s, i + 1)
    <3>1. CASE i <= Len(w)
      <4>1. i \in 1 .. Len(w) /\ s[i] = w[i] /\ w[i] \in KThreads
        BY <1>3, <1>4, <3>1
      <4>2. k.kthr[w[i]].vaddr = a /\ k.kthr[w[i]].next = At(w, i + 1)
        BY <4>1 DEF Chained
      <4>3. CASE i = Len(w)
        BY <1>6, <2>5, <4>1, <4>2, <4>3 DEF z
      <4>4. CASE i # Len(w)
        <5>1. w[i] # z
          BY <2>2, <4>1, <4>4 DEF z, Once, Chained
        <5> QED
          BY <1>7, <2>4, <4>1, <4>2, <4>4, <5>1, ZenonT(30)
      <4> QED
        BY <4>3, <4>4
    <3>2. CASE ~(i <= Len(w))
      <4> DEFINE j == i - Len(w)
      <4>1. j \in 1 .. Len(r) /\ s[i] = r[j] /\ r[j] \in KThreads
        BY <1>5, <3>2
      <4>2. r[j] # z
        BY <2>2, <4>1 DEF z, Apart
      <4>3. k.kthr[r[j]].vaddr = a /\ k.kthr[r[j]].next = At(r, j + 1)
        BY <4>1 DEF Chained
      <4>4. l.kthr[r[j]] = k.kthr[r[j]]
        BY <2>4, <4>1, <4>2, ZenonT(30)
      <4> QED
        BY <1>8, <3>2, <4>1, <4>3, <4>4
    <3> QED
      BY <3>1, <3>2
  <2>7. Chained(l, a, s)
    BY <1>2, <2>6 DEF Chained
  <2>8. At(s, 1) = At(w, 1)
    BY <1>3, <1>4, <1>10 DEF At
  <2>9. l.table = [k.table EXCEPT ![e].head = At(s, 1)]
    BY <2>3, <2>8 DEF States, Entry
  <2> QED
    BY <1>10, <2>3, <2>4, <2>7, <2>9 DEF l, s, z, IsPasted
<1> QED
  BY <1>9, <1>10

\* A thread of s comes from the queue of a or from none, a thread that leaves that queue
\* has no address, and the others keep their links.
Joins(k, l, a, s, t) ==
    IF Inside(s, t) THEN k.kthr[t].vaddr \in {a, NULL}
    ELSE IF k.kthr[t].vaddr = a THEN l.kthr[t].vaddr = NULL
    ELSE l.kthr[t].vaddr = k.kthr[t].vaddr /\ l.kthr[t].next = k.kthr[t].next

\* The queue of address a, in entry e, becomes s, and the other queues stay.
LEMMA QueueChanges ==
    ASSUME NEW k \in States, NEW q, Holds(k, q), NEW a \in Addresses,
           NEW e \in 1 .. NumFutex, k.table[e].vaddr = a,
           NEW l \in States, NEW s \in Seq(KThreads), Chained(l, a, s),
           l.table = [k.table EXCEPT ![e].head = At(s, 1)],
           \A t \in KThreads : Joins(k, l, a, s, t)
    PROVE  Holds(l, [q EXCEPT ![a] = s])
<1> DEFINE p == [q EXCEPT ![a] = s]
<1> USE NullAssumption
<1>1. p \in [Addresses -> Seq(KThreads)] /\ p[a] = s /\ \A b \in Addresses \ {a} : p[b] = q[b]
  BY DEF Holds
<1> HIDE DEF p
<1>2. l.table[e].vaddr = a /\ l.table[e].head = At(s, 1)
  <2>1. k.table[e] \in Entry /\ l.table[e] = [k.table[e] EXCEPT !.head = At(s, 1)]
    BY ZenonT(30) DEF States
  <2> QED
    BY <2>1 DEF Entry
<1>3. \A f \in 1 .. NumFutex : l.table[f].vaddr = k.table[f].vaddr
  BY DEF States, Entry
<1>4. \A f \in 1 .. NumFutex : f # e => l.table[f] = k.table[f]
  BY DEF States
<1>5. ASSUME NEW b \in Addresses, b # a, NEW i \in 1 .. Len(q[b])
      PROVE  /\ q[b][i] \in KThreads
             /\ l.kthr[q[b][i]].vaddr = k.kthr[q[b][i]].vaddr
             /\ l.kthr[q[b][i]].next = k.kthr[q[b][i]].next
  <2>1. q[b] \in Seq(KThreads) /\ Chained(k, b, q[b])
    BY DEF Holds
  <2>2. q[b][i] \in KThreads /\ k.kthr[q[b][i]].vaddr = b
    BY <2>1 DEF Chained
  <2>3. Joins(k, l, a, s, q[b][i])
    BY <2>2
  <2> QED
    BY <1>5, <2>2, <2>3, ZenonT(30) DEF Joins
<1>6. ASSUME NEW b \in Addresses
      PROVE  Chained(l, b, p[b]) /\ (p[b] # <<>> => HasEntry(l, b))
  <2>1. CASE b = a
    BY <1>1, <1>2, <2>1 DEF HasEntry
  <2>2. CASE b # a
    <3>1. Chained(k, b, q[b]) /\ (q[b] # <<>> => HasEntry(k, b))
      BY DEF Holds
    <3>2. Chained(l, b, q[b])
      BY <1>5, <2>2, <3>1, SameChain
    <3>3. HasEntry(k, b) => HasEntry(l, b)
      BY <1>3 DEF HasEntry
    <3> QED
      BY <1>1, <2>2, <3>1, <3>2, <3>3
  <2> QED
    BY <2>1, <2>2
<1>7. ASSUME NEW t \in KThreads, l.kthr[t].vaddr # NULL
      PROVE  Inside(p[l.kthr[t].vaddr], t)
  <2>1. CASE Inside(s, t)
    <3>1. l.kthr[t].vaddr = a
      BY <2>1 DEF Inside, Chained
    <3> QED
      BY <1>1, <2>1, <3>1
  <2>2. CASE ~Inside(s, t)
    <3>1. k.kthr[t].vaddr # a /\ l.kthr[t].vaddr = k.kthr[t].vaddr
      BY <1>7, <2>2 DEF Joins
    <3>2. Inside(q[k.kthr[t].vaddr], t)
      BY <1>7, <3>1 DEF Holds
    <3>3. k.kthr[t].vaddr \in Addresses
      BY <1>7, <3>1 DEF States, ThreadState
    <3> QED
      BY <1>1, <3>1, <3>2, <3>3
  <2> QED
    BY <2>1, <2>2
<1>8. ASSUME NEW f \in 1 .. NumFutex
      PROVE  Begins(l, p, f)
  <2>1. CASE f = e
    BY <1>1, <1>2, <2>1 DEF Begins
  <2>2. CASE f # e
    <3>1. Begins(k, q, f) /\ (k.table[f].vaddr # NULL => k.table[f].vaddr # a)
      BY <2>2 DEF Holds, OneEntry
    <3>2. k.table[f].vaddr \in Addresses \cup {NULL}
      BY ZenonT(30) DEF States, Entry
    <3> QED
      BY <1>1, <1>4, <2>2, <3>1, <3>2, ZenonT(30) DEF Begins
  <2> QED
    BY <2>1, <2>2
<1>9. OneEntry(l)
  BY <1>3 DEF Holds, OneEntry
<1>10. Holds(l, p)
  BY <1>1, <1>6, <1>7, <1>8, <1>9 DEF Holds
<1> QED
  BY <1>10 DEF p

\* Entries outside of S are freed with their last waiter.
FreedBut(k, S) ==
    \A e \in 1 .. NumFutex : e \notin S /\ k.table[e].vaddr # NULL => k.table[e].head # NULL

\* FreeIfEmpty keeps the queues.
LEMMA Freed ==
    ASSUME NEW k \in States, NEW q, Holds(k, q), NEW e \in 0 .. NumFutex,
           NEW S, FreedBut(k, S)
    PROVE  LET l == FreeIfEmpty(k, e)
           IN  /\ l \in States /\ l.kthr = k.kthr /\ l.list = k.list
               /\ Holds(l, q) /\ FreedBut(l, S \ {e})
<1> DEFINE l == FreeIfEmpty(k, e)
<1> USE NullAssumption, NumFutexAssumption
<1>1. CASE e = 0 \/ k.table[e].head # NULL
  BY <1>1 DEF FreeIfEmpty, FreedBut
<1>2. CASE ~(e = 0 \/ k.table[e].head # NULL)
  <2>1. e \in 1 .. NumFutex /\ k.table[e].head = NULL
    BY <1>2
  <2>2. l = [k EXCEPT !.table[e].vaddr = NULL]
    BY <1>2 DEF FreeIfEmpty
  <2> HIDE DEF l
  <2>3. /\ l.kthr = k.kthr /\ l.list = k.list /\ l \in States
        /\ l.table = [k.table EXCEPT ![e].vaddr = NULL]
    <3>1. /\ l.kthr = k.kthr /\ l.list = k.list
          /\ l.table = [k.table EXCEPT ![e].vaddr = NULL]
          /\ l = [table |-> l.table, kthr |-> l.kthr, list |-> l.list]
      BY <2>2, ZenonT(30) DEF States
    <3>2. k.table[e] \in Entry
      BY <2>1 DEF States
    <3>3. [k.table[e] EXCEPT !.vaddr = NULL] \in Entry
      BY <3>2 DEF Entry
    <3>4. l.table \in [1 .. NumFutex -> Entry]
      BY <3>1, <3>3, ZenonT(30) DEF States
    <3> QED
      BY <3>1, <3>4, ZenonT(30) DEF States
  <2>4. l.table[e].vaddr = NULL /\ l.table[e].head = NULL
    BY <2>1, <2>3 DEF States, Entry
  <2>5. \A f \in 1 .. NumFutex : f # e => l.table[f] = k.table[f]
    BY <2>3 DEF States
  <2>6. FreedBut(l, S \ {e})
    BY <2>4, <2>5 DEF FreedBut
  <2>7. OneEntry(l)
    BY <2>4, <2>5 DEF Holds, OneEntry
  <2>8. ASSUME NEW f \in 1 .. NumFutex
        PROVE  Begins(l, q, f)
    BY <2>4, <2>5 DEF Holds, Begins
  <2>9. ASSUME NEW a \in Addresses
        PROVE  Chained(l, a, q[a]) /\ (q[a] # <<>> => HasEntry(l, a))
    <3>1. Chained(k, a, q[a]) /\ (q[a] # <<>> => HasEntry(k, a)) /\ q[a] \in Seq(KThreads)
      BY DEF Holds
    <3>2. Chained(l, a, q[a])
      BY <2>3, <3>1, SameChain
    <3>3. ASSUME q[a] # <<>>
          PROVE  HasEntry(l, a)
      <4>1. PICK f \in 1 .. NumFutex : k.table[f].vaddr = a
        BY <3>1, <3>3 DEF HasEntry
      <4>2. k.table[f].head = At(q[a], 1)
        BY <4>1 DEF Holds, Begins
      <4>3. At(q[a], 1) \in KThreads
        BY <3>1, <3>3 DEF At
      <4>4. f # e
        BY <2>1, <4>2, <4>3
      <4> QED
        BY <2>5, <4>1, <4>4 DEF HasEntry
    <3> QED
      BY <3>2, <3>3
  <2>10. Holds(l, q)
    BY <2>3, <2>7, <2>8, <2>9 DEF Holds
  <2> QED
    BY <2>3, <2>6, <2>10 DEF l
<1> QED
  BY <1>1, <1>2

\* Nothing but the link of a thread changes.
Relink(x, y) ==
    /\ y.vaddr = x.vaddr /\ y.expected = x.expected /\ y.timed = x.timed
    /\ y.blocked = x.blocked /\ y.result = x.result

\* Thread t has the state x and is the last in the queue of a.
IsSleep(k, q, l, t, a, x) ==
    /\ l \in States /\ l.list = k.list
    /\ Holds(l, [q EXCEPT ![a] = Append(@, t)]) /\ NoneEmpty(l)
    /\ l.kthr[t] = x
    /\ \A u \in KThreads : u # t => Relink(k.kthr[u], l.kthr[u])

\* A thread that goes to sleep is the last in its queue.
LEMMA Sleeps ==
    ASSUME Counting, NEW k \in States, NEW q, Holds(k, q), NoneEmpty(k),
           NEW t \in KThreads, k.kthr[t].vaddr = NULL,
           NEW a \in Addresses, NEW x \in ThreadState, x.vaddr = a, x.next = NULL
    PROVE  /\ Futex_findTableEntry(Allocated(k, a), a) # 0
           /\ IsSleep(k, q, Paste([Allocated(k, a) EXCEPT !.kthr[t] = x],
                                  Futex_findTableEntry(Allocated(k, a), a), t), t, a, x)
<1> DEFINE m == Allocated(k, a)
           e == Futex_findTableEntry(m, a)
           n == [m EXCEPT !.kthr[t] = x]
           r == <<t>>
           w == q[a]
           s == w \o r
           l == Paste(n, e, t)
<1> USE NullAssumption
<1>1. /\ m \in States /\ m.kthr = k.kthr /\ m.list = k.list
      /\ Holds(m, q)
      /\ e \in 1 .. NumFutex /\ m.table[e].vaddr = a
      /\ \A f \in 1 .. NumFutex : f # e => m.table[f] = k.table[f]
  BY AllocatedEntry
<1>2. e # 0
  BY <1>1, NumFutexAssumption
<1> HIDE DEF m, e
<1>3. /\ n.kthr = [k.kthr EXCEPT ![t] = x] /\ n.table = m.table /\ n.list = k.list
      /\ n \in States
  BY <1>1, ZenonT(30) DEF States
<1> HIDE DEF n
<1>4. \A u \in KThreads : n.kthr[u] = IF u = t THEN x ELSE k.kthr[u]
  BY <1>3 DEF States
<1>5. w \in Seq(KThreads) /\ Chained(k, a, w)
  BY DEF Holds
<1>6. \A i \in 1 .. Len(w) : w[i] \in KThreads /\ w[i] # t
  BY <1>5 DEF Chained
<1>7. Chained(n, a, w)
  BY <1>4, <1>5, <1>6, SameChain, ZenonT(30)
<1>8. r \in Seq(KThreads) /\ r # <<>> /\ Len(r) = 1 /\ r[1] = t
  OBVIOUS
<1>9. Chained(n, a, r)
  BY <1>4, <1>8 DEF Chained, Once, At
<1>10. n.table[e].head = At(w, 1)
  BY <1>1, <1>3 DEF Holds, Begins
<1>11. s \in Seq(KThreads) /\ s = Append(w, t) /\ s # <<>> /\ Len(s) = Len(w) + 1
       /\ s[Len(w) + 1] = t
  BY <1>5
<1> HIDE DEF w, r, s
<1>12. Apart(w, r)
  BY <1>6, <1>8 DEF Apart
<1>13. /\ l \in States /\ l.list = n.list
       /\ Chained(l, a, s)
       /\ l.table = [n.table EXCEPT ![e].head = At(s, 1)]
       /\ \A u \in KThreads :
            l.kthr[u] = IF w # <<>> /\ u = w[Len(w)]
                        THEN [n.kthr[u] EXCEPT !.next = r[1]] ELSE n.kthr[u]
  <2>1. l = Paste(n, e, r[1])
    BY <1>8
  <2> HIDE DEF l
  <2>2. n \in States /\ e \in 1 .. NumFutex /\ w \in Seq(KThreads) /\ r \in Seq(KThreads)
    BY <1>1, <1>3, <1>5, <1>8
  <2>3. IsPasted(n, l, a, e, w, r)
    BY <1>7, <1>8, <1>9, <1>10, <1>12, <2>1, <2>2, Pasted
  <2> QED
    BY <2>3 DEF s, IsPasted
<1> HIDE DEF l
<1>14. l.kthr[t] = x
  <2>1. ~(w # <<>> /\ t = w[Len(w)])
    BY <1>5, <1>6
  <2> QED
    BY <1>4, <1>13, <2>1, ZenonT(30)
<1>15. ASSUME NEW u \in KThreads, u # t
       PROVE  Relink(k.kthr[u], l.kthr[u])
  <2>1. k.kthr[u] \in ThreadState /\ n.kthr[u] = k.kthr[u]
    BY <1>4, <1>15 DEF States
  <2>2. \/ l.kthr[u] = k.kthr[u]
        \/ l.kthr[u] = [k.kthr[u] EXCEPT !.next = r[1]]
    BY <1>13, <2>1
  <2> QED
    BY <2>1, <2>2 DEF Relink, ThreadState
<1>16. \A u \in KThreads : u # t => l.kthr[u].vaddr = k.kthr[u].vaddr
  BY <1>15 DEF Relink
<1>17. ASSUME NEW u \in KThreads
       PROVE  Inside(s, u) <=> k.kthr[u].vaddr = a \/ u = t
  <2>1. \A i \in 1 .. Len(w) : s[i] = w[i]
    BY <1>5, <1>11
  <2>2. CASE u = t
    BY <1>5, <1>11, <2>2 DEF Inside
  <2>3. CASE u # t /\ k.kthr[u].vaddr = a
    <3>1. Inside(w, u)
      BY <2>3 DEF Holds, w
    <3>2. PICK i \in 1 .. Len(w) : w[i] = u
      BY <3>1 DEF Inside
    <3>3. i \in 1 .. Len(s) /\ s[i] = u
      BY <1>5, <1>11, <2>1, <3>2
    <3> QED
      BY <2>3, <3>3 DEF Inside
  <2>4. CASE u # t /\ k.kthr[u].vaddr # a
    <3> SUFFICES ASSUME NEW i \in 1 .. Len(s), s[i] = u PROVE FALSE
      BY <2>4 DEF Inside
    <3>1. i \in 1 .. Len(w)
      BY <1>5, <1>11, <2>4
    <3> QED
      BY <1>5, <2>1, <2>4, <3>1 DEF Chained
  <2> QED
    BY <2>2, <2>3, <2>4
<1>18. ASSUME NEW u \in KThreads, k.kthr[u].vaddr # a, ~Inside(s, u)
       PROVE  l.kthr[u].vaddr = k.kthr[u].vaddr /\ l.kthr[u].next = k.kthr[u].next
  <2>1. u # t
    BY <1>17, <1>18
  <2>2. ~(w # <<>> /\ u = w[Len(w)])
    BY <1>5, <1>18 DEF Chained
  <2> QED
    BY <1>4, <1>13, <2>1, <2>2, ZenonT(30)
<1>19. Holds(l, [q EXCEPT ![a] = s])
  <2>1. \A u \in KThreads : Joins(m, l, a, s, u)
    BY <1>1, <1>17, <1>18 DEF Joins
  <2>2. l.table = [m.table EXCEPT ![e].head = At(s, 1)]
    BY <1>3, <1>13
  <2> QED
    BY <1>1, <1>11, <1>13, <2>1, <2>2, QueueChanges, ZenonT(30)
<1>20. NoneEmpty(l)
  <2>1. At(s, 1) \in KThreads
    BY <1>11 DEF At
  <2>2. \A f \in 1 .. NumFutex : f # e => l.table[f] = k.table[f]
    BY <1>1, <1>3, <1>13 DEF States
  <2>3. l.table[e].head = At(s, 1)
    <3>1. n.table[e] \in Entry /\ l.table[e] = [n.table[e] EXCEPT !.head = At(s, 1)]
      BY <1>1, <1>3, <1>13, ZenonT(30) DEF States
    <3> QED
      BY <3>1 DEF Entry
  <2> QED
    BY <2>1, <2>2, <2>3 DEF NoneEmpty
<1>21. [q EXCEPT ![a] = s] = [q EXCEPT ![a] = Append(@, t)]
  BY <1>11 DEF w
<1>22. IsSleep(k, q, l, t, a, x)
  BY <1>2, <1>3, <1>13, <1>14, <1>15, <1>19, <1>20, <1>21 DEF IsSleep
<1> QED
  BY <1>2, <1>22 DEF l, n, m, e

-----------------------------------------------------------------------------
(* Wakes and requeues.                                                     *)

\* The first n threads of w, and the others.
Lead(w, n) == SubSeq(w, 1, n)

Rest(w, n) == SubSeq(w, n + 1, Len(w))

\* Both parts of a queue together are the queue; the second part is linked.
IsSplit(k, a, w, n) ==
    /\ Lead(w, n) \in Seq(KThreads) /\ Len(Lead(w, n)) = n
    /\ Rest(w, n) \in Seq(KThreads) /\ Len(Rest(w, n)) = Len(w) - n
    /\ Chained(k, a, Rest(w, n))
    /\ \A u : Inside(w, u) <=> Inside(Lead(w, n), u) \/ Inside(Rest(w, n), u)
    /\ \A u : ~(Inside(Lead(w, n), u) /\ Inside(Rest(w, n), u))

LEMMA Splits ==
    ASSUME NEW k, NEW a, NEW w \in Seq(KThreads), Chained(k, a, w), NEW n \in 0 .. Len(w)
    PROVE  IsSplit(k, a, w, n)
<1> DEFINE x == Lead(w, n)
           y == Rest(w, n)
<1>1. x \in Seq(KThreads) /\ Len(x) = n /\ \A i \in 1 .. n : x[i] = w[i]
  BY DEF Lead
<1>2. y \in Seq(KThreads) /\ Len(y) = Len(w) - n /\ \A i \in 1 .. Len(w) - n : y[i] = w[n + i]
  BY DEF Rest
<1>3. Len(w) \in Nat /\ n \in Nat /\ n <= Len(w)
  OBVIOUS
<1> HIDE DEF x, y
<1>4. ASSUME NEW i \in 1 .. Len(y)
      PROVE  n + i \in 1 .. Len(w) /\ y[i] = w[n + i] /\ At(y, i + 1) = At(w, n + i + 1)
  <2>1. n + i \in 1 .. Len(w) /\ y[i] = w[n + i]
    BY <1>2, <1>3
  <2>2. CASE i + 1 <= Len(y)
    <3>1. i + 1 \in 1 .. Len(w) - n /\ n + (i + 1) = n + i + 1 /\ n + i + 1 <= Len(w)
      BY <1>2, <1>3, <2>2
    <3>2. y[i + 1] = w[n + i + 1]
      BY <1>2, <3>1
    <3> QED
      BY <2>1, <2>2, <3>1, <3>2 DEF At
  <2>3. CASE ~(i + 1 <= Len(y))
    BY <1>2, <1>3, <2>1, <2>3 DEF At
  <2> QED
    BY <2>2, <2>3
<1>5. Chained(k, a, y)
  <2>1. ASSUME NEW i \in 1 .. Len(y)
        PROVE  k.kthr[y[i]].vaddr = a /\ k.kthr[y[i]].next = At(y, i + 1)
    BY <1>4, ZenonT(30) DEF Chained
  <2>2. ASSUME NEW i \in 1 .. Len(y), NEW j \in 1 .. Len(y), y[i] = y[j]
        PROVE  i = j
    <3>1. n + i = n + j
      BY <1>4, <2>2, ZenonT(30) DEF Chained, Once
    <3> QED
      BY <1>3, <3>1
  <2> QED
    BY <2>1, <2>2 DEF Chained, Once
<1>6. ASSUME NEW u
      PROVE  Inside(w, u) <=> Inside(x, u) \/ Inside(y, u)
  <2>1. ASSUME NEW i \in 1 .. Len(w), w[i] = u
        PROVE  Inside(x, u) \/ Inside(y, u)
    <3>1. CASE i <= n
      BY <1>1, <1>3, <2>1, <3>1 DEF Inside
    <3>2. CASE ~(i <= n)
      <4>1. i - n \in 1 .. Len(y) /\ n + (i - n) = i
        BY <1>2, <1>3, <3>2
      <4>2. y[i - n] = u
        BY <1>4, <2>1, <4>1
      <4> QED
        BY <4>1, <4>2 DEF Inside
    <3> QED
      BY <3>1, <3>2
  <2>2. ASSUME NEW i \in 1 .. Len(x), x[i] = u
        PROVE  Inside(w, u)
    <3>1. i \in 1 .. Len(w) /\ w[i] = u
      BY <1>1, <1>3, <2>2
    <3> QED
      BY <3>1 DEF Inside
  <2>3. ASSUME NEW i \in 1 .. Len(y), y[i] = u
        PROVE  Inside(w, u)
    BY <1>4, <2>3, ZenonT(30) DEF Inside
  <2> QED
    BY <2>1, <2>2, <2>3 DEF Inside
<1>7. ASSUME NEW i \in 1 .. Len(x), NEW j \in 1 .. Len(y), x[i] = y[j]
      PROVE  FALSE
  <2>1. i \in 1 .. Len(w) /\ x[i] = w[i] /\ i <= n
    BY <1>1, <1>3
  <2>2. n + j \in 1 .. Len(w) /\ y[j] = w[n + j]
    BY <1>4
  <2>3. i = n + j
    BY <1>7, <2>1, <2>2, ZenonT(30) DEF Chained, Once
  <2> QED
    BY <1>3, <2>1, <2>3
<1>8. \A u : ~(Inside(x, u) /\ Inside(y, u))
  BY <1>7 DEF Inside
<1> QED
  BY <1>1, <1>2, <1>5, <1>6, <1>8 DEF IsSplit, x, y

\* The elements of a sequence.
LEMMA RangeInside ==
    ASSUME NEW s \in Seq(KThreads), NEW u
    PROVE  u \in ThreadsOf(s) <=> Inside(s, u)
BY DEF ThreadsOf, Inside

\* The state of a thread that a wake has taken from its queue.
WokenThread(x) == [Awake EXCEPT !.blocked = x.blocked, !.result = "0"]

\* The threads of x are taken from the queue of entry e, which then begins with head.
IsLeft(k, l, x, e, head) ==
    /\ l \in States /\ l.list = k.list \o x
    /\ l.table = [k.table EXCEPT ![e].head = head]
    /\ \A u \in KThreads :
        l.kthr[u] = IF Inside(x, u) THEN WokenThread(k.kthr[u]) ELSE k.kthr[u]

LEMMA TakesOut ==
    ASSUME NEW k \in States, NEW x \in Seq(KThreads), NEW e \in 1 .. NumFutex,
           NEW head \in KThreads \cup {NULL}
    PROVE  IsLeft(k, [Ended(k, ThreadsOf(x), "0") EXCEPT !.list = @ \o x, !.table[e].head = head],
                  x, e, head)
<1> DEFINE h == [u \in KThreads |->
                  IF u \in ThreadsOf(x) THEN [Awake EXCEPT !.blocked = k.kthr[u].blocked,
                                                       !.result = "0"]
                  ELSE k.kthr[u]]
           b == [k.table EXCEPT ![e].head = head]
           woken == Ended(k, ThreadsOf(x), "0")
           left == [woken EXCEPT !.list = @ \o x, !.table[e].head = head]
<1>1. \A u \in KThreads :
        h[u] = IF Inside(x, u) THEN WokenThread(k.kthr[u]) ELSE k.kthr[u]
  BY RangeInside DEF WokenThread
<1>2. h \in [KThreads -> ThreadState]
  <2>1. \A u \in KThreads : WokenThread(k.kthr[u]) \in ThreadState
    BY NullAssumption, ZenonT(30) DEF WokenThread, Awake, ThreadState, States
  <2>2. \A u \in KThreads : h[u] \in ThreadState
    BY <1>1, <2>1, ZenonT(30) DEF States
  <2>3. h = [u \in KThreads |-> h[u]]
    OBVIOUS
  <2> HIDE DEF h
  <2> QED
    BY <2>2, <2>3
<1>3. woken = [table |-> k.table, kthr |-> h, list |-> k.list]
  <2>1. woken = [k EXCEPT !.kthr = h]
    BY DEF Ended
  <2> HIDE DEF woken, h
  <2> QED
    BY <2>1 DEF States
<1> HIDE DEF woken, h
<1>4. left = [table |-> b, kthr |-> h, list |-> k.list \o x]
  <2>1. woken.table = k.table /\ woken.list = k.list
    BY <1>3
  <2>2. left = [woken EXCEPT !.list = k.list \o x, !.table = b]
    BY <2>1, ZenonT(40)
  <2> HIDE DEF left, b
  <2> QED
    BY <1>3, <2>2, ZenonT(30)
<1>5. b \in [1 .. NumFutex -> Entry]
  <2>1. k.table \in [1 .. NumFutex -> Entry] /\ k.table[e] \in Entry
    BY ZenonT(30) DEF States
  <2>2. [k.table[e] EXCEPT !.head = head] \in Entry
    BY <2>1 DEF Entry
  <2> QED
    BY <2>1, <2>2
<1>6. k.list \o x \in Seq(KThreads)
  BY DEF States
<1> HIDE DEF b, left
<1>7. left \in States /\ left.table = b /\ left.kthr = h /\ left.list = k.list \o x
  BY <1>2, <1>4, <1>5, <1>6 DEF States
<1> QED
  BY <1>1, <1>7, ZenonT(30) DEF IsLeft, left, woken, b

\* The first n waiters of address a are woken.
IsWake(k, q, l, a, n) ==
    /\ l \in States /\ l.list = k.list \o Lead(q[a], n)
    /\ Holds(l, [q EXCEPT ![a] = Rest(@, n)]) /\ NoneEmpty(l)
    /\ \A u \in KThreads :
        l.kthr[u] = IF Inside(Lead(q[a], n), u) THEN WokenThread(k.kthr[u]) ELSE k.kthr[u]

\* The number of waiters that a wake of max threads takes from w.
Taking(w, max) == IF max < Len(w) THEN max ELSE Len(w)

LEMMA Wakes ==
    ASSUME Counting, NEW k \in States, NEW q, Holds(k, q), NoneEmpty(k),
           NEW a \in Addresses, NEW max \in Nat
    PROVE  /\ Taking(q[a], max) \in 0 .. Len(q[a])
           /\ IsWake(k, q, Futex_WakeQueue(k, Futex_findTableEntry(k, a), max, 0), a,
                     Taking(q[a], max))
<1> DEFINE e == Futex_findTableEntry(k, a)
           w == q[a]
           n == Taking(w, max)
           x == Lead(w, n)
           y == Rest(w, n)
           l == Futex_WakeQueue(k, e, max, 0)
<1> USE NullAssumption
<1>1. w \in Seq(KThreads) /\ Chained(k, a, w) /\ q \in [Addresses -> Seq(KThreads)]
  BY DEF Holds
<1>2. n \in 0 .. Len(w)
  BY <1>1 DEF Taking
<1>3. w = IF e = 0 THEN <<>> ELSE WaitersOf(k, e)
  BY Contents
<1>4. e # 0 => e \in 1 .. NumFutex /\ k.table[e].vaddr = a
  BY Found
<1>5. IsSplit(k, a, w, n)
  BY <1>1, <1>2, Splits
<1> HIDE DEF e, w, n
<1>6. CASE e = 0
  <2>1. l = k
    BY <1>6, ZenonT(30) DEF Futex_WakeQueue
  <2>2. w = <<>> /\ n = 0 /\ x = <<>> /\ y = <<>>
    BY <1>2, <1>3, <1>6 DEF Lead, Rest
  <2> HIDE DEF x, y, l
  <2>3. k.list \o x = k.list
    BY <2>2 DEF States
  <2>4. [q EXCEPT ![a] = Rest(@, n)] = q
    BY <1>1, <2>2 DEF w, y
  <2>5. \A u : ~Inside(x, u)
    BY <2>2 DEF Inside
  <2> QED
    BY <1>2, <2>1, <2>3, <2>4, <2>5 DEF IsWake, l, e, n, w, x
<1>7. CASE e # 0
  <2> DEFINE woken == Ended(k, ThreadsOf(x), "0")
             left == [woken EXCEPT !.list = @ \o x, !.table[e].head = At(y, 1)]
  <2>1. l = FreeIfEmpty(left, e)
    <3>1. WaitersOf(k, e) = w
      BY <1>3, <1>7
    <3>2. l = FreeIfEmpty(FreeIfEmpty(WokenFirst(k, e, x, At(y, 1)), e), 0)
      BY <1>7, <3>1 DEF Futex_WakeQueue, Lead, Rest, n, Taking
    <3>3. left = WokenFirst(k, e, x, At(y, 1))
      BY DEF WokenFirst
    <3> HIDE DEF left, l
    <3> QED
      BY <3>2, <3>3 DEF FreeIfEmpty
  <2>2. /\ x \in Seq(KThreads) /\ y \in Seq(KThreads) /\ Chained(k, a, y)
        /\ \A u : Inside(w, u) <=> Inside(x, u) \/ Inside(y, u)
        /\ \A u : ~(Inside(x, u) /\ Inside(y, u))
    BY <1>5 DEF IsSplit
  <2> HIDE DEF l, x, y
  <2>3. IsLeft(k, left, x, e, At(y, 1))
    <3>1. At(y, 1) \in KThreads \cup {NULL}
      BY <2>2 DEF At
    <3> QED
      BY <1>4, <1>7, <2>2, <3>1, TakesOut, ZenonT(30)
  <2> HIDE DEF woken, left
  <2>4. \A u \in KThreads :
            left.kthr[u] = IF Inside(x, u) THEN WokenThread(k.kthr[u]) ELSE k.kthr[u]
    BY <2>3 DEF IsLeft
  <2>5. /\ left \in States /\ left.list = k.list \o x
        /\ left.table = [k.table EXCEPT ![e].head = At(y, 1)]
    BY <2>3, SMTT(30) DEF IsLeft
  <2>6. ASSUME NEW u \in KThreads
        PROVE  Joins(k, left, a, y, u)
    <3>1. Inside(w, u) <=> k.kthr[u].vaddr = a
      BY <1>1, ZenonT(30) DEF Holds, w, Inside, Chained
    <3>2. Inside(x, u) => left.kthr[u].vaddr = NULL
      BY <2>4, ZenonT(30) DEF WokenThread, Awake
    <3> QED
      BY <2>2, <2>4, <3>1, <3>2 DEF Joins
  <2>7. Chained(left, a, y)
    <3>1. ASSUME NEW i \in 1 .. Len(y)
          PROVE  y[i] \in KThreads /\ ~Inside(x, y[i])
      <4>1. Inside(y, y[i])
        BY DEF Inside
      <4> QED
        BY <2>2, <4>1
    <3> QED
      BY <2>2, <2>4, <3>1, SameChain
  <2>8. Holds(left, [q EXCEPT ![a] = y])
    BY <1>4, <1>7, <2>2, <2>5, <2>6, <2>7, QueueChanges, ZenonT(30)
  <2>9. FreedBut(left, {e})
    BY <1>4, <1>7, <2>5 DEF FreedBut, NoneEmpty, States
  <2>10. /\ l \in States /\ l.kthr = left.kthr /\ l.list = left.list
         /\ Holds(l, [q EXCEPT ![a] = y]) /\ FreedBut(l, {e} \ {e})
    <3>1. e \in 0 .. NumFutex
      BY <1>4, <1>7
    <3> QED
      BY <2>1, <2>5, <2>8, <2>9, <3>1, Freed, ZenonT(30)
  <2>11. NoneEmpty(l)
    BY <2>10 DEF FreedBut, NoneEmpty
  <2>12. [q EXCEPT ![a] = y] = [q EXCEPT ![a] = Rest(@, n)]
    BY DEF y, w
  <2> QED
    BY <1>2, <2>4, <2>5, <2>10, <2>11, <2>12, ZenonT(40) DEF IsWake, l, e, n, w, x
<1> QED
  BY <1>6, <1>7

\* The threads of two lists.
LEMMA InsideBoth ==
    ASSUME NEW w \in Seq(KThreads), NEW r \in Seq(KThreads), NEW u
    PROVE  Inside(w \o r, u) <=> Inside(w, u) \/ Inside(r, u)
<1> DEFINE s == w \o r
<1>1. Len(s) = Len(w) + Len(r) /\ Len(w) \in Nat /\ Len(r) \in Nat
  OBVIOUS
<1>2. \A i \in 1 .. Len(w) : s[i] = w[i]
  OBVIOUS
<1>3. \A i \in 1 .. Len(s) : ~(i <= Len(w)) => i - Len(w) \in 1 .. Len(r) /\ s[i] = r[i - Len(w)]
  OBVIOUS
<1>4. \A i \in 1 .. Len(r) : s[Len(w) + i] = r[i]
  OBVIOUS
<1> HIDE DEF s
<1>5. ASSUME NEW i \in 1 .. Len(s), s[i] = u
      PROVE  Inside(w, u) \/ Inside(r, u)
  <2>1. CASE i <= Len(w)
    BY <1>1, <1>2, <1>5, <2>1 DEF Inside
  <2>2. CASE ~(i <= Len(w))
    BY <1>3, <1>5, <2>2 DEF Inside
  <2> QED
    BY <2>1, <2>2
<1>6. ASSUME NEW i \in 1 .. Len(w), w[i] = u
      PROVE  Inside(s, u)
  BY <1>1, <1>2, <1>6 DEF Inside
<1>7. ASSUME NEW i \in 1 .. Len(r), r[i] = u
      PROVE  Inside(s, u)
  <2>1. Len(w) + i \in 1 .. Len(s)
    BY <1>1
  <2> QED
    BY <1>4, <1>7, <2>1 DEF Inside
<1>8. Inside(s, u) <=> Inside(w, u) \/ Inside(r, u)
  BY <1>5, <1>6, <1>7 DEF Inside
<1> QED
  BY <1>8 DEF s

\* A thread that has moved to address b.
Moved(x, b) == [x EXCEPT !.vaddr = b, !.expected = memory[b]]

\* Of the waiters of address a the first n are woken and the others moved to address b.
IsRequeue(k, q, l, a, n, b) ==
    /\ l \in States /\ l.list = k.list \o Lead(q[a], n)
    /\ Holds(l, [q EXCEPT ![a] = <<>>, ![b] = @ \o Rest(q[a], n)]) /\ NoneEmpty(l)
    /\ \A u \in KThreads :
        CASE Inside(Lead(q[a], n), u) -> l.kthr[u] = WokenThread(k.kthr[u])
          [] Inside(Rest(q[a], n), u) -> Relink(Moved(k.kthr[u], b), l.kthr[u])
          [] OTHER -> Relink(k.kthr[u], l.kthr[u])

\* Every thread is in the queue of its address and in no other.
LEMMA QueueOf ==
    ASSUME NEW k, NEW q, Holds(k, q), NEW a \in Addresses, NEW u \in KThreads
    PROVE  Inside(q[a], u) <=> k.kthr[u].vaddr = a
BY NullAssumption DEF Holds, Inside, Chained

\* Equal parts make equal functions and states.
LEMMA SameFunction ==
    ASSUME NEW S, NEW T, NEW f \in [S -> T], NEW g \in [S -> T], \A x \in S : f[x] = g[x]
    PROVE  f = g
OBVIOUS

LEMMA SameState ==
    ASSUME NEW k \in States, NEW l \in States,
           k.table = l.table, k.kthr = l.kthr, k.list = l.list
    PROVE  k = l
BY DEF States

LEMMA Requeues ==
    ASSUME Counting, NEW k \in States, NEW q, Holds(k, q),
           NEW a \in Addresses, NEW b \in Addresses, a # b, memory[b] \in Values,
           NEW e \in 1 .. NumFutex, k.table[e].vaddr = a,
           NEW f \in 1 .. NumFutex, k.table[f].vaddr = b,
           FreedBut(k, {f}), NEW max \in Nat
    PROVE  /\ Taking(q[a], max) \in 0 .. Len(q[a])
           /\ IsRequeue(k, q, Futex_WakeQueue(k, e, max, f), a, Taking(q[a], max), b)
<1> DEFINE w == q[a]
           n == Taking(w, max)
           x == Lead(w, n)
           y == Rest(w, n)
           l == Futex_WakeQueue(k, e, max, f)
           left == [Ended(k, ThreadsOf(x), "0") EXCEPT !.list = @ \o x, !.table[e].head = NULL]
           updated == [left EXCEPT !.kthr = [t \in KThreads |->
                IF t \in ThreadsOf(y) THEN [@[t] EXCEPT !.vaddr = k.table[f].vaddr,
                                                    !.expected = memory[k.table[f].vaddr]]
                ELSE @[t]]]
           pasted == IF y = <<>> THEN left ELSE Paste(updated, f, At(y, 1))
           \* The waiters of a have left their queue, and have not joined another.
           between == [left EXCEPT !.kthr = [t \in KThreads |->
                IF Inside(y, t) THEN [@[t] EXCEPT !.vaddr = NULL] ELSE @[t]]]
           z == q[b] \o y
<1> USE NullAssumption
<1>1. w \in Seq(KThreads) /\ Chained(k, a, w) /\ q[b] \in Seq(KThreads) /\ Chained(k, b, q[b])
  BY DEF Holds
<1>2. n \in 0 .. Len(w)
  BY <1>1 DEF Taking
<1>3. e # f /\ e # 0 /\ f # 0
  OBVIOUS
<1>4. WaitersOf(k, e) = w
  BY EntryWaiters
<1>5. IsSplit(k, a, w, n)
  BY <1>1, <1>2, Splits
<1>6. l = FreeIfEmpty(FreeIfEmpty(pasted, e), f)
  <2>1. left = WokenFirst(k, e, x, NULL)
    BY DEF WokenFirst
  <2> HIDE DEF left
  <2>2. updated = Redirected(left, y, k.table[f].vaddr)
    BY DEF Redirected
  <2> HIDE DEF updated
  <2>3. l = FreeIfEmpty(FreeIfEmpty(
               IF y = <<>> THEN WokenFirst(k, e, x, NULL)
               ELSE Paste(Redirected(WokenFirst(k, e, x, NULL), y, k.table[f].vaddr), f, At(y, 1)), e), f)
    BY Zenon, <1>3, <1>4 DEF Futex_WakeQueue, Lead, Rest, n, Taking
  <2> QED
    BY <2>1, <2>2, <2>3, ZenonT(30)
<1> HIDE DEF l, pasted, n, updated
<1>7. /\ x \in Seq(KThreads) /\ y \in Seq(KThreads) /\ Chained(k, a, y)
      /\ \A u : Inside(w, u) <=> Inside(x, u) \/ Inside(y, u)
      /\ \A u : ~(Inside(x, u) /\ Inside(y, u))
  BY <1>5, ZenonT(30) DEF IsSplit
<1> HIDE DEF x, y, w
<1>8. IsLeft(k, left, x, e, NULL)
  BY <1>7, TakesOut, ZenonT(40)
<1> HIDE DEF left
<1>9. /\ left \in States /\ left.list = k.list \o x
      /\ left.table = [k.table EXCEPT ![e].head = NULL]
  BY <1>8, SMTT(30) DEF IsLeft
<1>10. \A u \in KThreads :
        left.kthr[u] = IF Inside(x, u) THEN WokenThread(k.kthr[u]) ELSE k.kthr[u]
  BY <1>8, SMTT(30) DEF IsLeft
<1>11. \A u \in KThreads : Inside(w, u) <=> k.kthr[u].vaddr = a
  BY QueueOf DEF w
<1>12. \A u \in KThreads : Inside(q[b], u) <=> k.kthr[u].vaddr = b
  BY QueueOf
<1>13. \A u \in KThreads : left.kthr[u] \in ThreadState
  BY <1>9 DEF States
<1>14. /\ between \in States /\ between.table = left.table /\ between.list = left.list
       /\ \A u \in KThreads : between.kthr[u] = IF Inside(y, u)
                                                THEN [left.kthr[u] EXCEPT !.vaddr = NULL]
                                                ELSE left.kthr[u]
  <2> DEFINE h == [t \in KThreads |->
                    IF Inside(y, t) THEN [left.kthr[t] EXCEPT !.vaddr = NULL] ELSE left.kthr[t]]
  <2>1. between = [left EXCEPT !.kthr = h]
    OBVIOUS
  <2>2. \A u \in KThreads : [left.kthr[u] EXCEPT !.vaddr = NULL] \in ThreadState
    BY <1>13, ZenonT(30) DEF ThreadState
  <2>3. h \in [KThreads -> ThreadState]
    BY <1>13, <2>2
  <2>4. \A u \in KThreads : h[u] = IF Inside(y, u) THEN [left.kthr[u] EXCEPT !.vaddr = NULL]
                                   ELSE left.kthr[u]
    OBVIOUS
  <2> HIDE DEF h, between
  <2>5. /\ between.table = left.table /\ between.kthr = h /\ between.list = left.list
        /\ between \in States
    BY <1>9, <2>1, <2>3, ZenonT(30) DEF States
  <2> QED
    BY <2>4, <2>5
<1> HIDE DEF between
<1>15. Holds(between, [q EXCEPT ![a] = <<>>])
  <2>1. ASSUME NEW u \in KThreads
        PROVE  Joins(k, between, a, <<>>, u)
    <3>1. ~Inside(<<>>, u)
      BY DEF Inside
    <3>2. Inside(x, u) => between.kthr[u].vaddr = NULL
      BY <1>7, <1>10, <1>14, ZenonT(30) DEF WokenThread, Awake
    <3>3. Inside(y, u) => between.kthr[u].vaddr = NULL
      BY <1>13, <1>14, ZenonT(30) DEF ThreadState
    <3>4. ~Inside(x, u) /\ ~Inside(y, u) => between.kthr[u] = k.kthr[u]
      BY <1>10, <1>14, ZenonT(30)
    <3> QED
      BY <1>7, <1>11, <3>1, <3>2, <3>3, <3>4, ZenonT(30) DEF Joins
  <2>2. Chained(between, a, <<>>) /\ <<>> \in Seq(KThreads) /\ At(<<>>, 1) = NULL
    BY DEF Chained, Once, At
  <2>3. between.table = [k.table EXCEPT ![e].head = At(<<>>, 1)]
    BY <1>9, <1>14, <2>2
  <2> QED
    BY <1>14, <2>1, <2>2, <2>3, QueueChanges, ZenonT(30)
<1>16. FreedBut(left, {e, f})
  BY <1>9 DEF FreedBut, States
<1> DEFINE p == [q EXCEPT ![a] = <<>>, ![b] = @ \o y]
           Threads(m) == \A u \in KThreads :
                CASE Inside(x, u) -> m.kthr[u] = WokenThread(k.kthr[u])
                  [] Inside(y, u) -> Relink(Moved(k.kthr[u], b), m.kthr[u])
                  [] OTHER -> Relink(k.kthr[u], m.kthr[u])
           Good(m) == /\ m \in States /\ m.list = k.list \o x
                      /\ Holds(m, p) /\ FreedBut(m, {e, f}) /\ Threads(m)
<1>17. p = [[q EXCEPT ![a] = <<>>] EXCEPT ![b] = z]
  BY DEF Holds
<1> HIDE DEF p, z
<1>18. ASSUME y = <<>>
       PROVE  Good(pasted)
  <2>1. pasted = left
    BY <1>18 DEF pasted
  <2>2. \A u : ~Inside(y, u)
    BY <1>18 DEF Inside
  <2>3. between = left
    <3>1. \A u \in KThreads : between.kthr[u] = left.kthr[u]
      BY <1>14, <2>2, ZenonT(30)
    <3>2. left.kthr \in [KThreads -> ThreadState] /\ between.kthr \in [KThreads -> ThreadState]
      BY <1>9, <1>14 DEF States
    <3>3. between.kthr = left.kthr
      BY <3>1, <3>2, SameFunction
    <3> QED
      BY <1>9, <1>14, <3>3, SameState, ZenonT(30)
  <2>4. p = [q EXCEPT ![a] = <<>>]
    <3>1. z = q[b]
      BY <1>1, <1>18 DEF z
    <3>2. q \in [Addresses -> Seq(KThreads)]
      BY DEF Holds
    <3> DEFINE o == [q EXCEPT ![a] = <<>>]
    <3>3. o[b] = q[b] /\ o = [c \in Addresses |-> o[c]]
      BY <3>2, ZenonT(30)
    <3> HIDE DEF o
    <3>4. [o EXCEPT ![b] = q[b]] = o
      BY <3>3
    <3> QED
      BY <1>17, <3>1, <3>4 DEF o
  <2>5. Threads(left)
    BY <1>10, <2>2 DEF Relink
  <2> QED
    BY <1>9, <1>15, <1>16, <2>1, <2>3, <2>4, <2>5
<1>19. ASSUME y # <<>>
       PROVE  Good(pasted)
  <2>1. At(y, 1) = y[1] /\ pasted = Paste(updated, f, y[1])
    BY <1>7, <1>19 DEF pasted, At
  <2>2. /\ updated \in States /\ updated.table = left.table /\ updated.list = left.list
        /\ \A u \in KThreads : updated.kthr[u] = IF Inside(y, u) THEN Moved(left.kthr[u], b)
                                                  ELSE left.kthr[u]
    <3> DEFINE h == [t \in KThreads |->
                      IF Inside(y, t) THEN Moved(left.kthr[t], b) ELSE left.kthr[t]]
    <3>1. updated = [left EXCEPT !.kthr = h]
      <4>1. \A u \in KThreads : u \in ThreadsOf(y) <=> Inside(y, u)
        BY <1>7, RangeInside
      <4> QED
        BY <4>1, ZenonT(30) DEF Moved, updated
    <3>2. \A u \in KThreads : Moved(left.kthr[u], b) \in ThreadState
      <4> SUFFICES ASSUME NEW x0 \in ThreadState
                   PROVE  Moved(x0, b) \in ThreadState
        BY <1>13
      <4> QED
        BY ZenonT(30) DEF ThreadState, Moved
    <3>3. h \in [KThreads -> ThreadState]
      BY <1>13, <3>2
    <3>4. \A u \in KThreads : h[u] = IF Inside(y, u) THEN Moved(left.kthr[u], b)
                                     ELSE left.kthr[u]
      OBVIOUS
    <3> HIDE DEF h
    <3>5. /\ updated.table = left.table /\ updated.kthr = h /\ updated.list = left.list
          /\ updated \in States
      BY <1>9, <3>1, <3>3, ZenonT(30) DEF States
    <3> QED
      BY <3>4, <3>5
  <2>3. \A u \in KThreads : /\ Inside(y, u) => /\ updated.kthr[u] = Moved(k.kthr[u], b)
                                              /\ updated.kthr[u].vaddr = b
                                              /\ updated.kthr[u].next = k.kthr[u].next
                            /\ ~Inside(y, u) => updated.kthr[u] = left.kthr[u]
                            /\ Inside(x, u) => updated.kthr[u] = WokenThread(k.kthr[u])
                            /\ ~Inside(w, u) => updated.kthr[u] = k.kthr[u]
    <3> SUFFICES ASSUME NEW u \in KThreads
                 PROVE  /\ Inside(y, u) => /\ updated.kthr[u] = Moved(k.kthr[u], b)
                                           /\ updated.kthr[u].vaddr = b
                                           /\ updated.kthr[u].next = k.kthr[u].next
                        /\ ~Inside(y, u) => updated.kthr[u] = left.kthr[u]
                        /\ Inside(x, u) => updated.kthr[u] = WokenThread(k.kthr[u])
                        /\ ~Inside(w, u) => updated.kthr[u] = k.kthr[u]
      BY ZenonT(30)
    <3>1. k.kthr[u] \in ThreadState
      BY DEF States
    <3>2. Moved(k.kthr[u], b).vaddr = b /\ Moved(k.kthr[u], b).next = k.kthr[u].next
      BY <3>1 DEF Moved, ThreadState
    <3> QED
      BY <1>7, <1>10, <2>2, <3>2, ZenonT(30)
  <2>4. Chained(updated, b, q[b])
    <3>1. ASSUME NEW i \in 1 .. Len(q[b])
          PROVE  updated.kthr[q[b][i]] = k.kthr[q[b][i]]
      <4>1. q[b][i] \in KThreads /\ Inside(q[b], q[b][i])
        BY <1>1 DEF Inside
      <4> QED
        BY <1>11, <1>12, <2>3, <4>1
    <3> QED
      BY <1>1, <3>1, SameChain
  <2>5. Chained(updated, b, y)
    <3>1. ASSUME NEW i \in 1 .. Len(y)
          PROVE  updated.kthr[y[i]].vaddr = b /\ updated.kthr[y[i]].next = At(y, i + 1)
      <4>1. y[i] \in KThreads /\ Inside(y, y[i]) /\ k.kthr[y[i]].next = At(y, i + 1)
        BY <1>7 DEF Inside, Chained
      <4> QED
        BY <2>3, <4>1, ZenonT(30)
    <3> QED
      BY <1>7, <3>1 DEF Chained
  <2>6. updated.table[f].head = At(q[b], 1)
    <3>1. updated.table[f] = k.table[f]
      BY <1>3, <1>9, <2>2 DEF States
    <3>2. Begins(k, q, f)
      BY DEF Holds
    <3> QED
      BY <3>1, <3>2 DEF Begins
  <2>7. Apart(q[b], y)
    <3>1. ASSUME NEW i \in 1 .. Len(q[b]), NEW j \in 1 .. Len(y), q[b][i] = y[j]
          PROVE  FALSE
      <4>1. q[b][i] \in KThreads /\ Inside(q[b], q[b][i]) /\ Inside(y, q[b][i])
        BY <1>1, <3>1 DEF Inside
      <4> QED
        BY <1>7, <1>11, <1>12, <4>1, ZenonT(30)
    <3> QED
      BY <3>1 DEF Apart
  <2>8. IsPasted(updated, pasted, b, f, q[b], y)
    BY <1>1, <1>7, <1>19, <2>1, <2>2, <2>4, <2>5, <2>6, <2>7, Pasted, ZenonT(30)
  <2>9. /\ pasted \in States /\ pasted.list = left.list
        /\ Chained(pasted, b, z)
        /\ pasted.table = [between.table EXCEPT ![f].head = At(z, 1)]
    BY <1>14, <2>2, <2>8, SMTT(30) DEF IsPasted, z
  <2>10. \A u \in KThreads :
            pasted.kthr[u] = IF q[b] # <<>> /\ u = q[b][Len(q[b])]
                             THEN [updated.kthr[u] EXCEPT !.next = y[1]] ELSE updated.kthr[u]
    BY <2>8, SMTT(30) DEF IsPasted
  <2>11. \A u \in KThreads : Inside(z, u) <=> Inside(q[b], u) \/ Inside(y, u)
    BY <1>1, <1>7, InsideBoth DEF z
  <2>12. ASSUME NEW u \in KThreads
         PROVE  Joins(between, pasted, b, z, u)
    <3>1. k.kthr[u] \in ThreadState /\ left.kthr[u] \in ThreadState
      BY <1>13 DEF States
    <3>2. CASE Inside(y, u)
      <4>1. between.kthr[u].vaddr = NULL
        BY <1>14, <3>1, <3>2, ZenonT(30) DEF ThreadState
      <4> QED
        BY <2>11, <3>2, <4>1 DEF Joins
    <3>3. CASE Inside(q[b], u)
      <4>1. ~Inside(w, u)
        BY <1>11, <1>12, <3>3
      <4>2. between.kthr[u].vaddr = b
        BY <1>7, <1>10, <1>12, <1>14, <3>3, <4>1, ZenonT(30)
      <4> QED
        BY <2>11, <3>3, <4>2 DEF Joins
    <3>4. CASE ~Inside(y, u) /\ ~Inside(q[b], u)
      <4>1. ~(q[b] # <<>> /\ u = q[b][Len(q[b])])
        BY <1>1, <3>4 DEF Inside
      <4>2. pasted.kthr[u] = left.kthr[u] /\ between.kthr[u] = left.kthr[u]
        BY <1>14, <2>3, <2>10, <3>4, <4>1, ZenonT(30)
      <4>3. left.kthr[u].vaddr # b
        <5>1. CASE Inside(x, u)
          BY <1>10, <5>1, ZenonT(30) DEF WokenThread, Awake
        <5>2. CASE ~Inside(x, u)
          BY <1>10, <1>12, <3>4, <5>2
        <5> QED
          BY <5>1, <5>2
      <4> QED
        BY <2>11, <3>4, <4>2, <4>3 DEF Joins
    <3> QED
      BY <3>2, <3>3, <3>4
  <2>13. Holds(pasted, p)
    <3>1. between.table[f].vaddr = b
      <4>1. between.table[f] = k.table[f]
        BY <1>3, <1>9, <1>14 DEF States
      <4> QED
        BY <4>1
    <3>2. z \in Seq(KThreads)
      BY <1>1, <1>7 DEF z
    <3> QED
      BY <1>14, <1>15, <1>17, <2>9, <2>12, <3>1, <3>2, QueueChanges, ZenonT(30)
  <2>14. FreedBut(pasted, {e, f})
    <3>1. \A g \in 1 .. NumFutex : g # f => pasted.table[g] = left.table[g]
      BY <1>9, <1>14, <2>9, ZenonT(30) DEF States
    <3> QED
      BY <1>16, <3>1 DEF FreedBut
  <2>15. Threads(pasted)
    <3> SUFFICES ASSUME NEW u \in KThreads
                 PROVE  CASE Inside(x, u) -> pasted.kthr[u] = WokenThread(k.kthr[u])
                          [] Inside(y, u) -> Relink(Moved(k.kthr[u], b), pasted.kthr[u])
                          [] OTHER -> Relink(k.kthr[u], pasted.kthr[u])
      OBVIOUS
    <3>1. k.kthr[u] \in ThreadState /\ updated.kthr[u] \in ThreadState
      BY <2>2 DEF States
    <3>2. Relink(updated.kthr[u], pasted.kthr[u])
      <4>1. \/ pasted.kthr[u] = updated.kthr[u]
            \/ pasted.kthr[u] = [updated.kthr[u] EXCEPT !.next = y[1]]
        BY <2>10
      <4> QED
        BY <3>1, <4>1 DEF Relink, ThreadState
    <3>3. CASE Inside(x, u)
      <4>1. Inside(w, u) /\ ~Inside(q[b], u)
        BY <1>7, <1>11, <1>12, <3>3
      <4>2. ~(q[b] # <<>> /\ u = q[b][Len(q[b])])
        BY <1>1, <4>1 DEF Inside
      <4>3. pasted.kthr[u] = updated.kthr[u]
        BY <2>10, <4>2, ZenonT(30)
      <4>4. updated.kthr[u] = WokenThread(k.kthr[u])
        BY <2>3, <3>3, ZenonT(30)
      <4> QED
        BY <1>7, <3>3, <4>3, <4>4
    <3>4. CASE Inside(y, u)
      BY <1>7, <2>3, <3>2, <3>4
    <3>5. CASE ~Inside(x, u) /\ ~Inside(y, u)
      BY <1>7, <2>3, <3>2, <3>5
    <3> QED
      BY <1>7, <3>3, <3>4, <3>5
  <2> QED
    BY <1>9, <2>9, <2>13, <2>14, <2>15
<1> HIDE DEF Threads
<1>20. Good(pasted)
  BY <1>18, <1>19
<1>21. Good(FreeIfEmpty(pasted, e)) /\ FreedBut(FreeIfEmpty(pasted, e), {e, f} \ {e})
  <2>1. e \in 0 .. NumFutex
    OBVIOUS
  <2>2. LET m == FreeIfEmpty(pasted, e)
        IN  /\ m \in States /\ m.kthr = pasted.kthr /\ m.list = pasted.list
            /\ Holds(m, p) /\ FreedBut(m, {e, f} \ {e})
    BY <1>20, <2>1, Freed, ZenonT(30)
  <2> QED
    BY <1>20, <2>2 DEF FreedBut, Threads
<1>22. LET m == FreeIfEmpty(pasted, e)
       IN  /\ l \in States /\ l.kthr = m.kthr /\ l.list = m.list
           /\ Holds(l, p) /\ FreedBut(l, ({e, f} \ {e}) \ {f})
  <2>1. f \in 0 .. NumFutex
    OBVIOUS
  <2> QED
    BY <1>6, <1>21, <2>1, Freed, ZenonT(30)
<1>23. NoneEmpty(l)
  BY <1>22 DEF FreedBut, NoneEmpty
<1>24. Threads(l)
  BY <1>21, <1>22 DEF Threads
<1> QED
  BY <1>2, <1>21, <1>22, <1>23, <1>24 DEF IsRequeue, Threads, l, n, w, x, y, p

-----------------------------------------------------------------------------
(* Timeouts and signals.                                                   *)

\* The list without its m-th thread.
Cut(w, m) == SubSeq(w, 1, m - 1) \o SubSeq(w, m + 1, Len(w))

LEMMA Cuts ==
    ASSUME NEW w \in Seq(KThreads), NEW m \in 1 .. Len(w)
    PROVE  /\ Cut(w, m) \in Seq(KThreads) /\ Len(Cut(w, m)) = Len(w) - 1
           /\ \A i \in 1 .. Len(w) - 1 :
                Cut(w, m)[i] = IF i < m THEN w[i] ELSE w[i + 1]
<1> DEFINE x == SubSeq(w, 1, m - 1)
           y == SubSeq(w, m + 1, Len(w))
           s == x \o y
<1>1. Len(w) \in Nat /\ m \in Nat /\ m >= 1 /\ m <= Len(w)
  OBVIOUS
<1>2. x \in Seq(KThreads) /\ Len(x) = m - 1 /\ \A i \in 1 .. m - 1 : x[i] = w[i]
  BY <1>1
<1>3. y \in Seq(KThreads) /\ Len(y) = Len(w) - m /\ \A i \in 1 .. Len(w) - m : y[i] = w[m + i]
  OBVIOUS
<1> HIDE DEF x, y
<1>4. s \in Seq(KThreads) /\ Len(s) = Len(w) - 1
  <2>1. s \in Seq(KThreads) /\ Len(s) = Len(x) + Len(y)
    <3>1. x \in Seq(KThreads) /\ y \in Seq(KThreads)
      BY <1>2, <1>3
    <3> QED
      BY <3>1
  <2> HIDE DEF s
  <2> QED
    BY <1>1, <1>2, <1>3, <2>1
<1>5. ASSUME NEW i \in 1 .. Len(w) - 1
      PROVE  s[i] = IF i < m THEN w[i] ELSE w[i + 1]
  <2>1. CASE i < m
    <3>1. i \in 1 .. Len(x)
      BY <1>1, <1>2, <2>1
    <3> QED
      BY <1>2, <1>3, <2>1, <3>1
  <2>2. CASE ~(i < m)
    <3>1. i - (m - 1) \in 1 .. Len(y) /\ m + (i - (m - 1)) = i + 1 /\ i > Len(x)
          /\ i <= Len(x) + Len(y)
      BY <1>1, <1>2, <1>3, <2>2
    <3>2. s[i] = y[i - (m - 1)]
      BY <1>2, <1>3, <3>1
    <3> QED
      BY <1>3, <2>2, <3>1, <3>2, ZenonT(30)
  <2> QED
    BY <2>1, <2>2, ZenonT(30)
<1> QED
  BY <1>4, <1>5, ZenonT(30) DEF Cut, x, y

\* The predecessor of the m-th thread is linked to its successor.
Bypasses(k, l, w, m) ==
    \A i \in 1 .. Len(w) : i # m =>
        /\ l.kthr[w[i]].vaddr = k.kthr[w[i]].vaddr
        /\ l.kthr[w[i]].next = IF i = m - 1 THEN k.kthr[w[m]].next ELSE k.kthr[w[i]].next

\* The others are the queue.
IsCut(k, l, a, w, m) ==
    /\ Chained(l, a, Cut(w, m))
    /\ At(Cut(w, m), 1) = IF m = 1 THEN k.kthr[w[m]].next ELSE At(w, 1)
    /\ \A u : Inside(Cut(w, m), u) <=> Inside(w, u) /\ u # w[m]

\* When the m-th thread of a queue leaves it, its predecessor is linked to its successor.
LEMMA CutChain ==
    ASSUME NEW k, NEW l, NEW a, NEW w \in Seq(KThreads), NEW m \in 1 .. Len(w),
           Chained(k, a, w),
           Bypasses(k, l, w, m)
    PROVE  IsCut(k, l, a, w, m)
<1> DEFINE s == Cut(w, m)
           Old(i) == IF i < m THEN i ELSE i + 1
<1>1. Len(w) \in Nat /\ m \in Nat /\ m >= 1 /\ m <= Len(w)
  OBVIOUS
<1>2. s \in Seq(KThreads) /\ Len(s) = Len(w) - 1
      /\ \A i \in 1 .. Len(w) - 1 : s[i] = IF i < m THEN w[i] ELSE w[i + 1]
  BY Cuts, ZenonT(30)
<1> HIDE DEF s
<1>3. ASSUME NEW i \in 1 .. Len(s)
      PROVE  Old(i) \in 1 .. Len(w) /\ Old(i) # m /\ s[i] = w[Old(i)]
  BY <1>1, <1>2
<1>4. ASSUME NEW i \in Nat \ {0}
      PROVE  At(s, i) = At(w, Old(i))
  <2>1. CASE i <= Len(s)
    <3>1. i \in 1 .. Len(s)
      BY <1>1, <1>2, <2>1
    <3>2. Old(i) <= Len(w)
      BY <1>1, <1>2, <1>3, <3>1
    <3> QED
      BY <1>3, <2>1, <3>1, <3>2 DEF At
  <2>2. CASE ~(i <= Len(s))
    BY <1>1, <1>2, <2>2 DEF At
  <2> QED
    BY <2>1, <2>2
<1>5. ASSUME NEW i \in 1 .. Len(s)
      PROVE  l.kthr[s[i]].vaddr = a /\ l.kthr[s[i]].next = At(s, i + 1)
  <2>1. /\ l.kthr[s[i]].vaddr = a
        /\ l.kthr[s[i]].next = IF Old(i) = m - 1 THEN At(w, m + 1) ELSE At(w, Old(i) + 1)
    BY <1>3, ZenonT(30) DEF Chained, Bypasses
  <2>2. At(s, i + 1) = At(w, Old(i + 1))
    BY <1>4
  <2>3. Old(i + 1) = IF Old(i) = m - 1 THEN m + 1 ELSE Old(i) + 1
    BY <1>1
  <2> QED
    BY <2>1, <2>2, <2>3
<1>6. Once(s)
  <2>1. ASSUME NEW i \in 1 .. Len(s), NEW j \in 1 .. Len(s), s[i] = s[j]
        PROVE  i = j
    <3>1. Old(i) = Old(j)
      <4>1. w[Old(i)] = w[Old(j)] /\ Old(i) \in 1 .. Len(w) /\ Old(j) \in 1 .. Len(w)
        BY <1>3, <2>1
      <4> HIDE DEF Old
      <4> QED
        BY <4>1 DEF Chained, Once
    <3> QED
      BY <1>1, <3>1
  <2> QED
    BY <2>1 DEF Once
<1>7. At(s, 1) = IF m = 1 THEN k.kthr[w[m]].next ELSE At(w, 1)
  <2>1. At(s, 1) = At(w, Old(1))
    BY <1>4
  <2>2. k.kthr[w[m]].next = At(w, m + 1)
    BY DEF Chained
  <2> QED
    BY <1>1, <2>1, <2>2
<1>8. ASSUME NEW u
      PROVE  Inside(s, u) <=> Inside(w, u) /\ u # w[m]
  <2>1. ASSUME NEW i \in 1 .. Len(s), s[i] = u
        PROVE  Inside(w, u) /\ u # w[m]
    <3>1. Old(i) \in 1 .. Len(w) /\ Old(i) # m /\ w[Old(i)] = u
      BY <1>3, <2>1
    <3> HIDE DEF Old
    <3> QED
      BY <3>1 DEF Inside, Chained, Once
  <2>2. ASSUME NEW i \in 1 .. Len(w), w[i] = u, u # w[m]
        PROVE  Inside(s, u)
    <3> DEFINE j == IF i < m THEN i ELSE i - 1
    <3>1. i # m
      BY <2>2
    <3>2. j \in 1 .. Len(s) /\ Old(j) = i
      BY <1>1, <1>2, <3>1
    <3>3. s[j] = u
      BY <1>3, <2>2, <3>2
    <3> HIDE DEF j
    <3> QED
      BY <3>2, <3>3 DEF Inside
  <2> QED
    BY <2>1, <2>2 DEF Inside
<1> QED
  BY <1>5, <1>6, <1>7, <1>8, ZenonT(30) DEF Chained, s, IsCut

\* The result of a sleep that a timeout or a signal ends.
Results == {"0", "EWOULDBLOCK", "ETIMEDOUT", "EINTR"}

IsFinished(x, r) ==
    /\ x.next = NULL /\ x.vaddr = NULL /\ x.expected = NULL
    /\ ~x.timed /\ ~x.blocked /\ x.result = r

\* Thread t runs with the result r, and has no address.
IsCleared(k, l, t, r) ==
    /\ l \in States /\ l.table = k.table /\ l.list = k.list
    /\ IsFinished(l.kthr[t], r)
    /\ \A u \in KThreads : u # t => l.kthr[u] = k.kthr[u]

LEMMA Clears ==
    ASSUME NEW k \in States, NEW t \in KThreads, NEW r \in Results
    PROVE  IsCleared(k, WokenUp(Ended(k, {t}, r), t), t, r)
<1> DEFINE h == [u \in KThreads |->
                  IF u \in {t} THEN [Awake EXCEPT !.blocked = k.kthr[u].blocked, !.result = r]
                  ELSE k.kthr[u]]
           x == [h[t] EXCEPT !.blocked = FALSE]
           g == [h EXCEPT ![t] = x]
           m == Ended(k, {t}, r)
           l == WokenUp(m, t)
<1>1. m = [table |-> k.table, kthr |-> h, list |-> k.list]
  <2>1. m = [k EXCEPT !.kthr = h]
    BY DEF Ended
  <2> HIDE DEF m, h
  <2> QED
    BY <2>1 DEF States
<1>2. \A u \in KThreads : u # t => h[u] = k.kthr[u]
  OBVIOUS
<1>3. h = [u \in KThreads |-> h[u]]
  OBVIOUS
<1>4. IsFinished(x, r) /\ x \in ThreadState
  <2>1. h[t] = [Awake EXCEPT !.blocked = k.kthr[t].blocked, !.result = r]
    OBVIOUS
  <2> HIDE DEF h
  <2>2. IsFinished(x, r)
    BY <2>1 DEF Awake, IsFinished
  <2>3. x \in ThreadState
    BY <2>1, NullAssumption, ZenonT(30) DEF Awake, ThreadState, Results
  <2> QED
    BY <2>2, <2>3
<1> HIDE DEF m, h
<1>5. l = [table |-> k.table, kthr |-> g, list |-> k.list]
  <2>1. m.kthr = h
    BY <1>1
  <2>2. l = [m EXCEPT !.kthr = g]
    BY <2>1 DEF WokenUp
  <2> HIDE DEF l, g
  <2> QED
    BY <1>1, <2>2
<1> HIDE DEF l, x
<1>6. g[t] = x /\ \A u \in KThreads : u # t => g[u] = k.kthr[u]
  BY <1>2, <1>3
<1>7. g \in [KThreads -> ThreadState]
  <2>1. g = [u \in KThreads |-> g[u]]
    BY <1>3
  <2>2. \A u \in KThreads : g[u] \in ThreadState
    BY <1>4, <1>6 DEF States
  <2> HIDE DEF g
  <2> QED
    BY <2>1, <2>2
<1> HIDE DEF g
<1>8. l \in States /\ l.table = k.table /\ l.list = k.list /\ l.kthr = g
  BY <1>5, <1>7 DEF States
<1> QED
  BY <1>4, <1>6, <1>8 DEF IsCleared, l, m

\* Thread t has left its queue, if it was in one.
IsLeave(k, q, l, t, r) ==
    /\ l \in States /\ l.list = k.list /\ NoneEmpty(l)
    /\ IF k.kthr[t].vaddr = NULL THEN Holds(l, q)
       ELSE \E m \in 1 .. Len(q[k.kthr[t].vaddr]) :
                /\ q[k.kthr[t].vaddr][m] = t
                /\ Holds(l, [q EXCEPT ![k.kthr[t].vaddr] = Cut(@, m)])
    /\ IsFinished(l.kthr[t], r)
    /\ \A u \in KThreads : u # t => Relink(k.kthr[u], l.kthr[u])

\* The queues depend on the table, the addresses and the links of waiting threads.
LEMMA SameQueues ==
    ASSUME NEW k, NEW l, NEW q, Holds(k, q), l.table = k.table,
           \A u \in KThreads :
                /\ l.kthr[u].vaddr = k.kthr[u].vaddr
                /\ k.kthr[u].vaddr # NULL => l.kthr[u].next = k.kthr[u].next
    PROVE  Holds(l, q)
<1>1. ASSUME NEW a \in Addresses
      PROVE  Chained(l, a, q[a]) /\ (q[a] # <<>> => HasEntry(l, a))
  <2>1. q[a] \in Seq(KThreads) /\ Chained(k, a, q[a]) /\ (q[a] # <<>> => HasEntry(k, a))
    BY DEF Holds
  <2>2. \A i \in 1 .. Len(q[a]) : q[a][i] \in KThreads /\ k.kthr[q[a][i]].vaddr # NULL
    BY <2>1, NullAssumption DEF Chained
  <2>3. Chained(l, a, q[a])
    BY <2>1, <2>2, SameChain, ZenonT(30)
  <2> QED
    BY <2>1, <2>3 DEF HasEntry
<1>2. \A t \in KThreads : l.kthr[t].vaddr # NULL => Inside(q[l.kthr[t].vaddr], t)
  BY DEF Holds
<1>3. \A e \in 1 .. NumFutex : Begins(l, q, e)
  BY DEF Holds, Begins
<1>4. OneEntry(l)
  BY ZenonT(30) DEF Holds, OneEntry
<1> QED
  BY <1>1, <1>2, <1>3, <1>4 DEF Holds

LEMMA LeavesQueue ==
    ASSUME Counting, NEW k \in States, NEW q, Holds(k, q), NoneEmpty(k),
           NEW t \in KThreads, NEW r \in Results
    PROVE  IsLeave(k, q, WokenUp(Ended(Removed(k, t), {t}, r), t), t, r)
<1> DEFINE R == Removed(k, t)
           l == WokenUp(Ended(R, {t}, r), t)
           a == k.kthr[t].vaddr
           next == k.kthr[t].next
           e == Futex_findTableEntry(k, a)
           before == IF e = 0 THEN {} ELSE {u \in ThreadsOf(WaitersOf(k, e)) : k.kthr[u].next = t}
<1> USE NullAssumption
<1>1. R = CASE e # 0 /\ k.table[e].head = t -> FreeIfEmpty([k EXCEPT !.table[e].head = next], e)
            [] e # 0 /\ k.table[e].head # t /\ before # {} ->
                    [k EXCEPT !.kthr[CHOOSE u \in before : TRUE].next = next]
            [] OTHER -> k
  BY DEF Removed
<1>2. /\ e = 0 => \A f \in 1 .. NumFutex : k.table[f].vaddr # a
      /\ e # 0 => e \in 1 .. NumFutex /\ k.table[e].vaddr = a
  BY Found
<1>3. k.kthr[t] \in ThreadState /\ a \in Addresses \cup {NULL} /\ next \in KThreads \cup {NULL}
  BY DEF States, ThreadState
<1>4. \A u \in KThreads : Relink(k.kthr[u], k.kthr[u])
  BY DEF Relink
<1> HIDE DEF R, e
<1>5. CASE a = NULL
  <2>1. e # 0 => k.table[e].head = NULL
    BY <1>2, <1>5, ZenonT(30) DEF Holds, Begins
  <2>2. e # 0 => WaitersOf(k, e) = <<>>
    BY <1>2, <1>5, EntryWaiters
  <2>3. before = {}
    BY <2>2 DEF ThreadsOf
  <2>4. R = k
    BY <1>1, <2>1, <2>3
  <2>5. IsCleared(k, l, t, r)
    BY <2>4, Clears
  <2> HIDE DEF l, before
  <2>6. Holds(l, q)
    <3>1. \A u \in KThreads :
            /\ l.kthr[u].vaddr = k.kthr[u].vaddr
            /\ k.kthr[u].vaddr # NULL => l.kthr[u].next = k.kthr[u].next
      BY <1>5, <2>5 DEF IsCleared, IsFinished
    <3>2. l.table = k.table
      BY <2>5 DEF IsCleared
    <3> QED
      BY <3>1, <3>2, SameQueues
  <2>7. /\ l \in States /\ l.list = k.list /\ NoneEmpty(l) /\ IsFinished(l.kthr[t], r)
        /\ \A u \in KThreads : u # t => Relink(k.kthr[u], l.kthr[u])
    BY <1>4, <2>5 DEF IsCleared, NoneEmpty
  <2> QED
    BY <1>5, <2>6, <2>7, ZenonT(30) DEF IsLeave, l, R
<1>6. CASE a # NULL
  <2> DEFINE w == q[a]
  <2>1. a \in Addresses
    BY <1>3, <1>6, ZenonT(30)
  <2>2. w \in Seq(KThreads) /\ Chained(k, a, w) /\ Inside(w, t) /\ (w # <<>> => HasEntry(k, a))
    BY <1>6, <2>1, ZenonT(30) DEF Holds
  <2>3. PICK m \in 1 .. Len(w) : w[m] = t
    BY <2>2, ZenonT(30) DEF Inside
  <2>4. Len(w) \in Nat /\ m \in Nat /\ m >= 1 /\ m <= Len(w) /\ w # <<>>
    BY <2>2, <2>3
  <2>5. e # 0 /\ e \in 1 .. NumFutex /\ k.table[e].vaddr = a
    BY <1>2, <2>2, <2>4, ZenonT(30) DEF HasEntry
  <2>6. k.table[e].head = w[1]
    <3>1. k.table[e].head = At(w, 1)
      BY <2>1, <2>5 DEF Holds, Begins
    <3> QED
      BY <2>4, <3>1 DEF At
  <2>7. WaitersOf(k, e) = w
    BY <2>1, <2>5, EntryWaiters
  <2> DEFINE s == Cut(w, m)
  <2>8. s \in Seq(KThreads)
    BY <2>2, Cuts, ZenonT(30)
  <2>9. \A u \in KThreads : Inside(w, u) <=> k.kthr[u].vaddr = a
    BY <2>1, QueueOf
  <2> HIDE DEF a, w, s
  <2>10. SUFFICES ASSUME TRUE
                  PROVE  /\ l \in States /\ l.list = k.list /\ NoneEmpty(l)
                         /\ Holds(l, [q EXCEPT ![a] = s])
                         /\ IsFinished(l.kthr[t], r)
                         /\ \A u \in KThreads : u # t => Relink(k.kthr[u], l.kthr[u])
    <3>1. [q EXCEPT ![a] = s] = [q EXCEPT ![a] = Cut(@, m)]
      BY DEF s, w
    <3> HIDE DEF l
    <3> QED
      BY <1>6, <2>3, <3>1, ZenonT(30) DEF IsLeave, l, R, a, w
  <2>11. ASSUME NEW n \in States,
                n.table = [k.table EXCEPT ![e].head = At(s, 1)], IsFinished(n.kthr[t], r),
                \A u \in KThreads : u # t => n.kthr[u].vaddr = k.kthr[u].vaddr,
                \A u \in KThreads : u # t /\ k.kthr[u].vaddr # a =>
                    n.kthr[u].next = k.kthr[u].next,
                Chained(n, a, s), \A u : Inside(s, u) <=> Inside(w, u) /\ u # t
         PROVE  Holds(n, [q EXCEPT ![a] = s])
    <3>1. ASSUME NEW u \in KThreads
          PROVE  Joins(k, n, a, s, u)
      <4>1. CASE u = t
        <5>1. ~Inside(s, u) /\ n.kthr[u].vaddr = NULL /\ k.kthr[u].vaddr = a
          BY <2>11, <4>1 DEF IsFinished, a
        <5> QED
          BY <5>1, ZenonT(30) DEF Joins
      <4>2. CASE u # t
        BY <2>9, <2>11, <4>2 DEF Joins
      <4> QED
        BY <4>1, <4>2
    <3> QED
      BY <2>1, <2>5, <2>8, <2>11, <3>1, QueueChanges
  <2>12. CASE m = 1
    <3> DEFINE R0 == [k EXCEPT !.table[e].head = next]
               H == WokenUp(Ended(R0, {t}, r), t)
    <3>1. R = FreeIfEmpty(R0, e)
      BY <1>1, <2>3, <2>5, <2>6, <2>12
    <3>2. /\ R0 \in States /\ R0.kthr = k.kthr /\ R0.list = k.list
          /\ R0.table = [k.table EXCEPT ![e].head = next]
      <4> DEFINE b == [k.table EXCEPT ![e].head = next]
      <4>1. R0 = [table |-> b, kthr |-> k.kthr, list |-> k.list]
        BY DEF States
      <4>2. k.table[e] \in Entry
        BY <2>5, ZenonT(30) DEF States
      <4>3. [k.table[e] EXCEPT !.head = next] \in Entry
        BY <1>3, <4>2 DEF Entry
      <4>4. b \in [1 .. NumFutex -> Entry]
        BY <4>3, ZenonT(30) DEF States
      <4> HIDE DEF b, R0
      <4>5. R0 \in States /\ R0.kthr = k.kthr /\ R0.list = k.list /\ R0.table = b
        BY <4>1, <4>4 DEF States
      <4> QED
        BY <4>5 DEF b
    <3> HIDE DEF R0
    <3>3. IsCleared(R0, H, t, r)
      BY <3>2, Clears
    <3> HIDE DEF H
    <3>4. /\ H \in States /\ H.table = R0.table /\ H.list = k.list /\ IsFinished(H.kthr[t], r)
          /\ \A u \in KThreads : u # t => H.kthr[u] = k.kthr[u]
      BY <3>2, <3>3 DEF IsCleared
    <3>5. /\ Chained(H, a, s)
          /\ At(s, 1) = next
          /\ \A u : Inside(s, u) <=> Inside(w, u) /\ u # t
      <4>1. ASSUME NEW i \in 1 .. Len(w), i # m
            PROVE  /\ H.kthr[w[i]].vaddr = k.kthr[w[i]].vaddr
                   /\ H.kthr[w[i]].next = IF i = m - 1 THEN k.kthr[w[m]].next
                                          ELSE k.kthr[w[i]].next
        <5>1. w[i] \in KThreads /\ w[i] # t /\ i # m - 1
          BY <2>2, <2>3, <2>12, <4>1 DEF Chained, Once
        <5> QED
          BY <3>4, <5>1, ZenonT(30)
      <4>2. Bypasses(k, H, w, m)
        BY <4>1 DEF Bypasses
      <4>3. IsCut(k, H, a, w, m)
        BY <2>2, <2>3, <4>2, CutChain
      <4> QED
        BY <2>3, <2>12, <4>3, ZenonT(30) DEF IsCut, s
    <3>6. Holds(H, [q EXCEPT ![a] = s])
      BY <2>11, <3>2, <3>4, <3>5, ZenonT(30)
    <3>7. FreedBut(H, {e})
      BY <2>5, <3>2, <3>4 DEF FreedBut, NoneEmpty, States
    <3> DEFINE F == FreeIfEmpty(H, e)
    <3>8. /\ F \in States /\ F.kthr = H.kthr /\ F.list = H.list
          /\ Holds(F, [q EXCEPT ![a] = s]) /\ FreedBut(F, {e} \ {e})
      <4>1. e \in 0 .. NumFutex
        BY <2>5
      <4> QED
        BY <3>4, <3>6, <3>7, <4>1, Freed, ZenonT(30)
    <3>9. R.table = F.table /\ R.kthr = k.kthr /\ R.list = k.list /\ R \in States
      <4>1. CASE R0.table[e].head # NULL
        BY <3>1, <3>2, <3>4, <4>1 DEF FreeIfEmpty
      <4>2. CASE R0.table[e].head = NULL
        <5>1. R = [R0 EXCEPT !.table[e].vaddr = NULL] /\ F = [H EXCEPT !.table[e].vaddr = NULL]
          BY <2>5, <3>1, <3>4, <4>2 DEF FreeIfEmpty
        <5> HIDE DEF F
        <5>2. R.table = [R0.table EXCEPT ![e].vaddr = NULL] /\ R.kthr = k.kthr /\ R.list = k.list
              /\ R = [table |-> R.table, kthr |-> R.kthr, list |-> R.list]
          BY <3>2, <5>1, ZenonT(30) DEF States
        <5>3. F.table = [H.table EXCEPT ![e].vaddr = NULL]
          BY <3>4, <5>1 DEF States
        <5>4. R.table = F.table
          BY <3>4, <5>2, <5>3
        <5> QED
          BY <3>8, <5>2, <5>4 DEF States
      <4> QED
        BY <4>1, <4>2
    <3> HIDE DEF F
    <3>10. IsCleared(R, l, t, r)
      BY <3>9, Clears, ZenonT(30)
    <3> HIDE DEF l
    <3>11. /\ l \in States /\ l.table = F.table /\ l.list = k.list /\ IsFinished(l.kthr[t], r)
           /\ \A u \in KThreads : u # t => l.kthr[u] = k.kthr[u]
      BY <3>9, <3>10 DEF IsCleared
    <3>12. Holds(l, [q EXCEPT ![a] = s])
      <4>1. ASSUME NEW u \in KThreads
            PROVE  l.kthr[u].vaddr = F.kthr[u].vaddr /\ l.kthr[u].next = F.kthr[u].next
        BY <3>4, <3>8, <3>11, ZenonT(30) DEF IsFinished
      <4> QED
        BY <3>8, <3>11, <4>1, SameQueues
    <3>13. NoneEmpty(l)
      BY <3>8, <3>11, ZenonT(30) DEF FreedBut, NoneEmpty
    <3> QED
      BY <1>4, <3>11, <3>12, <3>13, ZenonT(30)
  <2>13. CASE m # 1
    <3> DEFINE z == w[m - 1]
    <3>1. m - 1 \in 1 .. Len(w) /\ z \in KThreads
      BY <2>2, <2>4, <2>13
    <3>2. z # t /\ k.table[e].head # t
      <4>1. 1 \in 1 .. Len(w) /\ m - 1 # m
        BY <2>4
      <4> QED
        BY <2>2, <2>3, <2>6, <2>13, <3>1, <4>1 DEF Chained, Once
    <3>3. k.kthr[z].next = t /\ Inside(w, z)
      <4>1. k.kthr[z].next = At(w, m - 1 + 1)
        BY <2>2, <3>1 DEF Chained
      <4>2. m - 1 + 1 = m
        BY <2>4
      <4> QED
        BY <2>3, <2>4, <3>1, <4>1, <4>2 DEF At, Inside
    <3>4. ASSUME NEW u \in before
          PROVE  u = z
      <4>1. Inside(w, u) /\ k.kthr[u].next = t
        BY <2>2, <2>5, <2>7, RangeInside
      <4>2. PICK i \in 1 .. Len(w) : w[i] = u
        BY <4>1 DEF Inside
      <4>3. At(w, i + 1) = t
        BY <2>2, <4>1, <4>2 DEF Chained
      <4>4. i + 1 \in 1 .. Len(w) /\ w[i + 1] = t
        BY <2>4, <4>3 DEF At
      <4>5. i + 1 = m
        BY <2>2, <2>3, <4>4 DEF Chained, Once
      <4>6. i = m - 1
        BY <2>4, <4>5
      <4> QED
        BY <4>2, <4>6
    <3>5. z \in before
      BY <2>2, <2>5, <2>7, <3>3, RangeInside
    <3> HIDE DEF before, z
    <3>6. (CHOOSE u \in before : TRUE) = z
      BY <3>4, <3>5
    <3>7. R = [k EXCEPT !.kthr[z].next = next]
      BY <1>1, <2>5, <3>2, <3>5, <3>6, ZenonT(30)
    <3>8. /\ R \in States /\ R.table = k.table /\ R.list = k.list
          /\ \A u \in KThreads : R.kthr[u] = IF u = z THEN [k.kthr[u] EXCEPT !.next = next]
                                              ELSE k.kthr[u]
      <4> DEFINE g == [k.kthr EXCEPT ![z].next = next]
      <4>1. R = [table |-> k.table, kthr |-> g, list |-> k.list]
        BY <3>7 DEF States
      <4>2. [k.kthr[z] EXCEPT !.next = next] \in ThreadState
        <5>1. k.kthr[z] \in ThreadState
          BY <3>1 DEF States, z
        <5> QED
          BY <1>3, <5>1, Relinked
      <4>3. g \in [KThreads -> ThreadState]
        BY <4>2, ZenonT(30) DEF States
      <4>4. \A u \in KThreads : g[u] = IF u = z THEN [k.kthr[u] EXCEPT !.next = next]
                                       ELSE k.kthr[u]
        BY DEF States
      <4> HIDE DEF g
      <4>5. R \in States /\ R.table = k.table /\ R.list = k.list /\ R.kthr = g
        BY <4>1, <4>3, ZenonT(30) DEF States
      <4> QED
        BY <4>4, <4>5
    <3>9. IsCleared(R, l, t, r)
      BY <3>8, Clears
    <3> HIDE DEF l
    <3>10. /\ l \in States /\ l.table = k.table /\ l.list = k.list /\ IsFinished(l.kthr[t], r)
           /\ \A u \in KThreads : u # t => l.kthr[u] = R.kthr[u]
      BY <3>8, <3>9 DEF IsCleared
    <3>11. ASSUME NEW u \in KThreads, u # t
           PROVE  /\ Relink(k.kthr[u], l.kthr[u]) /\ l.kthr[u].vaddr = k.kthr[u].vaddr
                  /\ l.kthr[u].next = IF u = z THEN next ELSE k.kthr[u].next
      <4>1. k.kthr[u] \in ThreadState
        BY DEF States
      <4>2. l.kthr[u] = IF u = z THEN [k.kthr[u] EXCEPT !.next = next] ELSE k.kthr[u]
        BY <3>8, <3>10, <3>11
      <4> HIDE DEF next
      <4> QED
        BY <4>1, <4>2 DEF Relink, ThreadState
    <3>12. /\ Chained(l, a, s)
           /\ At(s, 1) = At(w, 1)
           /\ \A u : Inside(s, u) <=> Inside(w, u) /\ u # t
      <4>1. ASSUME NEW i \in 1 .. Len(w), i # m
            PROVE  /\ l.kthr[w[i]].vaddr = k.kthr[w[i]].vaddr
                   /\ l.kthr[w[i]].next = IF i = m - 1 THEN k.kthr[w[m]].next
                                          ELSE k.kthr[w[i]].next
        <5>1. w[i] \in KThreads /\ w[i] # t /\ (i # m - 1 => w[i] # z)
          BY <2>2, <2>3, <3>1, <4>1 DEF Chained, Once, z
        <5> QED
          BY <2>3, <3>11, <5>1 DEF z
      <4>2. Bypasses(k, l, w, m)
        BY <4>1 DEF Bypasses
      <4>3. IsCut(k, l, a, w, m)
        BY <2>2, <2>3, <4>2, CutChain
      <4> QED
        BY <2>3, <2>13, <4>3, ZenonT(30) DEF IsCut, s
    <3>13. l.table = [k.table EXCEPT ![e].head = At(s, 1)]
      <4>1. k.table[e] \in Entry /\ k.table[e].head = At(s, 1)
        <5>1. At(w, 1) = w[1]
          BY <2>4 DEF At
        <5>2. k.table[e] \in Entry
          BY <2>5, ZenonT(30) DEF States
        <5> QED
          BY <2>6, <3>12, <5>1, <5>2, ZenonT(30)
      <4>2. [k.table[e] EXCEPT !.head = At(s, 1)] = k.table[e]
        BY <4>1 DEF Entry
      <4> QED
        BY <3>10, <4>2 DEF States
    <3>14. Holds(l, [q EXCEPT ![a] = s])
      <4>1. \A u \in KThreads : u # t /\ k.kthr[u].vaddr # a => l.kthr[u].next = k.kthr[u].next
        BY <2>9, <3>1, <3>3, <3>11, ZenonT(30)
      <4> QED
        BY <2>11, <3>10, <3>11, <3>12, <3>13, <4>1, ZenonT(30)
    <3> QED
      BY <3>10, <3>11, <3>14, ZenonT(30) DEF NoneEmpty
  <2> QED
    BY <2>12, <2>13, ZenonT(30)
<1> QED
  BY <1>5, <1>6, ZenonT(30)
=============================================================================
