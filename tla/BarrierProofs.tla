--------------------------- MODULE BarrierProofs ----------------------------
(***************************************************************************)
(* The kernel, the L2 and the global interrupt barrier implement Barrier,  *)
(* for every set of callers, number of rounds and size of the generation   *)
(* number.                                                                 *)
(***************************************************************************)
EXTENDS L2Barrier, KernelBarrier, GIBarrier, FiniteSetTheorems, TLAPS

USE ZenonT(8), SMTT(20)

-----------------------------------------------------------------------------
(* Counting callers.                                                       *)

\* The callers in a round can be counted, and there are no more than all of them.
LEMMA EnteredCount ==
    ASSUME NEW r
    PROVE  /\ IsFiniteSet(Entered(r))
           /\ Cardinality(Entered(r)) \in Nat /\ NumThreads \in Nat /\ NumThreads > 0
           /\ Cardinality(Entered(r)) <= NumThreads
           /\ Cardinality(Entered(r)) = NumThreads => Entered(r) = Threads
<1>1. Entered(r) \subseteq Threads
  BY DEF Entered
<1>2. IsFiniteSet(Entered(r)) /\ Cardinality(Entered(r)) <= NumThreads
      /\ (Cardinality(Entered(r)) = NumThreads => Entered(r) = Threads)
  BY <1>1, ThreadsAssumption, FS_Subset DEF NumThreads
<1>3. Cardinality(Entered(r)) \in Nat /\ NumThreads \in Nat
  BY <1>2, ThreadsAssumption, FS_CardinalityType DEF NumThreads
<1>4. NumThreads # 0
  BY ThreadsAssumption, FS_EmptySet DEF NumThreads
<1>5. QED
  BY <1>2, <1>3, <1>4

\* A caller that announces itself joins the callers of the round it enters.
LEMMA EnteredJoins ==
    ASSUME NEW r \in Nat, NEW t \in Threads, entered \in [Threads -> 0 .. Rounds], entered[t] = r,
           entered' = [entered EXCEPT ![t] = @ + 1]
    PROVE  /\ Entered(r + 1)' = Entered(r + 1) \cup {t} /\ t \notin Entered(r + 1)
           /\ Cardinality(Entered(r + 1)') = Cardinality(Entered(r + 1)) + 1
           /\ Cardinality(Entered(r + 1)) < NumThreads
<1>1. Entered(r + 1)' = Entered(r + 1) \cup {t} /\ t \notin Entered(r + 1)
  BY DEF Entered
<1>2. IsFiniteSet(Entered(r + 1))
  BY EnteredCount
<1>3. Cardinality(Entered(r + 1)') = Cardinality(Entered(r + 1)) + 1
  BY <1>1, <1>2, FS_AddElement
<1>4. Cardinality(Entered(r + 1)) # NumThreads
  BY <1>1, EnteredCount
<1>5. QED
  BY <1>1, <1>3, <1>4, EnteredCount

-----------------------------------------------------------------------------
(* The kernel barrier.                                                     *)

LEMMA ArrivalType ==
    ASSUME NEW w \in Word
    PROVE  /\ Arrival(w) \in Word
           /\ w.arrived + 1 # NumThreads => Arrival(w).gen = w.gen
                                            /\ Arrival(w).arrived = w.arrived + 1
           /\ w.arrived + 1 = NumThreads => Arrival(w).gen # w.gen
                                            /\ Arrival(w).arrived = 0
<1>1. NumThreads \in Nat /\ NumThreads > 0
  BY EnteredCount
<1>2. w.gen \in 0 .. Generations - 1 /\ w.arrived \in 0 .. NumThreads - 1
  BY DEF Word
<1>3. NextGeneration(w.gen) \in 0 .. Generations - 1 /\ NextGeneration(w.gen) # w.gen
  BY <1>2, GenerationsAssumption DEF NextGeneration
<1>4. CASE w.arrived + 1 = NumThreads
  BY <1>1, <1>3, <1>4 DEF Arrival, Word
<1>5. CASE w.arrived + 1 # NumThreads
  BY <1>1, <1>2, <1>5 DEF Arrival, Word
<1>6. QED
  BY <1>4, <1>5

\* The steps of one hardware thread keep the invariant and are steps of Barrier.
LEMMA KBSteps ==
    ASSUME KBInv, NEW t \in Threads, KBStep(t)
    PROVE  KBInv' /\ (Abstract!Next \/ UNCHANGED <<entered, left>>)
<1>1. KBTypeOK
  BY DEF KBInv
<1>2. PICK r \in 0 .. Rounds : KBInRound(r)
  BY DEF KBInv
<1>3. r \in Nat
  BY RoundsAssumption
<1>4. CASE LoadReserved32(t)
  <2>1. KBTypeOK'
    BY <1>1, <1>4, ArrivalType DEF KBTypeOK, LoadReserved32, Goes, Elsewhere, Word
  <2>2. KBInRound(r)'
    <3>1. Entered(r + 1)' = Entered(r + 1)
      BY <1>4 DEF LoadReserved32, Elsewhere, Entered
    <3>2. QED
      BY <1>1, <1>2, <1>4, <3>1
      DEF KBInRound, KBTypeOK, LoadReserved32, Goes, Elsewhere, Calls, Arrival
  <2>3. QED
    BY <1>4, <2>1, <2>2 DEF KBInv, LoadReserved32, Elsewhere
<1>5. CASE StoreConditional32(t) /\ t \notin reserved
  <2>1. KBTypeOK'
    BY <1>1, <1>5 DEF KBTypeOK, StoreConditional32, Goes, Elsewhere
  <2>2. KBInRound(r)'
    <3>1. Entered(r + 1)' = Entered(r + 1)
      BY <1>5 DEF StoreConditional32, Elsewhere, Entered
    <3>2. QED
      BY <1>1, <1>2, <1>5, <3>1
      DEF KBInRound, KBTypeOK, StoreConditional32, Goes, Elsewhere, Calls, Arrival
  <2>3. QED
    BY <1>5, <2>1, <2>2 DEF KBInv, StoreConditional32, Elsewhere
<1>6. CASE StoreConditional32(t) /\ t \in reserved
  <2>1. /\ pc[t] = "reserving" /\ pc' = [pc EXCEPT ![t] = "spinning"]
        /\ word' = Arrival(word) /\ reserved' = {} /\ Announces(t)
        /\ UNCHANGED <<tmp_val, generation>>
        /\ entered[t] = r /\ left[t] = r /\ r < Rounds /\ generation[t] = word.gen
    BY <1>2, <1>6 DEF StoreConditional32, KBInRound, Goes, Calls
  <2>2. word \in Word /\ word' \in Word
    BY <1>1, <2>1, ArrivalType DEF KBTypeOK
  <2>3. KBTypeOK'
    BY <1>1, <2>1, <2>2, RoundsAssumption DEF KBTypeOK, Announces
  <2>4. Abstract!Enter(t)
    BY <2>1 DEF Abstract!Enter, Announces
  <2>5. entered' = [entered EXCEPT ![t] = r + 1] /\ left' = left
    BY <2>1 DEF Announces
  <2>6. /\ Entered(r + 1)' = Entered(r + 1) \cup {t}
        /\ Cardinality(Entered(r + 1)') = Cardinality(Entered(r + 1)) + 1
    BY <1>1, <1>3, <2>1, EnteredJoins DEF KBTypeOK, Announces
  <2>7. word.arrived = Cardinality(Entered(r + 1))
    BY <1>2 DEF KBInRound
  <2>8. CASE word.arrived + 1 # NumThreads
    <3>1. word'.gen = word.gen /\ word'.arrived = word.arrived + 1
      BY <2>1, <2>2, <2>8, ArrivalType
    <3>2. KBInRound(r)'
      BY <1>1, <1>2, <2>1, <2>5, <2>6, <2>7, <3>1 DEF KBInRound, KBTypeOK, Calls
    <3>3. QED
      BY <2>3, <2>4, <3>2 DEF KBInv, Abstract!Next
  <2>9. CASE word.arrived + 1 = NumThreads
    <3>1. word'.gen # word.gen /\ word'.arrived = 0
      BY <2>1, <2>2, <2>9, ArrivalType
    <3>2. Entered(r + 1)' = Threads
      <4>1. Entered(r + 1)' \subseteq Threads
        BY DEF Entered
      <4>2. QED
        BY <2>6, <2>7, <2>9, <4>1, ThreadsAssumption, FS_Subset DEF NumThreads
    <3>3. \A u \in Threads : entered'[u] = r + 1
      BY <3>2 DEF Entered
    <3>4. Entered(r + 2)' = {}
      BY <1>3, <3>3 DEF Entered
    <3>5. \A u \in Threads : /\ pc'[u] = "spinning" /\ left'[u] = r
                             /\ generation'[u] # word'.gen
      BY <1>1, <1>2, <1>3, <2>1, <2>5, <3>1, <3>3 DEF KBInRound, KBTypeOK
    <3>6. KBInRound(r + 1)'
      <4>1. r + 1 \in Nat /\ r + 1 + 1 = r + 2
        BY <1>3
      <4>2. word'.arrived = Cardinality(Entered(r + 1 + 1)')
        BY <3>1, <3>4, <4>1, FS_EmptySet
      <4>3. QED
        BY <1>3, <2>1, <3>1, <3>3, <3>5, <4>1, <4>2 DEF KBInRound
    <3>7. QED
      BY <1>3, <2>1, <2>3, <2>4, <3>6, RoundsAssumption DEF KBInv, Abstract!Next
  <2>10. QED
    BY <2>8, <2>9
<1>7. CASE AwaitGeneration(t)
  <2>1. /\ pc[t] = "spinning" /\ pc' = [pc EXCEPT ![t] = "outside"]
        /\ left' = [left EXCEPT ![t] = @ + 1]
        /\ UNCHANGED <<entered, word, reserved, tmp_val, generation>>
        /\ entered[t] = r /\ left[t] + 1 = r
    BY <1>2, <1>7 DEF AwaitGeneration, KBInRound, Goes, Returns
  <2>2. KBTypeOK'
    BY <1>1, <1>3, <2>1 DEF KBTypeOK
  <2>3. Abstract!Leave(t)
    BY <1>1, <1>2, <1>3, <2>1 DEF Abstract!Leave, KBInRound, KBTypeOK
  <2>4. KBInRound(r)'
    BY <1>1, <1>2, <1>3, <2>1, ZenonT(30) DEF KBInRound, KBTypeOK, Entered, Calls, Arrival
  <2>5. QED
    BY <2>2, <2>3, <2>4 DEF KBInv, Abstract!Next
<1>8. QED
  BY <1>4, <1>5, <1>6, <1>7 DEF KBStep

\* One step of any hardware thread, or none.
LEMMA KBNextInv == KBInv /\ [KBNext]_kbvars => KBInv' /\ [Abstract!Next]_<<entered, left>>
<1> SUFFICES ASSUME KBInv, [KBNext]_kbvars
             PROVE  KBInv' /\ [Abstract!Next]_<<entered, left>>
  OBVIOUS
<1>1. CASE KBNext
  BY <1>1, KBSteps DEF KBNext
<1>2. CASE UNCHANGED kbvars
  <2>1. UNCHANGED <<pc, entered, left, word, reserved, tmp_val, generation>>
    BY <1>2 DEF kbvars, callers
  <2>2. KBTypeOK'
    BY <2>1 DEF KBInv, KBTypeOK
  <2>3. ASSUME NEW r \in 0 .. Rounds, KBInRound(r) PROVE KBInRound(r)'
    BY <2>1, <2>3 DEF KBInRound, Entered, Calls, Arrival
  <2>4. QED
    BY <2>1, <2>2, <2>3 DEF KBInv
<1>3. QED
  BY <1>1, <1>2

\* The first round has not begun.
LEMMA KBInitInv == KBInit => KBInv /\ Abstract!Init
<1> SUFFICES ASSUME KBInit PROVE KBInv /\ Abstract!Init
  OBVIOUS
<1>1. NumThreads \in Nat /\ NumThreads > 0
  BY EnteredCount
<1>2. word \in Word
  BY <1>1, GenerationsAssumption DEF KBInit, Word
<1>3. KBTypeOK
  BY <1>2, GenerationsAssumption, RoundsAssumption DEF KBInit, CallersInit, KBTypeOK
<1>4. Entered(0 + 1) = {}
  BY DEF KBInit, CallersInit, Entered
<1>5. KBInRound(0)
  BY <1>4, FS_EmptySet DEF KBInit, CallersInit, KBInRound
<1>6. QED
  BY <1>3, <1>5, RoundsAssumption DEF KBInv, KBInit, CallersInit, Abstract!Init

\* The state of the kernel barrier belongs to one round, whatever generation the word
\* has wrapped to.
THEOREM KernelBarrierInvariant == KBSpec => []KBInv
BY KBInitInv, KBNextInv, PTL DEF KBSpec

\* Kernel_Barrier_Internal is a barrier for every number of hardware threads, and for
\* every number of generations from two up: wrapping is harmless.
THEOREM KernelBarrierImplements == KBSpec => ImplementsBarrier
<1>1. KBInit => Abstract!Init
  BY KBInitInv
<1>2. KBInv /\ [KBNext]_kbvars => [Abstract!Next]_<<entered, left>>
  BY KBNextInv
<1>3. QED
  BY <1>1, <1>2, KernelBarrierInvariant, PTL DEF KBSpec, ImplementsBarrier, Abstract!Spec

-----------------------------------------------------------------------------
(* The L2 barrier.                                                         *)

\* Either increment: a caller of round r joins round r + 1, with a ticket of None or
\* the number of callers that joined before.
LEMMA L2IncrementInv ==
    ASSUME L2TypeOK, UniqueTickets, NEW r \in 0 .. Rounds, L2InRound(r), NEW t \in Threads,
           pc[t] \in {"out", "loaded"}, Calls(t),
           NEW l \in {"late", "arrived"}, pc' = [pc EXCEPT ![t] = l],
           l = "arrived" => seen[t] = start,
           Increment(t),
           NEW k, k = None \/ k = count - start, ticket' = [ticket EXCEPT ![t] = k]
    PROVE  L2Inv' /\ Abstract!Enter(t)
<1>1. /\ entered[t] = r /\ left[t] = r /\ r \in Nat /\ r < Rounds
      /\ count \in Nat /\ start \in Nat
  BY RoundsAssumption DEF L2InRound, L2Place, L2TypeOK, Calls
<1>2. /\ count' = count + 1 /\ current' = [current EXCEPT ![t] = count + 1]
      /\ entered' = [entered EXCEPT ![t] = r + 1]
      /\ left' = left /\ start' = start /\ seen' = seen
  BY <1>1 DEF Increment, Announces
<1>3. /\ Entered(r + 1)' = Entered(r + 1) \cup {t} /\ t \notin Entered(r + 1)
      /\ Cardinality(Entered(r + 1)') = Cardinality(Entered(r + 1)) + 1
      /\ Cardinality(Entered(r + 1)) < NumThreads
  BY <1>1, EnteredJoins DEF L2TypeOK, Increment, Announces
<1>4. /\ count = start + Cardinality(Entered(r + 1))
      /\ Cardinality(Entered(r + 1)) \in Nat /\ NumThreads \in Nat
  BY EnteredCount DEF L2InRound
<1>5. k = None \/ k \in 0 .. NumThreads - 1
  BY <1>1, <1>3, <1>4
<1>6. L2TypeOK'
  <2>1. k \in Nat \cup {None} /\ r + 1 \in 0 .. Rounds /\ count + 1 \in Nat
    BY <1>1, <1>4, <1>5, RoundsAssumption
  <2>2. QED
    BY <1>1, <1>2, <2>1 DEF L2TypeOK
<1>7. \A u \in Entered(r + 1) : /\ current[u] \in start + 1 .. count
                                /\ ticket[u] # None => ticket[u] = current[u] - 1 - start
  <2>1. \A u \in Entered(r + 1) : u \in Threads /\ entered[u] = r + 1 /\ L2Place(u, r)
    BY DEF L2InRound, Entered
  <2>2. QED
    BY <1>1, <2>1 DEF L2Place
<1>8. UniqueTickets'
  <2> SUFFICES ASSUME NEW u \in Threads, ticket'[u] # None
               PROVE  /\ ticket'[u] \in 0 .. NumThreads - 1
                      /\ \A v \in Threads \ {u} :
                            entered'[v] = entered'[u] => ticket'[v] # ticket'[u]
    BY DEF UniqueTickets
  <2>1. CASE u = t
    <3>1. ticket'[u] = k /\ k \in 0 .. NumThreads - 1 /\ k = count - start
      BY <1>5, <2>1, NoneAssumption DEF L2TypeOK
    <3>2. ASSUME NEW v \in Threads \ {u}, entered'[v] = entered'[u] PROVE ticket'[v] # k
      <4>1. v \in Entered(r + 1) /\ ticket'[v] = ticket[v]
        BY <1>1, <1>2, <2>1, <3>2 DEF Entered, L2TypeOK
      <4>2. QED
        BY <1>1, <1>7, <3>1, <4>1, NoneAssumption DEF L2TypeOK
    <3>3. QED
      BY <3>1, <3>2
  <2>2. CASE u # t
    <3>1. ticket'[u] = ticket[u] /\ entered'[u] = entered[u] /\ ticket[u] # None
      BY <1>2, <2>2 DEF L2TypeOK
    <3>2. /\ ticket[u] \in 0 .. NumThreads - 1
          /\ \A v \in Threads \ {u} : entered[v] = entered[u] => ticket[v] # ticket[u]
      BY <3>1 DEF UniqueTickets
    <3>3. ASSUME NEW v \in Threads \ {u}, entered'[v] = entered'[u]
          PROVE  ticket'[v] # ticket'[u]
      <4>1. CASE v = t
        <5>1. u \in Entered(r + 1) /\ ticket'[v] = k
          BY <1>1, <1>2, <3>1, <3>3, <4>1 DEF Entered, L2TypeOK
        <5>2. QED
          BY <1>1, <1>7, <3>1, <5>1 DEF L2TypeOK
      <4>2. CASE v # t
        BY <1>2, <3>1, <3>2, <3>3, <4>2 DEF L2TypeOK
      <4>3. QED
        BY <4>1, <4>2
    <3>4. QED
      BY <3>1, <3>2, <3>3
  <2>3. QED
    BY <2>1, <2>2
<1>9. L2InRound(r)'
  <2>1. (count = start + Cardinality(Entered(r + 1)))'
    BY <1>1, <1>2, <1>3, <1>4
  <2>2. \A u, v \in Entered(r + 1)' : u # v => current'[u] # current'[v]
    <3>1. \A u \in Entered(r + 1) : u # t /\ current'[u] = current[u] /\ current[u] <= count
      BY <1>1, <1>2, <1>3, <1>7 DEF L2TypeOK, Entered
    <3>2. current'[t] = count + 1
      BY <1>2 DEF L2TypeOK
    <3>3. \A u, v \in Entered(r + 1) : u # v => current[u] # current[v]
      BY DEF L2InRound
    <3>4. \A u \in Entered(r + 1) : current[u] \in Nat
      BY DEF L2TypeOK, Entered
    <3>5. QED
      BY <1>1, <1>3, <3>1, <3>2, <3>3, <3>4
  <2>3. ASSUME NEW u \in Threads
        PROVE  L2Place(u, r)'
    <3>1. CASE u = t
      BY <1>1, <1>2, <1>4, <3>1 DEF L2TypeOK, L2Place
    <3>2. CASE u # t
      BY <1>1, <1>2, <3>2 DEF L2TypeOK, L2InRound, L2Place, Calls
    <3>3. QED
      BY <3>1, <3>2
  <2>4. QED
    BY <2>1, <2>2, <2>3 DEF L2InRound
<1>10. QED
  BY <1>1, <1>6, <1>8, <1>9 DEF L2Inv, Abstract!Enter, Increment, Announces

\* A step that leaves counts, calls and tickets alone keeps the invariant when every
\* caller keeps its place.
LEMMA L2QuietInv ==
    ASSUME L2TypeOK, UniqueTickets, NEW r \in 0 .. Rounds, L2InRound(r),
           UNCHANGED <<entered, start, count, current, ticket>>,
           L2TypeOK', \A t \in Threads : L2Place(t, r)'
    PROVE  L2Inv'
<1>1. Entered(r + 1)' = Entered(r + 1)
  BY DEF Entered
<1>2. L2InRound(r)'
  BY <1>1 DEF L2InRound
<1>3. UniqueTickets'
  BY DEF UniqueTickets
<1>4. QED
  BY <1>2, <1>3 DEF L2Inv

\* The steps of one hardware thread keep the invariant and are steps of Barrier.
LEMMA L2Steps ==
    ASSUME L2Inv, NEW t \in Threads, L2Step(t)
    PROVE  L2Inv' /\ (Abstract!Next \/ UNCHANGED <<entered, left>>)
<1>1. L2TypeOK /\ UniqueTickets
  BY DEF L2Inv
<1>2. PICK r \in 0 .. Rounds : L2InRound(r)
  BY DEF L2Inv
<1>3. r \in Nat /\ NumThreads \in Nat /\ NumThreads > 0 /\ count \in Nat /\ start \in Nat
  BY <1>1, RoundsAssumption, EnteredCount DEF L2TypeOK
<1>4. \A u \in Threads : L2Place(u, r)
  BY <1>2 DEF L2InRound
<1>5. CASE LoadStart(t)
  <2>1. L2TypeOK'
    BY <1>1, <1>5 DEF L2TypeOK, LoadStart, Goes, Elsewhere
  <2>2. \A u \in Threads : L2Place(u, r)'
    <3> TAKE u \in Threads
    <3>1. CASE u # t
      BY <1>1, <1>4, <1>5, <3>1 DEF L2Place, L2TypeOK, LoadStart, Goes, Elsewhere, Calls
    <3>2. CASE u = t
      BY <1>1, <1>3, <1>4, <1>5, <3>2 DEF L2Place, L2TypeOK, LoadStart, Goes, Elsewhere, Calls
    <3>3. QED
      BY <3>1, <3>2
  <2>3. QED
    BY <1>1, <1>2, <1>5, <2>1, <2>2, L2QuietInv DEF LoadStart, Elsewhere
<1>6. CASE L2_Barrier(t)
  <2>1. CASE Goes(t, "loaded", "arrived")
    <3>1. Calls(t) /\ seen[t] = start
      BY <1>4, <2>1 DEF L2Place, Goes
    <3>2. L2Inv' /\ Abstract!Enter(t)
      BY <1>1, <1>2, <1>6, <2>1, <3>1, L2IncrementInv DEF L2_Barrier, Goes
    <3>3. QED
      BY <3>2 DEF Abstract!Next
  <2>2. CASE Goes(t, "out", "late") /\ Calls(t)
    <3>1. L2Inv' /\ Abstract!Enter(t)
      BY <1>1, <1>2, <1>6, <2>2, L2IncrementInv DEF L2_Barrier, Goes
    <3>2. QED
      BY <3>1 DEF Abstract!Next
  <2>3. QED
    BY <1>6, <2>1, <2>2 DEF L2_Barrier
<1>7. CASE L2_BarrierWithTicket(t)
  <2>1. Calls(t) /\ seen[t] = start
    BY <1>4, <1>7 DEF L2Place, L2_BarrierWithTicket, Goes
  <2>2. L2Inv' /\ Abstract!Enter(t)
    BY <1>1, <1>2, <1>7, <2>1, L2IncrementInv DEF L2_BarrierWithTicket, Goes
  <2>3. QED
    BY <2>2 DEF Abstract!Next
<1>8. CASE Compare(t) /\ current[t] # seen[t] + NumThreads
  <2>1. L2TypeOK'
    BY <1>1, <1>8 DEF L2TypeOK, Compare, Goes, Elsewhere
  <2>2. \A u \in Threads : L2Place(u, r)'
    BY <1>1, <1>4, <1>8, ZenonT(30) DEF L2Place, L2TypeOK, Compare, Goes, Elsewhere, Calls
  <2>3. QED
    BY <1>1, <1>2, <1>8, <2>1, <2>2, L2QuietInv DEF Compare, Elsewhere
<1>9. CASE Compare(t) /\ current[t] = seen[t] + NumThreads
  <2>1. /\ pc[t] = "arrived" /\ pc' = [pc EXCEPT ![t] = "out"] /\ start' = current[t]
        /\ left' = [left EXCEPT ![t] = @ + 1]
        /\ UNCHANGED <<entered, count, seen, current, ticket>>
    BY <1>9 DEF Compare, Goes, Returns
  <2>2. entered[t] = r + 1 /\ left[t] = r /\ seen[t] = start /\ current[t] \in start + 1 .. count
    BY <1>3, <1>4, <1>9, <2>1 DEF L2Place
  <2>3. /\ count = start + Cardinality(Entered(r + 1)) /\ Cardinality(Entered(r + 1)) \in Nat
        /\ Cardinality(Entered(r + 1)) <= NumThreads
    BY <1>2, EnteredCount DEF L2InRound
  <2>4. Cardinality(Entered(r + 1)) = NumThreads /\ current[t] = count
    BY <1>1, <1>3, <1>9, <2>2, <2>3 DEF L2TypeOK
  <2>5. Entered(r + 1) = Threads
    BY <2>4, EnteredCount
  <2>6. \A u \in Threads : /\ entered[u] = r + 1 /\ left[u] = r
                           /\ pc[u] \in {"late", "arrived", "waiting"}
                           /\ current[u] \in start + 1 .. count
                           /\ pc[u] = "arrived" => seen[u] = start
                           /\ u # t => current[u] # current[t]
    <3>1. \A u \in Threads : entered[u] = r + 1
      BY <2>5 DEF Entered
    <3>2. \A u \in Threads : u # t => current[u] # current[t]
      BY <1>2, <2>5 DEF L2InRound
    <3>3. QED
      BY <1>3, <1>4, <3>1, <3>2 DEF L2Place
  <2>7. L2TypeOK'
    <3>1. r + 1 \in 0 .. Rounds
      BY <1>1, <2>2 DEF L2TypeOK
    <3>2. QED
      BY <1>1, <2>1, <2>2, <3>1 DEF L2TypeOK
  <2>8. Entered((r + 1) + 1)' = {}
    BY <1>3, <2>1, <2>6 DEF Entered
  <2>9. \A u \in Threads : L2Place(u, r + 1)'
    <3> TAKE u \in Threads
    <3>1. CASE u = t
      BY <1>1, <1>3, <2>1, <2>2, <3>1 DEF L2Place, L2TypeOK
    <3>2. CASE u # t
      <4>1. /\ pc'[u] = pc[u] /\ left'[u] = r /\ entered'[u] = r + 1 /\ current'[u] = current[u]
            /\ seen'[u] = seen[u] /\ start' = count /\ current[u] <= count
        BY <1>1, <1>3, <2>1, <2>4, <2>6, <3>2 DEF L2TypeOK
      <4>2. pc[u] = "arrived" => current[u] # seen[u] + NumThreads
        BY <1>9, <2>2, <2>6, <3>2
      <4>3. QED
        BY <2>6, <4>1, <4>2 DEF L2Place
    <3>3. QED
      BY <3>1, <3>2
  <2>10. L2InRound(r + 1)'
    BY <1>3, <2>1, <2>4, <2>8, <2>9, FS_EmptySet DEF L2InRound
  <2>11. UniqueTickets'
    BY <1>1, <2>1 DEF UniqueTickets
  <2>12. Abstract!Leave(t)
    BY <1>3, <2>1, <2>2, <2>6 DEF Abstract!Leave
  <2>13. r + 1 \in 0 .. Rounds
    BY <1>1, <2>2 DEF L2TypeOK
  <2>14. QED
    BY <2>7, <2>10, <2>11, <2>12, <2>13 DEF L2Inv, Abstract!Next
<1>10. CASE WaitForAdvance(t)
  <2>1. /\ pc[t] = "waiting" /\ pc' = [pc EXCEPT ![t] = "out"] /\ start >= current[t]
        /\ left' = [left EXCEPT ![t] = @ + 1]
        /\ UNCHANGED <<entered, start, count, seen, current, ticket>>
    BY <1>10 DEF WaitForAdvance, Goes, Returns
  <2>2. entered[t] = r /\ left[t] + 1 = r
    BY <1>1, <1>3, <1>4, <2>1 DEF L2Place, L2TypeOK
  <2>3. L2TypeOK'
    BY <1>1, <1>3, <2>1, <2>2 DEF L2TypeOK
  <2>4. \A u \in Threads : L2Place(u, r)'
    BY <1>1, <1>3, <1>4, <2>1, <2>2, ZenonT(30) DEF L2Place, L2TypeOK, Calls
  <2>5. L2Inv'
    BY <1>1, <1>2, <2>1, <2>3, <2>4, L2QuietInv
  <2>6. \A u \in Threads : entered[u] >= r
    BY <1>3, <1>4 DEF L2Place
  <2>7. Abstract!Leave(t)
    BY <1>1, <1>3, <2>1, <2>2, <2>6 DEF Abstract!Leave, L2TypeOK
  <2>8. QED
    BY <2>5, <2>7 DEF Abstract!Next
<1>11. QED
  BY <1>5, <1>6, <1>7, <1>8, <1>9, <1>10 DEF L2Step

\* One step of any hardware thread, or none.
LEMMA L2NextInv == L2Inv /\ [L2Next]_l2vars => L2Inv' /\ [Abstract!Next]_<<entered, left>>
<1> SUFFICES ASSUME L2Inv, [L2Next]_l2vars
             PROVE  L2Inv' /\ [Abstract!Next]_<<entered, left>>
  OBVIOUS
<1>1. CASE L2Next
  BY <1>1, L2Steps DEF L2Next
<1>2. CASE UNCHANGED l2vars
  <2>1. UNCHANGED <<pc, entered, left, start, count, seen, current, ticket>>
    BY <1>2 DEF l2vars, callers
  <2>2. L2TypeOK /\ L2TypeOK' /\ UniqueTickets
    BY <2>1 DEF L2Inv, L2TypeOK
  <2>3. PICK r \in 0 .. Rounds : L2InRound(r)
    BY DEF L2Inv
  <2>4. \A t \in Threads : L2Place(t, r)'
    BY <2>1, <2>3, ZenonT(30) DEF L2InRound, L2Place, Calls
  <2>5. QED
    BY <2>1, <2>2, <2>3, <2>4, L2QuietInv
<1>3. QED
  BY <1>1, <1>2

\* The first round has not begun.
LEMMA L2InitInv == L2Init => L2Inv /\ Abstract!Init
<1> SUFFICES ASSUME L2Init PROVE L2Inv /\ Abstract!Init
  OBVIOUS
<1>1. L2TypeOK /\ UniqueTickets
  BY RoundsAssumption DEF L2Init, CallersInit, L2TypeOK, UniqueTickets
<1>2. Entered(0 + 1) = {}
  BY DEF L2Init, CallersInit, Entered
<1>3. L2InRound(0)
  BY <1>2, FS_EmptySet DEF L2Init, CallersInit, L2InRound, L2Place
<1>4. QED
  BY <1>1, <1>3, RoundsAssumption DEF L2Inv, L2Init, CallersInit, Abstract!Init

\* The state of the L2 barrier belongs to one round, whenever start is loaded.
THEOREM L2BarrierInvariant == L2Spec => []L2Inv
BY L2InitInv, L2NextInv, PTL DEF L2Spec

\* The tickets of a round are unique.
THEOREM L2BarrierTickets == L2Spec => []UniqueTickets
<1>1. L2Inv => UniqueTickets
  BY DEF L2Inv
<1>2. QED
  BY <1>1, L2BarrierInvariant, PTL

\* L2_Barrier and L2_BarrierWithTicket, mixed in any way, are a barrier for every number
\* of threads, although a late load of start may belong to the next round.
THEOREM L2BarrierImplements == L2Spec => ImplementsBarrier
<1>1. L2Init => Abstract!Init
  BY L2InitInv
<1>2. L2Inv /\ [L2Next]_l2vars => [Abstract!Next]_<<entered, left>>
  BY L2NextInv
<1>3. QED
  BY <1>1, <1>2, L2BarrierInvariant, PTL DEF L2Spec, ImplementsBarrier, Abstract!Spec

-----------------------------------------------------------------------------
(***************************************************************************)
(* The global interrupt barrier.                                           *)
(***************************************************************************)

\* The three patterns take turns, and three rounds in a row have different ones.
LEMMA PatternFacts ==
    ASSUME NEW k \in Nat
    PROVE  /\ Pattern(k) \in Patterns /\ Pattern(0) = 4
           /\ NextPattern(Pattern(k)) = Pattern(k + 1)
           /\ Pattern(k + 1) # Pattern(k) /\ Pattern(k + 2) # Pattern(k)
<1>1. k % 3 \in 0 .. 2 /\ (k + 1) % 3 = (IF k % 3 = 2 THEN 0 ELSE (k % 3) + 1)
      /\ (k + 2) % 3 = (IF k % 3 = 0 THEN 2 ELSE (k % 3) - 1)
  OBVIOUS
<1>2. Pattern(k) \in Patterns /\ Pattern(0) = 4
  BY <1>1 DEF Pattern, Patterns
<1>3. Pattern(k + 1) # Pattern(k) /\ Pattern(k + 2) # Pattern(k)
  BY <1>1 DEF Pattern
<1>4. NextPattern(4) = 2 /\ NextPattern(2) = 1 /\ NextPattern(1) = 4
  BY DEF NextPattern, MUSPI_GIBARRIER_INITIAL_STATE
<1>5. NextPattern(Pattern(k)) = Pattern(k + 1)
  BY <1>1, <1>4 DEF Pattern
<1>6. QED
  BY <1>2, <1>3, <1>5

\* Storing a pattern on a wire.
LEMMA AppendFacts ==
    ASSUME NEW S, NEW w \in Seq(S), NEW p \in S
    PROVE  /\ Len(Append(w, p)) = Len(w) + 1
           /\ \A i \in 1 .. Len(w) : Append(w, p)[i] = w[i]
           /\ Append(w, p)[Len(w) + 1] = p
OBVIOUS

\* What the types say of a register, a wire and the rounds.
LEMMA GITypes ==
    ASSUME GITypeOK, NEW n \in Threads, NEW u \in Threads
    PROVE  /\ entered[n] \in Nat /\ left[n] \in Nat /\ control[n] \in Patterns
           /\ wire[n][u] \in Seq(Patterns) /\ Len(wire[n][u]) \in Nat
BY RoundsAssumption DEF GITypeOK

\* A change that arrives.
LEMMA GIPropagate ==
    ASSUME GIInv, NEW n \in Threads, NEW u \in Threads, Propagate(n, u)
    PROVE  GIInv' /\ UNCHANGED <<entered, left>>
<1>1. /\ UNCHANGED <<pc, entered, left, control, state>>
      /\ Len(wire[n][u]) > 1
      /\ wire' = [wire EXCEPT ![n][u] = Tail(@)]
  BY DEF Propagate, callers
<1>2. GITypeOK /\ wire[n][u] \in Seq(Patterns)
  BY GITypes DEF GIInv
<1>3. Tail(wire[n][u]) \in Seq(Patterns) /\ Len(Tail(wire[n][u])) = Len(wire[n][u]) - 1
      /\ \A i \in 1 .. Len(Tail(wire[n][u])) : Tail(wire[n][u])[i] = wire[n][u][i + 1]
  BY <1>1, <1>2
<1>4. GITypeOK'
  BY <1>1, <1>2, <1>3 DEF GITypeOK
<1>5. wire'[n][u] = Tail(wire[n][u])
      /\ \A m, v \in Threads : m # n \/ v # u => wire'[m][v] = wire[m][v]
  BY <1>1, <1>2 DEF GITypeOK
<1>6. \A m \in Threads : GINode(m)'
  BY <1>1 DEF GIInv, GINode, Reset, InUse
<1>7. ASSUME NEW m \in Threads, NEW v \in Threads, m # n \/ v # u PROVE GIPair(m, v)'
  <2>1. GIPair(m, v) /\ wire'[m][v] = wire[m][v]
    BY <1>5, <1>7 DEF GIInv
  <2>2. QED
    BY <1>1, <2>1 DEF GIPair, Chain, Shown, Reset, Initialized, InUse
<1>8. GIPair(n, u)'
  <2>1. GIPair(n, u) /\ entered[u] \in Nat /\ left[n] \in Nat /\ Len(wire[n][u]) \in Nat
    BY <1>2, GITypes DEF GIInv
  <2>2. Reset(u)
    <3>1. ~Reset(u) => wire[n][u] = <<control[u]>>
      BY <2>1, Zenon DEF GIPair
    <3>2. wire[n][u] = <<control[u]>> => ~(Len(wire[n][u]) > 1)
      OBVIOUS
    <3>3. QED
      BY <1>1, <3>1, <3>2, Zenon
  <2>3. CASE Chain(n, u)
    <3>1. Shown(n, u)' = Shown(n, u) + 1 /\ Shown(n, u) \in Int
      <4>1. Len(wire'[n][u]) = Len(wire[n][u]) - 1 /\ entered'[u] = entered[u]
        BY <1>1, <1>3, <1>5
      <4>2. Shown(n, u)' = entered'[u] + 1 - Len(wire'[n][u])
        BY DEF Shown
      <4>3. Shown(n, u) = entered[u] + 1 - Len(wire[n][u])
        BY DEF Shown
      <4>4. entered[u] \in Nat /\ Len(wire[n][u]) \in Nat
        BY <2>1
      <4>5. QED
        BY <4>1, <4>2, <4>3, <4>4
    <3>2. left[n] <= Shown(n, u) + 1 /\ Shown(n, u) + 1 <= entered[u]
      BY <1>1, <2>1, <2>3, <3>1 DEF Chain, Shown
    <3>3. \A i \in 1 .. Len(wire'[n][u]) : wire'[n][u][i] = Pattern(Shown(n, u) + 1 + i - 1)
      <4> TAKE i \in 1 .. Len(wire'[n][u])
      <4>1. i + 1 \in 1 .. Len(wire[n][u]) /\ wire'[n][u][i] = wire[n][u][i + 1]
        BY <1>3, <1>5, <2>1
      <4>2. wire[n][u][i + 1] = Pattern(Shown(n, u) + (i + 1) - 1)
        BY <2>3, <4>1 DEF Chain
      <4>3. Shown(n, u) + (i + 1) - 1 = Shown(n, u) + 1 + i - 1
        BY <3>1
      <4>4. QED
        BY <4>1, <4>2, <4>3
    <3>4. Chain(n, u)'
      BY <1>1, <3>1, <3>2, <3>3 DEF Chain
    <3>5. QED
      BY <1>1, <2>1, <2>2, <3>4 DEF GIPair, Reset, Initialized, InUse
  <2>4. CASE ~Chain(n, u)
    <3>1. /\ ~Initialized(n) /\ entered[u] = 0
          /\ Len(wire[n][u]) = 2 /\ wire[n][u][2] = 4
      BY <2>1, <2>2, <2>4 DEF GIPair
    <3>2. Len(wire'[n][u]) = 1 /\ wire'[n][u][1] = 4
      <4>1. Len(wire'[n][u]) = 1
        BY <1>3, <1>5, <3>1
      <4>2. 1 \in 1 .. Len(Tail(wire[n][u])) /\ 1 + 1 = 2
        BY <1>5, <4>1
      <4>3. Tail(wire[n][u])[1] = wire[n][u][2]
        BY <1>3, <4>2
      <4>4. QED
        BY <1>5, <3>1, <4>1, <4>3
    <3>3. left[n] = 0
      BY <2>1, <3>1 DEF GIPair
    <3>4. Shown(n, u)' = 0
      BY <1>1, <3>1, <3>2 DEF Shown
    <3>5. Chain(n, u)'
      BY <1>1, <3>1, <3>2, <3>3, <3>4, PatternFacts DEF Chain
    <3>6. QED
      BY <1>1, <2>1, <2>2, <3>5 DEF GIPair, Reset, Initialized, InUse
  <2>5. QED
    BY <2>3, <2>4
<1>9. QED
  BY <1>1, <1>4, <1>6, <1>7, <1>8 DEF GIInv

\* Node n keeps how far it has come, and may be where the others let it be.
Steady(n) ==
    /\ Reset(n)' <=> Reset(n)
    /\ Initialized(n)' <=> Initialized(n)
    /\ InUse(n)' <=> InUse(n)
    /\ pc'[n] \in {"polling", "timedout"} <=> pc[n] \in {"polling", "timedout"}
    /\ pc'[n] \in {"mu2", "failed"} => \A u \in Threads : Reset(u)
    /\ pc'[n] = "init" => \A u \in Threads : Initialized(u)

\* A step that moves one steady node.
LEMMA GIMoves ==
    ASSUME GIInv, NEW n \in Threads, NEW l, pc' = [pc EXCEPT ![n] = l],
           UNCHANGED <<entered, left, control, state, wire>>, GITypeOK', Steady(n)
    PROVE  GIInv'
<1>1. \A m \in Threads : m # n => pc'[m] = pc[m]
  BY DEF GIInv, GITypeOK
<1>2. \A m \in Threads : /\ Reset(m)' <=> Reset(m)
                         /\ Initialized(m)' <=> Initialized(m)
                         /\ InUse(m)' <=> InUse(m)
                         /\ pc'[m] \in {"polling", "timedout"} <=> pc[m] \in {"polling", "timedout"}
  BY <1>1 DEF Steady, Reset, Initialized, InUse
<1>3. ASSUME NEW m \in Threads PROVE GINode(m)'
  <2>1. GINode(m)
    BY DEF GIInv
  <2>2. QED
    BY <1>2, <2>1 DEF GINode
<1>4. ASSUME NEW m \in Threads, NEW v \in Threads PROVE GIPair(m, v)'
  <2>1. GIPair(m, v)
    BY DEF GIInv
  <2>2. Chain(m, v)' <=> Chain(m, v)
    BY DEF Chain, Shown
  <2>3. pc'[m] \in {"mu2", "failed"} => Reset(v)
    BY <1>1, <2>1 DEF GIPair, Steady
  <2>4. pc'[m] = "init" => Initialized(v)
    BY <1>1, <2>1 DEF GIPair, Steady
  <2> HIDE DEF Chain, Reset, Initialized, InUse
  <2>5. QED
    BY <1>2, <2>1, <2>2, <2>3, <2>4 DEF GIPair
<1>5. QED
  BY <1>3, <1>4 DEF GIInv

\* The caller's own barrier.
LEMMA GIBarrierFunction ==
    ASSUME GIInv, NEW n \in Threads, BarrierFunction(n)
    PROVE  GIInv'
<1>1. PICK s \in DOMAIN After : /\ pc[n] = s /\ pc' = [pc EXCEPT ![n] = After[s]]
                                /\ \A u \in Threads : pc[u] \notin Before[s]
  BY Zenon DEF BarrierFunction, Goes
<1>2. UNCHANGED <<entered, left, control, state, wire>>
  BY DEF BarrierFunction, Elsewhere
<1>3. s \in {"sync1", "sync2", "sync3"}
  BY DEF After
<1>4. pc'[n] = After[s]
  BY <1>1 DEF GIInv, GITypeOK
<1>5. /\ s = "sync1" => After[s] = "mu1"
      /\ s = "sync2" => After[s] = "mu2" /\ Before[s] = {"sync1", "mu1"}
      /\ s = "sync3" => After[s] = "init"
                        /\ Before[s] = {"sync1", "mu1", "sync2", "mu2", "failed"}
  BY DEF After, Before
<1>6. GITypeOK'
  BY <1>1, <1>2, <1>3, <1>5 DEF GIInv, GITypeOK
<1>7. Steady(n)
  BY <1>1, <1>3, <1>4, <1>5 DEF Steady, Reset, Initialized, InUse, GIInv, GITypeOK
<1>8. QED
  BY <1>1, <1>2, <1>6, <1>7, GIMoves

\* A timeout, during the initialization or while polling.
LEMMA GITimeouts ==
    ASSUME GIInv, NEW n \in Threads, InitTimeout(n) \/ PollTimeout(n)
    PROVE  GIInv' /\ UNCHANGED <<entered, left>>
<1>1. UNCHANGED <<entered, left, control, state, wire>>
  BY DEF InitTimeout, PollTimeout, Elsewhere
<1>2. CASE InitTimeout(n)
  <2>1. pc[n] = "mu2" /\ pc' = [pc EXCEPT ![n] = "failed"] /\ pc'[n] = "failed"
    BY <1>2 DEF InitTimeout, Goes, GIInv, GITypeOK
  <2>2. GITypeOK'
    BY <1>1, <2>1 DEF GIInv, GITypeOK
  <2>3. \A u \in Threads : Reset(u)
    BY <2>1 DEF GIInv, GIPair
  <2>4. Steady(n)
    BY <2>1, <2>3 DEF Steady, Reset, Initialized, InUse
  <2>5. QED
    BY <1>1, <2>1, <2>2, <2>4, GIMoves
<1>3. CASE PollTimeout(n)
  <2>1. pc[n] = "polling" /\ pc' = [pc EXCEPT ![n] = "timedout"] /\ pc'[n] = "timedout"
    BY <1>3 DEF PollTimeout, Goes, GIInv, GITypeOK
  <2>2. GITypeOK'
    BY <1>1, <2>1 DEF GIInv, GITypeOK
  <2>3. Steady(n)
    BY <2>1 DEF Steady, Reset, Initialized, InUse
  <2>4. QED
    BY <1>1, <2>1, <2>2, <2>3, GIMoves
<1>4. QED
  BY <1>1, <1>2, <1>3

\* The status of n shows the initial state: nothing earlier is on its way to n.
LEMMA GIInitMU2 ==
    ASSUME GIInv, NEW n \in Threads, MUSPI_GIBarrierInitMU2(n)
    PROVE  GIInv' /\ UNCHANGED <<entered, left>>
<1>1. /\ UNCHANGED <<entered, left, control, state, wire>>
      /\ pc[n] = "mu2" /\ pc' = [pc EXCEPT ![n] = "sync3"]
  BY DEF MUSPI_GIBarrierInitMU2, Elsewhere, Goes
<1>2. pc'[n] = "sync3" /\ \A m \in Threads : m # n => pc'[m] = pc[m]
  BY <1>1 DEF GIInv, GITypeOK
<1>3. GITypeOK'
  BY <1>1 DEF GIInv, GITypeOK
<1>4. \A u \in Threads : Reset(u) /\ Chain(n, u)
  <2> TAKE u \in Threads
  <2>1. GIPair(n, u) /\ wire[n][u] \in Seq(Patterns)
    BY GITypes DEF GIInv
  <2>2. Reset(u)
    BY <1>1, <2>1 DEF GIPair
  <2>3. ASSUME ~Chain(n, u) PROVE FALSE
    <3>1. Len(wire[n][u]) = 2 /\ wire[n][u][1] # 4
      BY <2>1, <2>2, <2>3 DEF GIPair
    <3>2. Head(wire[n][u]) \in Patterns /\ Head(wire[n][u]) # 4
      BY <2>1, <3>1
    <3>3. QED
      BY <3>2 DEF MUSPI_GIBarrierInitMU2, InitialStatus, StatusBit, MUSPI_GIBARRIER_INITIAL_STATE
  <2>4. QED
    BY <2>2, <2>3
<1>5. \A m \in Threads : /\ Reset(m)' <=> Reset(m)
                         /\ Initialized(m)' <=> m = n \/ Initialized(m)
                         /\ InUse(m)' <=> InUse(m)
  BY <1>1, <1>2 DEF Reset, Initialized, InUse
<1>6. ASSUME NEW m \in Threads PROVE GINode(m)'
  <2>1. GINode(m)
    BY DEF GIInv
  <2>2. pc'[m] \in {"polling", "timedout"} <=> pc[m] \in {"polling", "timedout"}
    BY <1>1, <1>2
  <2>3. QED
    BY <1>1, <1>5, <2>1, <2>2 DEF GINode
<1>7. ASSUME NEW m \in Threads, NEW v \in Threads PROVE GIPair(m, v)'
  <2>1. GIPair(m, v) /\ Reset(v)
    BY <1>4 DEF GIInv
  <2>2. Chain(m, v)' <=> Chain(m, v)
    BY <1>1 DEF Chain, Shown
  <2>3. m = n => Chain(m, v)
    BY <1>4
  <2>4. pc'[m] = "init" => pc[m] = "init"
    BY <1>2
  <2> HIDE DEF Chain, Reset, Initialized, InUse
  <2>5. QED
    BY <1>1, <1>5, <2>1, <2>2, <2>3, <2>4 DEF GIPair
<1>8. QED
  BY <1>1, <1>3, <1>6, <1>7 DEF GIInv

\* What a store does to the wires.
LEMMA StoreWires ==
    ASSUME GITypeOK, NEW n \in Threads, NEW p \in Patterns, Store(n, p)
    PROVE  /\ control' \in [Threads -> Patterns]
           /\ control'[n] = p /\ \A m \in Threads : m # n => control'[m] = control[m]
           /\ wire' \in [Threads -> [Threads -> Seq(Patterns)]]
           /\ \A m, u \in Threads : u # n \/ control[n] = p => wire'[m][u] = wire[m][u]
           /\ \A m \in Threads : control[n] # p => wire'[m][n] = Append(wire[m][n], p)
<1>1. \A m \in Threads : wire[m] \in [Threads -> Seq(Patterns)]
  BY DEF GITypeOK
<1>2. ASSUME NEW m \in Threads
      PROVE  /\ wire'[m] = [wire[m] EXCEPT ![n] = IF control[n] = p THEN @ ELSE Append(@, p)]
             /\ wire'[m] \in [Threads -> Seq(Patterns)]
  <2>1. wire'[m] = [wire[m] EXCEPT ![n] = IF control[n] = p THEN @ ELSE Append(@, p)]
    BY DEF Store
  <2>2. wire[m][n] \in Seq(Patterns) /\ Append(wire[m][n], p) \in Seq(Patterns)
    BY <1>1
  <2>3. QED
    BY <1>1, <2>1, <2>2
<1>3. wire' \in [Threads -> [Threads -> Seq(Patterns)]]
  BY <1>2 DEF Store
<1>4. \A m, u \in Threads : u # n \/ control[n] = p => wire'[m][u] = wire[m][u]
  <2> TAKE m, u \in Threads
  <2>1. wire'[m] = [wire[m] EXCEPT ![n] = IF control[n] = p THEN @ ELSE Append(@, p)]
    BY <1>2
  <2>2. wire[m] \in [Threads -> Seq(Patterns)]
    BY <1>1
  <2>3. QED
    BY <2>1, <2>2
<1>5. \A m \in Threads : control[n] # p => wire'[m][n] = Append(wire[m][n], p)
  <2> TAKE m \in Threads
  <2>1. wire'[m] = [wire[m] EXCEPT ![n] = IF control[n] = p THEN @ ELSE Append(@, p)]
    BY <1>2
  <2>2. wire[m] \in [Threads -> Seq(Patterns)]
    BY <1>1
  <2>3. QED
    BY <2>1, <2>2
<1>6. QED
  BY <1>3, <1>4, <1>5 DEF Store, GITypeOK

\* Node n resets its register; nobody has looked at a status register yet.
LEMMA GIInitMU1 ==
    ASSUME GIInv, NEW n \in Threads, MUSPI_GIBarrierInitMU1(n)
    PROVE  GIInv' /\ UNCHANGED <<entered, left>>
<1>1. /\ UNCHANGED <<entered, left, state>> /\ Store(n, 4)
      /\ pc[n] = "mu1" /\ pc' = [pc EXCEPT ![n] = "sync2"]
  BY DEF MUSPI_GIBarrierInitMU1, Elsewhere, Goes, MUSPI_GIBARRIER_INITIAL_STATE
<1>2. pc'[n] = "sync2" /\ \A m \in Threads : m # n => pc'[m] = pc[m]
  BY <1>1 DEF GIInv, GITypeOK
<1>3. /\ control' \in [Threads -> Patterns]
      /\ control'[n] = 4 /\ \A m \in Threads : m # n => control'[m] = control[m]
      /\ wire' \in [Threads -> [Threads -> Seq(Patterns)]]
      /\ \A m, u \in Threads : u # n \/ control[n] = 4 => wire'[m][u] = wire[m][u]
      /\ \A m \in Threads : control[n] # 4 => wire'[m][n] = Append(wire[m][n], 4)
  <2>1. 4 \in Patterns
    BY DEF Patterns
  <2>2. QED
    BY <1>1, <2>1, StoreWires DEF GIInv
<1>4. GITypeOK'
  BY <1>1, <1>3 DEF GIInv, GITypeOK
<1>5. \A m \in Threads : pc[m] \in {"sync1", "mu1", "sync2"}
  <2> TAKE m \in Threads
  <2>1. ~Reset(n) /\ GIPair(m, n) /\ GIPair(m, m) /\ GITypeOK
    BY <1>1 DEF GIInv, Reset
  <2>2. ~Initialized(m) /\ pc[m] \notin {"mu2", "failed"}
    BY <2>1 DEF GIPair
  <2>3. QED
    BY <2>1, <2>2 DEF GITypeOK, Initialized
<1>6. \A m \in Threads : entered[m] = 0 /\ left[m] = 0
  BY <1>5, GITypes DEF GIInv, GINode, InUse
<1>7. ASSUME NEW m \in Threads PROVE GINode(m)'
  BY <1>1, <1>2, <1>3, <1>5, <1>6, PatternFacts, ZenonT(30) DEF GIInv, GINode, Reset, InUse
<1>8. ASSUME NEW m \in Threads, NEW u \in Threads PROVE GIPair(m, u)'
  <2>1. GIPair(m, u)
    BY DEF GIInv
  <2>2. pc'[m] \in {"sync1", "mu1", "sync2"} /\ pc'[u] \in {"sync1", "mu1", "sync2"}
    BY <1>2, <1>5
  <2>3. CASE u # n
    <3>1. wire'[m][u] = wire[m][u] /\ control'[u] = control[u] /\ pc'[u] = pc[u]
      BY <1>2, <1>3, <2>3
    <3>2. Chain(m, u)' <=> Chain(m, u)
      BY <1>1, <3>1 DEF Chain, Shown
    <3>3. QED
      BY <1>1, <1>6, <2>1, <2>2, <3>1, <3>2 DEF GIPair, Reset, Initialized, InUse
  <2>4. CASE u = n
    <3>1. wire[m][n] = <<control[n]>>
      BY <1>1, <2>1, <2>4 DEF GIPair, Reset
    <3>2. CASE control[n] = 4
      <4>1. wire'[m][n] = <<4>>
        BY <1>3, <3>1, <3>2
      <4>2. Len(wire'[m][n]) = 1 /\ wire'[m][n][1] = 4
        BY <4>1
      <4>3. Shown(m, n)' = 0
        BY <1>1, <1>6, <4>2 DEF Shown
      <4>4. Chain(m, n)'
        <5>1. left'[m] = 0 /\ entered'[n] = 0 /\ Pattern(0) = 4
          BY <1>1, <1>6, PatternFacts
        <5>2. \A i \in 1 .. Len(wire'[m][n]) : wire'[m][n][i] = Pattern(Shown(m, n)' + i - 1)
          BY <4>2, <4>3, <5>1
        <5>3. QED
          BY <4>3, <5>1, <5>2 DEF Chain
      <4>5. Reset(n)' /\ left'[m] <= entered'[n]
        BY <1>1, <1>2, <1>6 DEF Reset
      <4>6. pc'[m] \notin {"mu2", "failed", "init"} /\ ~Initialized(m)' /\ ~InUse(m)'
        BY <2>2 DEF Initialized, InUse
      <4>7. QED
        BY <2>4, <4>4, <4>5, <4>6 DEF GIPair
    <3>3. CASE control[n] # 4
      <4>1. wire'[m][n] = Append(<<control[n]>>, 4)
        BY <1>3, <3>1, <3>3
      <4>2. Len(wire'[m][n]) = 2 /\ wire'[m][n][1] = control[n] /\ wire'[m][n][2] = 4
        BY <4>1
      <4>3. Reset(n)' /\ entered'[n] = 0 /\ left'[m] <= entered'[n]
        BY <1>1, <1>2, <1>6 DEF Reset
      <4>4. pc'[m] \notin {"mu2", "failed", "init"} /\ ~Initialized(m)' /\ ~InUse(m)'
        BY <2>2 DEF Initialized, InUse
      <4>5. QED
        BY <2>4, <3>3, <4>2, <4>3, <4>4 DEF GIPair
    <3>4. QED
      BY <3>2, <3>3
  <2>5. QED
    BY <2>3, <2>4
<1>9. QED
  BY <1>1, <1>4, <1>7, <1>8 DEF GIInv

\* Node n reads its state from its own register.
LEMMA GIInit2 ==
    ASSUME GIInv, NEW n \in Threads, MUSPI_GIBarrierInit(n)
    PROVE  GIInv' /\ UNCHANGED <<entered, left>>
<1>1. /\ UNCHANGED <<entered, left, control, wire>>
      /\ state' = [state EXCEPT ![n] = control[n]]
      /\ pc[n] = "init" /\ pc' = [pc EXCEPT ![n] = "ready"]
  BY DEF MUSPI_GIBarrierInit, Elsewhere, Goes
<1>2. pc'[n] = "ready" /\ \A m \in Threads : m # n => pc'[m] = pc[m]
  BY <1>1 DEF GIInv, GITypeOK
<1>3. state'[n] = control[n] /\ \A m \in Threads : m # n => state'[m] = state[m]
  BY <1>1 DEF GIInv, GITypeOK
<1>4. GITypeOK'
  BY <1>1 DEF GIInv, GITypeOK
<1>5. ASSUME NEW m \in Threads PROVE GINode(m)'
  BY <1>1, <1>2, <1>3, ZenonT(30) DEF GIInv, GINode, Reset, InUse
<1>6. ASSUME NEW m \in Threads, NEW u \in Threads PROVE GIPair(m, u)'
  <2>1. GIPair(m, u)
    BY DEF GIInv
  <2>2. Chain(m, u)' <=> Chain(m, u)
    BY <1>1 DEF Chain, Shown
  <2>3. QED
    BY <1>1, <1>2, <2>1, <2>2 DEF GIPair, Reset, Initialized, InUse
<1>7. QED
  BY <1>1, <1>4, <1>5, <1>6 DEF GIInv

\* Once a node uses the barrier, every node sees the patterns of the others in order, and
\* their rounds are at most two apart.
LEMMA GIRounds ==
    ASSUME GIInv, NEW n \in Threads, InUse(n), NEW u \in Threads
    PROVE  /\ Initialized(u) /\ \A m \in Threads : Chain(m, u)
           /\ entered[u] <= left[n] + 2 /\ left[n] <= entered[u]
<1>1. \A m \in Threads : Initialized(m)
  BY DEF GIInv, GIPair
<1>2. \A m \in Threads : Reset(m)
  BY <1>1 DEF Initialized, Reset
<1>3. \A m \in Threads : Chain(m, u)
  BY <1>1, <1>2 DEF GIInv, GIPair
<1>4. entered[u] \in Nat /\ left[u] \in Nat /\ entered[n] \in Nat /\ left[n] \in Nat
  BY GITypes DEF GIInv
<1>5. entered[u] <= left[u] + 1 /\ left[u] <= entered[n] /\ entered[n] <= left[n] + 1
      /\ left[n] <= entered[u]
  <2>1. GINode(u) /\ GINode(n) /\ GIPair(u, n) /\ GIPair(n, u)
    BY DEF GIInv
  <2>2. left[u] <= entered[n] /\ left[n] <= entered[u]
    BY <2>1 DEF GIPair
  <2>3. entered[u] = left[u] + 1 \/ entered[u] = left[u]
    BY <2>1 DEF GINode
  <2>4. entered[n] = left[n] + 1 \/ entered[n] = left[n]
    BY <2>1 DEF GINode
  <2>5. QED
    BY <1>4, <2>2, <2>3, <2>4
<1>6. QED
  BY <1>1, <1>3, <1>4, <1>5

\* Node n enters a round, or enters again the round it is in.
LEMMA GIEnter ==
    ASSUME GIInv, NEW n \in Threads, MUSPI_GIBarrierEnter(n)
    PROVE  GIInv' /\ (Abstract!Enter(n) \/ UNCHANGED <<entered, left>>)
<1>1. /\ pc[n] \in {"ready", "timedout"} /\ pc' = [pc EXCEPT ![n] = "polling"]
      /\ Store(n, NextPattern(state[n])) /\ state' = state /\ left' = left
  BY DEF MUSPI_GIBarrierEnter, Goes, Announces, Elsewhere
<1>2. pc'[n] = "polling" /\ \A m \in Threads : m # n => pc'[m] = pc[m]
  BY <1>1 DEF GIInv, GITypeOK
<1>3. InUse(n) /\ GINode(n) /\ GITypeOK /\ left[n] \in Nat /\ entered[n] \in Nat
  BY <1>1, GITypes DEF GIInv, InUse
<1>4. NextPattern(state[n]) = Pattern(left[n] + 1) /\ Pattern(left[n] + 1) \in Patterns
  <2>1. state[n] = Pattern(left[n]) /\ left[n] \in Nat /\ left[n] + 1 \in Nat
    BY <1>3 DEF GINode
  <2>2. NextPattern(Pattern(left[n])) = Pattern(left[n] + 1)
    BY <2>1, PatternFacts
  <2>3. Pattern(left[n] + 1) \in Patterns
    BY <2>1, PatternFacts
  <2>4. QED
    BY <2>1, <2>2, <2>3
<1>5. /\ control' \in [Threads -> Patterns]
      /\ control'[n] = Pattern(left[n] + 1)
      /\ \A m \in Threads : m # n => control'[m] = control[m]
      /\ wire' \in [Threads -> [Threads -> Seq(Patterns)]]
      /\ \A m, u \in Threads : u # n \/ control[n] = Pattern(left[n] + 1) =>
             wire'[m][u] = wire[m][u]
      /\ \A m \in Threads : control[n] # Pattern(left[n] + 1) =>
             wire'[m][n] = Append(wire[m][n], Pattern(left[n] + 1))
  <2> DEFINE p == Pattern(left[n] + 1)
  <2>1. p \in Patterns /\ Store(n, p) /\ GITypeOK
    BY <1>1, <1>3, <1>4
  <2> HIDE DEF p
  <2>2. /\ control' \in [Threads -> Patterns]
        /\ control'[n] = p /\ \A m \in Threads : m # n => control'[m] = control[m]
        /\ wire' \in [Threads -> [Threads -> Seq(Patterns)]]
        /\ \A m, u \in Threads : u # n \/ control[n] = p => wire'[m][u] = wire[m][u]
        /\ \A m \in Threads : control[n] # p => wire'[m][n] = Append(wire[m][n], p)
    BY <2>1, StoreWires
  <2>3. QED
    BY <2>2, Zenon DEF p
<1>6. control[n] = Pattern(entered[n])
  BY <1>1, <1>3 DEF GINode, Reset
<1>7. CASE pc[n] = "timedout"
  <2>1. UNCHANGED entered
    BY <1>7 DEF MUSPI_GIBarrierEnter, Goes, Elsewhere
  <2>2. entered[n] = left[n] + 1
    BY <1>3, <1>7 DEF GINode
  <2>3. control' = control /\ wire' = wire
    <3>1. \A m, u \in Threads : wire'[m][u] = wire[m][u]
      <4>1. control[n] = Pattern(left[n] + 1)
        BY <1>6, <2>2
      <4>2. QED
        BY <1>5, <4>1, Zenon
    <3>2. wire' = wire
      BY <1>3, <1>5, <3>1 DEF GITypeOK
    <3>3. control' = control
      BY <1>3, <1>5, <1>6, <2>2 DEF GITypeOK
    <3>4. QED
      BY <3>2, <3>3
  <2>4. GITypeOK'
    BY <1>1, <1>3, <2>1, <2>3 DEF GITypeOK
  <2>5. Steady(n)
    BY <1>2, <1>7 DEF Steady, Reset, Initialized, InUse
  <2>6. QED
    BY <1>1, <2>1, <2>3, <2>4, <2>5, GIMoves
<1>8. CASE pc[n] = "ready"
  <2>1. entered[n] = left[n] /\ entered[n] < Rounds
        /\ entered' = [entered EXCEPT ![n] = @ + 1]
    BY <1>3, <1>8 DEF GINode, MUSPI_GIBarrierEnter, Goes, Announces, Calls
  <2>2. Abstract!Enter(n)
    BY <1>1, <2>1 DEF Abstract!Enter
  <2>3. entered'[n] = entered[n] + 1 /\ \A m \in Threads : m # n => entered'[m] = entered[m]
    BY <1>3, <2>1 DEF GITypeOK
  <2>4. GITypeOK'
    <3>1. entered' \in [Threads -> 0 .. Rounds]
      BY <1>3, <2>1, RoundsAssumption DEF GITypeOK
    <3>2. control' \in [Threads -> Patterns] /\ wire' \in [Threads -> [Threads -> Seq(Patterns)]]
      BY <1>5
    <3>3. QED
      BY <1>1, <1>3, <3>1, <3>2 DEF GITypeOK
  <2>5. Pattern(entered[n]) # Pattern(left[n] + 1)
    BY <1>3, <2>1, PatternFacts
  <2>6. ASSUME NEW m \in Threads PROVE GINode(m)'
    <3>1. GINode(m)
      BY DEF GIInv
    <3>2. CASE m = n
      BY <1>1, <1>2, <1>3, <1>5, <2>1, <2>3, <3>2, ZenonT(30) DEF GINode, Reset, InUse
    <3>3. CASE m # n
      BY <1>1, <1>2, <1>5, <2>3, <3>1, <3>3 DEF GINode, Reset, InUse
    <3>4. QED
      BY <3>2, <3>3
  <2>7. ASSUME NEW m \in Threads, NEW u \in Threads, u # n PROVE GIPair(m, u)'
    <3>1. GIPair(m, u) /\ GIPair(n, u)
      BY DEF GIInv
    <3>2. wire'[m][u] = wire[m][u] /\ entered'[u] = entered[u] /\ pc'[u] = pc[u]
          /\ control'[u] = control[u]
      BY <1>2, <1>5, <2>3, <2>7
    <3>3. Chain(m, u)' <=> Chain(m, u)
      BY <1>1, <3>2 DEF Chain, Shown
    <3>4. QED
      BY <1>1, <1>2, <3>1, <3>2, <3>3 DEF GIPair, Reset, Initialized, InUse
  <2>8. ASSUME NEW m \in Threads PROVE GIPair(m, n)'
    <3> DEFINE w == wire[m][n]
    <3>1. Initialized(m) /\ GIPair(m, n) /\ Chain(m, n) /\ w \in Seq(Patterns) /\ Len(w) \in Nat
      BY <1>3, GIRounds, GITypes DEF GIInv
    <3>2. wire'[m][n] = Append(w, Pattern(left[n] + 1))
      BY <1>5, <1>6, <2>5
    <3>3. /\ Len(wire'[m][n]) = Len(w) + 1
          /\ \A i \in 1 .. Len(w) : wire'[m][n][i] = w[i]
          /\ wire'[m][n][Len(w) + 1] = Pattern(left[n] + 1)
      <4> DEFINE p == Pattern(left[n] + 1)
      <4>1. p \in Patterns /\ w \in Seq(Patterns) /\ wire'[m][n] = Append(w, p)
        BY <1>4, <3>1, <3>2
      <4> HIDE DEF p, w
      <4>2. /\ Len(Append(w, p)) = Len(w) + 1 /\ Append(w, p)[Len(w) + 1] = p
            /\ \A i \in 1 .. Len(w) : Append(w, p)[i] = w[i]
        BY <4>1, AppendFacts
      <4>3. QED
        BY <4>1, <4>2, Zenon DEF p
    <3>4. Shown(m, n)' = Shown(m, n) /\ Shown(m, n) \in Int
          /\ Shown(m, n) = entered[n] + 1 - Len(w)
      <4>1. Shown(m, n)' = entered'[n] + 1 - Len(wire'[m][n])
        BY DEF Shown
      <4>2. Shown(m, n) = entered[n] + 1 - Len(w)
        BY DEF Shown
      <4>3. entered'[n] = entered[n] + 1 /\ Len(wire'[m][n]) = Len(w) + 1
        BY <2>3, <3>3
      <4>4. entered[n] \in Nat /\ Len(w) \in Nat
        BY <1>3, <3>1
      <4> HIDE DEF w
      <4>5. Shown(m, n)' = Shown(m, n)
        BY <4>1, <4>2, <4>3, <4>4
      <4>6. Shown(m, n) \in Int
        BY <4>2, <4>4
      <4>7. QED
        BY <4>2, <4>5, <4>6
    <3>5. /\ left[m] <= Shown(m, n) /\ Shown(m, n) <= entered[n]
          /\ \A i \in 1 .. Len(w) : w[i] = Pattern(Shown(m, n) + i - 1)
      BY <3>1 DEF Chain
    <3>6. \A i \in 1 .. Len(wire'[m][n]) : wire'[m][n][i] = Pattern(Shown(m, n) + i - 1)
      <4> HIDE DEF w
      <4> TAKE i \in 1 .. Len(wire'[m][n])
      <4>1. CASE i \in 1 .. Len(w)
        <5>1. wire'[m][n][i] = w[i]
          BY <3>3, <4>1
        <5>2. w[i] = Pattern(Shown(m, n) + i - 1)
          BY <3>5, <4>1
        <5>3. QED
          BY <5>1, <5>2
      <4>2. CASE i = Len(w) + 1
        <5>1. Shown(m, n) + i - 1 = left[n] + 1
          BY <1>3, <2>1, <3>1, <3>4, <4>2
        <5>2. QED
          BY <3>3, <4>2, <5>1
      <4>3. i \in 1 .. Len(w) \/ i = Len(w) + 1
        <5>1. Len(wire'[m][n]) = Len(w) + 1 /\ Len(w) \in Nat
          BY <3>1, <3>3
        <5>2. QED
          BY <5>1
      <4>4. QED
        BY <4>1, <4>2, <4>3
    <3>7. Chain(m, n)'
      <4>1. left[m] \in Nat
        BY <1>3, GITypes
      <4>2. left'[m] <= Shown(m, n) /\ Shown(m, n) <= entered'[n]
        <5>1. left'[m] = left[m] /\ entered'[n] = entered[n] + 1 /\ entered[n] \in Nat
          BY <1>1, <1>3, <2>3
        <5>2. Shown(m, n) \in Int /\ left[m] <= Shown(m, n) /\ Shown(m, n) <= entered[n]
          BY <3>4, <3>5
        <5>3. QED
          BY <5>1, <5>2
      <4>3. QED
        BY <3>4, <3>6, <4>2 DEF Chain
    <3>8. left'[m] <= entered'[n]
      <4>1. left'[m] = left[m] /\ entered'[n] = entered[n] + 1 /\ entered[n] \in Nat
        BY <1>1, <1>3, <2>3
      <4>2. left[m] \in Nat /\ left[m] <= entered[n]
        BY <1>3, <3>1, GITypes DEF GIPair
      <4>3. QED
        BY <4>1, <4>2
    <3>9. Initialized(n)' /\ Reset(n)'
      BY <1>2 DEF Initialized, Reset
    <3>10. QED
      BY <3>7, <3>8, <3>9 DEF GIPair
  <2>9. QED
    BY <2>2, <2>4, <2>6, <2>7, <2>8 DEF GIInv
<1>9. QED
  BY <1>1, <1>7, <1>8

\* Node n leaves: with three patterns, a bit that is off means that every node has
\* entered the round.
LEMMA GIPoll ==
    ASSUME GIInv, NEW n \in Threads, MUSPI_GIBarrierPoll(n)
    PROVE  GIInv' /\ Abstract!Leave(n)
<1>1. /\ pc[n] \in {"polling", "timedout"} /\ pc' = [pc EXCEPT ![n] = "ready"]
      /\ ~StatusBit(n, state[n]) /\ state' = [state EXCEPT ![n] = NextPattern(@)]
      /\ left' = [left EXCEPT ![n] = @ + 1] /\ UNCHANGED <<entered, control, wire>>
  BY DEF MUSPI_GIBarrierPoll, Goes, Returns
<1>2. pc'[n] = "ready" /\ \A m \in Threads : m # n => pc'[m] = pc[m]
  BY <1>1 DEF GIInv, GITypeOK
<1>3. InUse(n) /\ GINode(n) /\ GITypeOK /\ left[n] \in Nat /\ entered[n] \in Nat
  BY <1>1, GITypes DEF GIInv, InUse
<1>4. state[n] = Pattern(left[n]) /\ entered[n] = left[n] + 1
  BY <1>1, <1>3 DEF GINode
<1>5. \A u \in Threads : left[n] + 1 <= Shown(n, u) /\ Shown(n, u) <= entered[u]
  <2> TAKE u \in Threads
  <2>1. Chain(n, u) /\ entered[u] <= left[n] + 2
    BY <1>3, GIRounds
  <2>2. wire[n][u] \in Seq(Patterns)
    BY <1>3, GITypes
  <2>3. /\ entered[u] \in Nat /\ left[n] \in Nat /\ Len(wire[n][u]) \in Nat
        /\ Shown(n, u) = entered[u] + 1 - Len(wire[n][u]) /\ Shown(n, u) \in Int
    <3>1. entered[u] \in Nat /\ left[n] \in Nat /\ Len(wire[n][u]) \in Nat
      BY <1>3, GITypes
    <3>2. Shown(n, u) = entered[u] + 1 - Len(wire[n][u])
      BY DEF Shown
    <3>3. Shown(n, u) \in Int
      BY <3>1, <3>2
    <3>4. QED
      BY <3>1, <3>2, <3>3
  <2>4. left[n] <= Shown(n, u) /\ Shown(n, u) <= entered[u]
        /\ \A i \in 1 .. Len(wire[n][u]) : wire[n][u][i] = Pattern(Shown(n, u) + i - 1)
    BY <2>1 DEF Chain
  <2>5. Len(wire[n][u]) >= 1
    <3>1. Shown(n, u) <= entered[u]
      BY <2>4
    <3>2. QED
      BY <2>3, <3>1
  <2>6. Head(wire[n][u]) = Pattern(Shown(n, u))
    <3>1. Head(wire[n][u]) = wire[n][u][1]
      BY <2>2, <2>5
    <3>2. wire[n][u][1] = Pattern(Shown(n, u) + 1 - 1)
      BY <2>2, <2>4, <2>5
    <3>3. Shown(n, u) + 1 - 1 = Shown(n, u)
      BY <2>3
    <3>4. QED
      BY <3>1, <3>2, <3>3
  <2>7. Pattern(Shown(n, u)) # Pattern(left[n])
    BY <1>1, <1>4, <2>6 DEF StatusBit
  <2>8. Shown(n, u) # left[n]
    BY <2>7
  <2>9. left[n] \in Nat /\ Shown(n, u) \in Int /\ left[n] <= Shown(n, u)
        /\ Shown(n, u) <= entered[u]
    BY <1>3, <2>3, <2>4
  <2>10. QED
    BY <2>8, <2>9
<1>6. \A u \in Threads : entered[u] >= left[n] + 1 /\ entered[u] \in Nat
  BY <1>3, <1>5, GITypes DEF Shown
<1>7. Abstract!Leave(n)
  BY <1>1, <1>3, <1>4, <1>6 DEF Abstract!Leave
<1>8. left'[n] = left[n] + 1 /\ \A m \in Threads : m # n => left'[m] = left[m]
  BY <1>1, <1>3 DEF GITypeOK
<1>9. state'[n] = Pattern(left[n] + 1) /\ \A m \in Threads : m # n => state'[m] = state[m]
  BY <1>1, <1>3, <1>4, PatternFacts DEF GITypeOK
<1>10. GITypeOK'
  <2>1. NextPattern(state[n]) \in Patterns /\ left[n] + 1 \in 0 .. Rounds
    BY <1>3, <1>4, PatternFacts, ZenonT(30) DEF GITypeOK
  <2>2. QED
    BY <1>1, <1>3, <2>1 DEF GITypeOK
<1>11. ASSUME NEW m \in Threads PROVE GINode(m)'
  <2>1. GINode(m)
    BY DEF GIInv
  <2>2. CASE m = n
    BY <1>1, <1>2, <1>3, <1>4, <1>8, <1>9, <2>2, ZenonT(30) DEF GINode, Reset, InUse
  <2>3. CASE m # n
    BY <1>1, <1>2, <1>8, <1>9, <2>1, <2>3 DEF GINode, Reset, InUse
  <2>4. QED
    BY <2>2, <2>3
<1>12. ASSUME NEW m \in Threads, NEW u \in Threads PROVE GIPair(m, u)'
  <2>1. GIPair(m, u) /\ Initialized(u) /\ Initialized(m) /\ Chain(m, u)
    BY <1>3, GIRounds DEF GIInv
  <2>2. Shown(m, u)' = Shown(m, u)
    BY <1>1 DEF Shown
  <2>3. left'[m] <= Shown(m, u) /\ left'[m] <= entered[u]
    BY <1>5, <1>6, <1>8, <2>1 DEF Chain, GIPair
  <2>4. Chain(m, u)'
    BY <1>1, <2>1, <2>2, <2>3 DEF Chain
  <2>5. Initialized(u)' /\ Reset(u)'
    BY <1>1, <1>2, <2>1 DEF Initialized, Reset
  <2>6. QED
    BY <1>1, <2>3, <2>4, <2>5 DEF GIPair
<1>13. QED
  BY <1>7, <1>10, <1>11, <1>12 DEF GIInv

LEMMA GINextInv == GIInv /\ [GINext]_givars => GIInv' /\ [Abstract!Next]_<<entered, left>>
<1> SUFFICES ASSUME GIInv, [GINext]_givars
             PROVE  GIInv' /\ [Abstract!Next]_<<entered, left>>
  OBVIOUS
<1>1. ASSUME NEW n \in Threads, GIStep(n)
      PROVE  GIInv' /\ [Abstract!Next]_<<entered, left>>
  <2>1. CASE BarrierFunction(n)
    <3>1. UNCHANGED <<entered, left>>
      BY <2>1 DEF BarrierFunction, Elsewhere
    <3>2. QED
      BY <2>1, <3>1, GIBarrierFunction
  <2>2. CASE MUSPI_GIBarrierInitMU1(n)
    BY <2>2, GIInitMU1
  <2>3. CASE MUSPI_GIBarrierInitMU2(n)
    BY <2>3, GIInitMU2
  <2>4. CASE MUSPI_GIBarrierInit(n)
    BY <2>4, GIInit2
  <2>5. CASE MUSPI_GIBarrierEnter(n)
    BY <2>5, GIEnter DEF Abstract!Next
  <2>6. CASE MUSPI_GIBarrierPoll(n)
    BY <2>6, GIPoll DEF Abstract!Next
  <2>7. CASE InitTimeout(n) \/ PollTimeout(n)
    BY <2>7, GITimeouts
  <2>8. QED
    BY <1>1, <2>1, <2>2, <2>3, <2>4, <2>5, <2>6, <2>7 DEF GIStep
<1>2. ASSUME NEW n \in Threads, NEW u \in Threads, Propagate(n, u)
      PROVE  GIInv' /\ [Abstract!Next]_<<entered, left>>
  BY <1>2, GIPropagate
<1>3. CASE UNCHANGED givars
  <2>1. UNCHANGED <<pc, entered, left, control, state, wire>>
    BY <1>3 DEF givars, callers
  <2>2. GITypeOK'
    BY <2>1 DEF GIInv, GITypeOK
  <2>3. \A n \in Threads : GINode(n)'
    BY <2>1 DEF GIInv, GINode, Reset, InUse
  <2>4. ASSUME NEW n \in Threads, NEW u \in Threads PROVE GIPair(n, u)'
    <3>1. GIPair(n, u)
      BY DEF GIInv
    <3>2. Chain(n, u)' <=> Chain(n, u)
      BY <2>1 DEF Chain, Shown
    <3>3. QED
      BY <2>1, <3>1, <3>2 DEF GIPair, Reset, Initialized, InUse
  <2>5. QED
    BY <2>1, <2>2, <2>3, <2>4 DEF GIInv
<1>4. QED
  BY <1>1, <1>2, <1>3 DEF GINext

\* The nodes hold what earlier use of the class route left, and all of them see it.
LEMMA GIInitInv == GIInit => GIInv /\ Abstract!Init
<1> SUFFICES ASSUME GIInit PROVE GIInv /\ Abstract!Init
  OBVIOUS
<1>1. /\ pc = [t \in Threads |-> "sync1"] /\ entered = [t \in Threads |-> 0]
      /\ left = [t \in Threads |-> 0] /\ control \in [Threads -> Patterns]
      /\ state = [n \in Threads |-> 0]
      /\ wire = [n \in Threads |-> [u \in Threads |-> <<control[u]>>]]
  BY DEF GIInit, CallersInit
<1>2. GITypeOK
  BY <1>1, RoundsAssumption DEF GITypeOK
<1>3. \A n \in Threads : GINode(n)
  BY <1>1 DEF GINode, Reset, InUse
<1>4. \A n, u \in Threads : GIPair(n, u)
  BY <1>1 DEF GIPair, Reset, Initialized, InUse
<1>5. QED
  BY <1>1, <1>2, <1>3, <1>4 DEF GIInv, Abstract!Init

\* What the status register of a node shows belongs to the rounds the nodes are in, for
\* every number of nodes, every delay and every earlier content of the registers.
THEOREM GIBarrierInvariant == GISpec => []GIInv
BY GIInitInv, GINextInv, PTL DEF GISpec

\* The global interrupt barrier is a barrier: three patterns are enough to tell the round
\* a node waits for from the last one and the next one.
THEOREM GIBarrierImplements == GISpec => ImplementsBarrier
<1>1. GIInit => Abstract!Init
  BY GIInitInv
<1>2. GIInv /\ [GINext]_givars => [Abstract!Next]_<<entered, left>>
  BY GINextInv
<1>3. QED
  BY <1>1, <1>2, GIBarrierInvariant, PTL DEF GISpec, ImplementsBarrier, Abstract!Spec

=============================================================================
