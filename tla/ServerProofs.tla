---------------------------- MODULE ServerProofs ----------------------------
(***************************************************************************)
(* Proofs about Arbitration, for every block, every set of requests and    *)
(* every number of jobs: no two jobs share a core, the nodes of a job whose *)
(* kill timer ran out are not given to whole-node jobs again, and the ranks *)
(* of a job fit on its nodes.  And about JobHeartbeat, for any nodes.      *)
(***************************************************************************)
EXTENDS Arbitration, JobHeartbeat, FiniteSetTheorems, FunctionTheorems, TLAPS

USE ZenonT(8), SMTT(20)

-----------------------------------------------------------------------------
\* The operators that choose nodes return nodes of the block.
LEMMA NodesOfType ==
    ASSUME NEW r, NEW m \in Midplanes
    PROVE  NodesOf(r, m) \subseteq Nodes
BY DEF NodesOf, Nodes

\* A set of nodes has a size.
LEMMA CardinalityNat ==
    ASSUME NEW S \in SUBSET Nodes
    PROVE  Cardinality(S) \in Nat
BY FiniteAssumption, FS_Subset, FS_CardinalityType

\* The number of nodes of a shape is a number.
LEMMA ShapeSizeNat == \A r : ShapeSize(r) \in Nat
<1> SUFFICES ASSUME NEW r PROVE ShapeSize(r) \in Nat
  OBVIOUS
<1> DEFINE S == {c \in [Dims -> 0 .. 3] : \A d \in Dims : c[d] < r.shape[d]}
<1>1. S \subseteq [Dims -> 0 .. 3]
  OBVIOUS
<1> HIDE DEF S
<1>2. IsFiniteSet(S)
  BY <1>1, FiniteAssumption, FS_Subset
<1>3. Cardinality(S) \in Nat
  BY <1>2, FS_CardinalityType
<1>4. QED
  BY <1>3 DEF S, ShapeSize

\* job::Create::io gives each I/O node of a job the number of nodes it manages.
LEMMA ManagedType ==
    ASSUME NEW ios \in SUBSET IoNodes, NEW nodes \in SUBSET Nodes
    PROVE  Managed(ios, nodes) \in SUBSET (IoNodes \X Nat)
<1>1. \A i \in ios : Cardinality({n \in nodes : Connected[n] = i}) \in Nat
  <2> TAKE i \in ios
  <2>1. {n \in nodes : Connected[n] = i} \in SUBSET Nodes
    OBVIOUS
  <2>2. QED
    BY <2>1, CardinalityNat
<1>2. SUFFICES ASSUME NEW p \in Managed(ios, nodes) PROVE p \in IoNodes \X Nat
  OBVIOUS
<1>3. PICK i \in ios : p = <<i, Cardinality({n \in nodes : Connected[n] = i})>>
  BY DEF Managed
<1>4. QED
  BY <1>1, <1>3

\* What job::Create records about a job is well typed.
LEMMA CreatedType ==
    ASSUME NEW r \in Request, NEW ok \in BOOLEAN, NEW kind \in {"block", "nodes", "core"},
           NEW nodes \in SUBSET Nodes, NEW core \in Cores \cup {None}, NEW size \in Nat,
           NEW ios \in SUBSET (IoNodes \X Nat)
    PROVE  Created(r, ok, kind, nodes, core, size, ios) \in Info
<1>1. r.np \in Nat /\ r.ranks \in Nat /\ r.stdin \in Nat /\ r.strace \in Nat \cup {None}
      /\ r.core \in Cores \cup {None}
  BY DEF Request
<1>2. size * r.ranks \in Nat
  BY <1>1
<1>3. QED
  BY <1>1, <1>2 DEF Created, Info

-----------------------------------------------------------------------------
(* Steps that change only the owners of one job.                           *)

\* A live job may change owners, as long as a refused one stays with Create and the
\* handler that marks the nodes of a timed out job stays among them.
LEMMA OwnersInv ==
    ASSUME ArbInv, NEW j \in Jobs, NEW owners \in SUBSET Owner, Owners(j, owners), Live(j),
           owners \cap (Owner \ {"create"}) # {} => info[j].accepted,
           \A o \in {"create", "adding"} : o \in owners => owners = {o},
           \/ timedOut' = timedOut
           \/ timedOut' = timedOut \cup {j} /\ info[j].accepted /\ "unavailable" \in owners,
           "unavailable" \in refs[j] => "unavailable" \in owners
    PROVE  ArbInv'
<1>1. /\ \A k \in Jobs : refs'[k] = IF k = j THEN owners ELSE refs[k]
      /\ refs' \in [Jobs -> SUBSET Owner]
  BY DEF Owners, ArbInv, TypeOK
<1>2. phase[j] = "done"
  BY DEF ArbInv, Owned, Live
<1>3. \A k \in Jobs : Holds(k)' => Holds(k)
  BY <1>1 DEF Holds, Live, Owners
<1>4. TypeOK'
  BY <1>1 DEF ArbInv, TypeOK, Owners
<1>5. Owned'
  BY <1>1, <1>2 DEF ArbInv, Owned, Owners
<1>6. Claims'
  BY <1>3 DEF ArbInv, Claims, Owners
<1>7. FailedMarked'
  BY <1>1 DEF ArbInv, TypeOK, FailedMarked, Owners
<1>8. Exclusive'
  BY <1>3, ZenonT(30) DEF ArbInv, Exclusive, Owners, Uses
<1>9. QED
  BY <1>4, <1>5, <1>6, <1>7, <1>8 DEF ArbInv

\* The handlers that hand the Job object from one owner to the next.
LEMMA OwnerStepsInv ==
    ASSUME ArbInv, NEW j \in Jobs
    PROVE  /\ CreateDestroyed(j) => ArbInv'
           /\ AddImpl(j) => ArbInv'
           /\ RemoveImpl(j) => ArbInv'
           /\ KillTimerStart(j) => ArbInv'
           /\ KillTimerAborted(j) => ArbInv'
           /\ KillTimerHandler(j) => ArbInv'
<1>1. /\ refs[j] \subseteq Owner
      /\ refs[j] \cap (Owner \ {"create"}) # {} => info[j].accepted
      /\ \A o \in {"create", "adding"} : o \in refs[j] => refs[j] = {o}
  BY DEF ArbInv, TypeOK, Owned
<1>2. CreateDestroyed(j) => ArbInv'
  <2> HAVE CreateDestroyed(j)
  <2> DEFINE owners == IF info[j].accepted THEN {"adding"} ELSE {}
  <2>1. /\ refs[j] = {"create"} /\ Owners(j, owners) /\ timedOut' = timedOut
        /\ owners \in SUBSET Owner
    BY <1>1 DEF CreateDestroyed, Owner
  <2>2. /\ owners \cap (Owner \ {"create"}) # {} => info[j].accepted
        /\ \A o \in {"create", "adding"} : o \in owners => owners = {o}
    OBVIOUS
  <2> HIDE DEF owners
  <2>3. QED
    BY <2>1, <2>2, OwnersInv DEF Live
<1>3. AddImpl(j) => ArbInv'
  <2> HAVE AddImpl(j)
  <2>1. PICK owners \in {{"container"}, {}} : Owners(j, owners)
    BY DEF AddImpl
  <2>2. refs[j] = {"adding"} /\ info[j].accepted /\ timedOut' = timedOut
    BY <1>1 DEF AddImpl, Owner
  <2>3. /\ owners \in SUBSET Owner
        /\ \A o \in {"create", "adding"} : o \in owners => owners = {o}
    BY <2>1 DEF Owner
  <2>4. QED
    BY <2>1, <2>2, <2>3, OwnersInv DEF Live
<1>4. RemoveImpl(j) => ArbInv'
  <2> HAVE RemoveImpl(j)
  <2> DEFINE owners == refs[j] \ {"container"}
  <2>1. /\ "container" \in refs[j] /\ Owners(j, owners) /\ timedOut' = timedOut
        /\ owners \in SUBSET Owner /\ info[j].accepted
        /\ "create" \notin owners /\ "adding" \notin owners
        /\ "unavailable" \in refs[j] => "unavailable" \in owners
    BY <1>1 DEF RemoveImpl, Owner
  <2> HIDE DEF owners
  <2>2. QED
    BY <2>1, OwnersInv DEF Live
<1>5. KillTimerStart(j) => ArbInv'
  <2> HAVE KillTimerStart(j)
  <2> DEFINE owners == refs[j] \cup {"timer"}
  <2>1. /\ "container" \in refs[j] /\ Owners(j, owners) /\ timedOut' = timedOut
        /\ owners \in SUBSET Owner /\ info[j].accepted
        /\ "create" \notin owners /\ "adding" \notin owners
        /\ "unavailable" \in refs[j] => "unavailable" \in owners
    BY <1>1 DEF KillTimerStart, Owner
  <2> HIDE DEF owners
  <2>2. QED
    BY <2>1, OwnersInv DEF Live
<1>6. KillTimerAborted(j) => ArbInv'
  <2> HAVE KillTimerAborted(j)
  <2> DEFINE owners == refs[j] \ {"timer"}
  <2>1. /\ "timer" \in refs[j] /\ Owners(j, owners) /\ timedOut' = timedOut
        /\ owners \in SUBSET Owner /\ info[j].accepted
        /\ "create" \notin owners /\ "adding" \notin owners
        /\ "unavailable" \in refs[j] => "unavailable" \in owners
    BY <1>1 DEF KillTimerAborted, Owner
  <2> HIDE DEF owners
  <2>2. QED
    BY <2>1, OwnersInv DEF Live
<1>7. KillTimerHandler(j) => ArbInv'
  <2> HAVE KillTimerHandler(j)
  <2> DEFINE owners == (refs[j] \ {"timer"}) \cup {"unavailable"}
  <2>1. /\ "timer" \in refs[j] /\ Owners(j, owners) /\ timedOut' = timedOut \cup {j}
        /\ owners \in SUBSET Owner /\ info[j].accepted
        /\ "create" \notin owners /\ "adding" \notin owners /\ "unavailable" \in owners
    BY <1>1 DEF KillTimerHandler, Owner
  <2> HIDE DEF owners
  <2>2. QED
    BY <2>1, OwnersInv DEF Live
<1>8. QED
  BY <1>2, <1>3, <1>4, <1>5, <1>6, <1>7

-----------------------------------------------------------------------------
(* The strand of the block.                                                *)

\* Marking the nodes of a job reaches all of them: the handler is an owner of the
\* job, so the block or the nodes still point to it.
LEMMA UnavailableInv ==
    ASSUME ArbInv, NEW j \in Jobs, UnavailableJobImpl(j)
    PROVE  ArbInv'
<1>1. /\ \A k \in Jobs : refs'[k] = IF k = j THEN refs[k] \ {"unavailable"} ELSE refs[k]
      /\ refs' \in [Jobs -> SUBSET Owner]
  BY DEF UnavailableJobImpl, ArbInv, TypeOK
<1>2. Holds(j) /\ phase[j] = "done"
  BY DEF UnavailableJobImpl, ArbInv, Owned, Holds, Live, Owner
<1>3. \A k \in Jobs : Holds(k)' => Holds(k)
  BY <1>1 DEF Holds, Live, UnavailableJobImpl
<1>4. \A n \in Nodes : status'[n] = "SoftwareFailure" \/ (~Marked(j, n) /\ status'[n] = status[n])
  BY DEF UnavailableJobImpl, Marked
<1>5. info[j].nodes \subseteq Nodes /\ info[j].kind \in {"block", "nodes", "core"}
  BY DEF ArbInv, TypeOK, Info
<1>6. TypeOK'
  BY <1>1 DEF ArbInv, TypeOK, UnavailableJobImpl
<1>7. Owned'
  <2> SUFFICES ASSUME NEW k \in Jobs
               PROVE  /\ phase[k] # "done" => /\ refs'[k] = {} /\ ~info[k].accepted
                                              /\ k \notin timedOut
                      /\ refs'[k] \cap (Owner \ {"create"}) # {} => info[k].accepted
                      /\ \A o \in {"create", "adding"} : o \in refs'[k] => refs'[k] = {o}
    BY DEF Owned, UnavailableJobImpl
  <2>1. CASE k # j
    BY <1>1, <2>1 DEF ArbInv, Owned
  <2>2. CASE k = j
    <3>1. "create" \notin refs[j] /\ "adding" \notin refs[j]
      BY DEF ArbInv, Owned, UnavailableJobImpl
    <3>2. QED
      BY <1>1, <1>2, <2>2, <3>1 DEF Holds
  <2>3. QED
    BY <2>1, <2>2
<1>8. Claims'
  BY <1>3 DEF ArbInv, Claims, UnavailableJobImpl
<1>9. FailedMarked'
  <2> SUFFICES ASSUME NEW k \in timedOut
               PROVE  /\ info[k].accepted
                      /\ \/ info[k].kind = "core"
                         \/ "unavailable" \in refs'[k]
                         \/ \A n \in info[k].nodes : status'[n] = "SoftwareFailure"
    BY DEF FailedMarked, UnavailableJobImpl
  <2>1. k \in Jobs /\ info[k].accepted /\ info[k].nodes \subseteq Nodes
    BY DEF ArbInv, TypeOK, FailedMarked, Info
  <2>2. CASE k = j /\ info[j].kind # "core"
    <3>1. \A n \in info[j].nodes : Marked(j, n)
      <4> TAKE n \in info[j].nodes
      <4>1. n[1] \in Midplanes
        BY <1>5 DEF Nodes
      <4>2. QED
        BY <1>2, <1>5, <2>2, <4>1 DEF ArbInv, Claims, Marked
    <3>2. QED
      BY <1>4, <1>5, <2>1, <2>2, <3>1
  <2>3. CASE k # j
    <3>1. "unavailable" \in refs[k] => "unavailable" \in refs'[k]
      BY <1>1, <2>1, <2>3
    <3>2. \A n \in Nodes : status[n] = "SoftwareFailure" => status'[n] = "SoftwareFailure"
      BY <1>4
    <3>3. QED
      BY <2>1, <3>1, <3>2 DEF ArbInv, FailedMarked
  <2>4. QED
    BY <2>1, <2>2, <2>3
<1>10. Exclusive'
  BY <1>3, ZenonT(30) DEF ArbInv, Exclusive, UnavailableJobImpl, Uses
<1>11. QED
  BY <1>6, <1>7, <1>8, <1>9, <1>10 DEF ArbInv

\* Finding the block and removing it touch neither jobs nor resources.
LEMMA BlockStepsInv ==
    ASSUME ArbInv, \/ \E j \in Jobs : FindBlock(j)
                   \/ RemoveBlock
                   \/ BlockEofImpl
    PROVE  ArbInv'
<1>1. /\ UNCHANGED <<refs, midplaneJob, nodeJob, coreJob, status, info, timedOut>>
      /\ phase' \in [Jobs -> {"new", "found", "done"}]
      /\ \A k \in Jobs : phase'[k] = "done" <=> phase[k] = "done"
  BY DEF ArbInv, TypeOK, FindBlock, RemoveBlock, BlockEofImpl
<1>2. block' \in {"present", "removing", "removed"} /\ killed' \subseteq Jobs
  BY DEF ArbInv, TypeOK, FindBlock, RemoveBlock, BlockEofImpl
<1>3. TypeOK'
  BY <1>1, <1>2 DEF ArbInv, TypeOK
<1>4. Owned'
  BY <1>1, ZenonT(30) DEF ArbInv, Owned
<1>5. Claims' /\ FailedMarked'
  BY <1>1 DEF ArbInv, Claims, FailedMarked, Holds, Live
<1>6. Exclusive'
  BY <1>1, ZenonT(30) DEF ArbInv, Exclusive, Holds, Live, Uses
<1>7. QED
  BY <1>3, <1>4, <1>5, <1>6 DEF ArbInv

-----------------------------------------------------------------------------
(* Arbitration.                                                            *)

\* What is claimed for a job with the resources x.
ClaimedFor(j, x) ==
    /\ x.kind = "block" => \A m \in Midplanes : midplaneJob[m] = j
    /\ x.kind = "nodes" => \A n \in x.nodes : nodeJob[n] = j
    /\ x.kind = "core" => x.core \in Cores /\ \A n \in x.nodes : coreJob[n][x.core] = j

\* The cores of the resources x.
CoresOf(x) == x.nodes \X (IF x.kind = "core" THEN {x.core} ELSE Cores)

\* A new job keeps the invariant when it claims what it uses, takes no claim away and
\* shares no core with a job that holds some.
LEMMA GrantInv ==
    ASSUME ArbInv, NEW j \in Jobs, phase[j] = "found", NEW x \in Info,
           phase' = [phase EXCEPT ![j] = "done"],
           refs' = [refs EXCEPT ![j] = {"create"}],
           info' = [info EXCEPT ![j] = x],
           UNCHANGED <<status, timedOut, block, killed>>,
           midplaneJob' \in [Midplanes -> Jobs \cup {None}],
           nodeJob' \in [Nodes -> Jobs \cup {None}],
           coreJob' \in [Nodes -> [Cores -> Jobs \cup {None}]],
           x.accepted => ClaimedFor(j, x)',
           \A k \in Jobs : k # j /\ Holds(k) => ClaimedFor(k, info[k])',
           \A k \in Jobs : k # j /\ Holds(k) /\ x.accepted => CoresOf(x) \cap Uses(k) = {}
    PROVE  ArbInv'
<1>1. /\ \A k \in Jobs : refs'[k] = IF k = j THEN {"create"} ELSE refs[k]
      /\ \A k \in Jobs : info'[k] = IF k = j THEN x ELSE info[k]
      /\ \A k \in Jobs : phase'[k] = IF k = j THEN "done" ELSE phase[k]
  BY DEF ArbInv, TypeOK
<1>2. /\ refs' \in [Jobs -> SUBSET Owner] /\ info' \in [Jobs -> Info]
      /\ phase' \in [Jobs -> {"new", "found", "done"}]
  BY DEF ArbInv, TypeOK, Owner
<1>3. \A k \in Jobs : k # j => (Holds(k)' <=> Holds(k)) /\ Uses(k)' = Uses(k)
  BY <1>1, ZenonT(30) DEF Holds, Live, Uses
<1>4. Holds(j)' => x.accepted
  BY <1>1 DEF Holds
<1>5. Uses(j)' = CoresOf(x)
  BY <1>1 DEF Uses, CoresOf
<1>6. TypeOK'
  BY <1>2 DEF ArbInv, TypeOK
<1>7. Owned'
  <2>1. j \notin timedOut
    BY DEF ArbInv, Owned
  <2>2. QED
    BY <1>1, <2>1 DEF ArbInv, Owned
<1>8. Claims'
  <2>1. \A k \in Jobs : Holds(k)' => ClaimedFor(k, info[k])'
    BY <1>1, <1>3, <1>4
  <2>2. QED
    BY <2>1 DEF Claims, ClaimedFor
<1>9. FailedMarked'
  <2>1. \A k \in timedOut : k \in Jobs /\ k # j
    BY DEF ArbInv, TypeOK, Owned
  <2>2. QED
    BY <1>1, <2>1 DEF ArbInv, FailedMarked
<1>10. Exclusive'
  <2>1. \A k \in Jobs : k # j /\ Holds(j)' /\ Holds(k)' => Uses(j)' \cap Uses(k)' = {}
    BY <1>3, <1>4, <1>5
  <2>2. \A k, l \in Jobs : k # j /\ l # j /\ k # l /\ Holds(k)' /\ Holds(l)'
                           => Uses(k)' \cap Uses(l)' = {}
    BY <1>3 DEF ArbInv, Exclusive
  <2>3. QED
    BY <2>1, <2>2 DEF Exclusive
<1>11. QED
  BY <1>6, <1>7, <1>8, <1>9, <1>10 DEF ArbInv

\* A resource that is free is claimed by no job that holds something.
LEMMA FreeUnclaimed ==
    ASSUME ArbInv, NEW k \in Jobs, Holds(k)
    PROVE  /\ ClaimedFor(k, info[k])
           /\ info[k].kind \in {"block", "nodes", "core"} /\ info[k].nodes \subseteq Nodes
           /\ \A w : ~Runs(w) => w # k
BY NoneAssumption DEF ArbInv, TypeOK, Info, Claims, ClaimedFor, Holds, Runs

\* Compute::arbitrateFullBlock: no job holds anything when it succeeds.
LEMMA FullBlockInv ==
    ASSUME ArbInv, NEW j \in Jobs, NEW r \in Requests, phase[j] = "found",
           phase' = [phase EXCEPT ![j] = "done"],
           refs' = [refs EXCEPT ![j] = {"create"}],
           UNCHANGED <<status, timedOut, block, killed>>,
           ArbitrateFullBlock(j, r)
    PROVE  ArbInv'
<1> DEFINE x == Created(r, ValidateRanks(r, Cardinality(Nodes)), "block", Nodes, None,
                        Cardinality(Nodes), FullIo)
<1>1. x \in Info /\ x.kind = "block" /\ x.nodes = Nodes
  <2>1. {Link[n] : n \in Nodes} \ {None} \in SUBSET IoNodes
    BY LinkAssumption
  <2>2. FullIo \in SUBSET (IoNodes \X Nat)
    BY <2>1, ManagedType DEF FullIo
  <2>3. Cardinality(Nodes) \in Nat
    BY CardinalityNat
  <2>4. ValidateRanks(r, Cardinality(Nodes)) \in BOOLEAN
    BY DEF ValidateRanks
  <2>5. r \in Request
    BY RequestsAssumption
  <2>6. x \in Info
    BY <2>2, <2>3, <2>4, <2>5, CreatedType
  <2>7. QED
    BY <2>6 DEF Created
<1>2. info' = [info EXCEPT ![j] = x] /\ UNCHANGED <<nodeJob, coreJob>>
  BY DEF ArbitrateFullBlock
<1> HIDE DEF x
<1>3. \A m \in Midplanes : midplaneJob'[m] = j
  BY DEF ArbitrateFullBlock
<1>4. midplaneJob' \in [Midplanes -> Jobs \cup {None}]
  BY DEF ArbitrateFullBlock
<1>5. \A k \in Jobs : Holds(k) => info[k].nodes = {} /\ (info[k].kind = "block" => Midplanes = {})
  <2> SUFFICES ASSUME NEW k \in Jobs, Holds(k)
               PROVE  info[k].nodes = {} /\ (info[k].kind = "block" => Midplanes = {})
    OBVIOUS
  <2>1. /\ \A m \in Midplanes : midplaneJob[m] # k
        /\ \A n \in Nodes : nodeJob[n] # k /\ \A c \in Cores : coreJob[n][c] # k
    BY FreeUnclaimed DEF ArbitrateFullBlock, FullFits, MidplaneAvailable, NodeAvailable
  <2>0. ClaimedFor(k, info[k])
    BY FreeUnclaimed
  <2>2. info[k].kind = "block" => Midplanes = {}
    BY <2>0, <2>1 DEF ClaimedFor
  <2>3. info[k].nodes = {}
    BY <2>0, <2>1, <2>2, FreeUnclaimed DEF ClaimedFor, Nodes
  <2>4. QED
    BY <2>2, <2>3
<1>6. ClaimedFor(j, x)'
  BY <1>1, <1>3 DEF ClaimedFor
<1>7. \A k \in Jobs : k # j /\ Holds(k) => ClaimedFor(k, info[k])'
  <2> SUFFICES ASSUME NEW k \in Jobs, k # j, Holds(k)
               PROVE  ClaimedFor(k, info[k])'
    OBVIOUS
  <2>1. info'[k] = info[k]
    BY <1>2 DEF ArbInv, TypeOK
  <2>2. ClaimedFor(k, info[k])
    BY FreeUnclaimed
  <2>3. QED
    BY <1>2, <1>5, <2>1, <2>2 DEF ClaimedFor
<1>8. \A k \in Jobs : k # j /\ Holds(k) /\ x.accepted => CoresOf(x) \cap Uses(k) = {}
  BY <1>5 DEF Uses
<1>9. nodeJob' \in [Nodes -> Jobs \cup {None}] /\ coreJob' \in [Nodes -> [Cores -> Jobs \cup {None}]]
  BY <1>2 DEF ArbInv, TypeOK
<1>10. QED
  BY <1>1, <1>2, <1>4, <1>6, <1>7, <1>8, <1>9, GrantInv

\* A free midplane means that no full block job holds the block.
LEMMA NoBlockJob ==
    ASSUME ArbInv, NEW m \in Midplanes, MidplaneAvailable(m)
    PROVE  \A k \in Jobs : Holds(k) => info[k].kind # "block"
<1> TAKE k \in Jobs
<1> HAVE Holds(k)
<1>1. ClaimedFor(k, info[k]) /\ midplaneJob[m] # k
  BY FreeUnclaimed DEF MidplaneAvailable
<1>2. QED
  BY <1>1 DEF ClaimedFor

\* Midplane::addMultiNodeJob.
LEMMA MultiNodeInv ==
    ASSUME ArbInv, NEW j \in Jobs, NEW r \in Requests, NEW m \in Midplanes, phase[j] = "found",
           phase' = [phase EXCEPT ![j] = "done"],
           refs' = [refs EXCEPT ![j] = {"create"}],
           UNCHANGED <<status, timedOut, block, killed>>,
           AddMultiNodeJob(j, r, m)
    PROVE  ArbInv'
<1> DEFINE N == NodesOf(r, m)
           ios == Managed({Connected[n] : n \in N}, N)
           x == Created(r, TRUE, "nodes", N, None, ShapeSize(r), ios)
<1>1. N \in SUBSET Nodes
  BY NodesOfType
<1>2. \A n \in N : NodeAvailable(n)
  BY DEF AddMultiNodeJob
<1>3. \A n \in Nodes : nodeJob'[n] = IF n \in N THEN j ELSE nodeJob[n]
  BY DEF AddMultiNodeJob
<1>4. /\ nodeJob' \in [Nodes -> Jobs \cup {None}]
      /\ coreJob' \in [Nodes -> [Cores -> Jobs \cup {None}]]
      /\ midplaneJob' \in [Midplanes -> Jobs \cup {None}]
      /\ UNCHANGED <<midplaneJob, coreJob>>
  BY DEF AddMultiNodeJob, ArbInv, TypeOK
<1>5. info' = [info EXCEPT ![j] = x] /\ MidplaneAvailable(m)
  BY DEF AddMultiNodeJob, SubFits
<1> HIDE DEF N
<1>6. x \in Info /\ x.kind = "nodes" /\ x.nodes = N
  <2>1. {Connected[n] : n \in N} \in SUBSET IoNodes
    BY <1>1, LinkAssumption
  <2>2. ios \in SUBSET (IoNodes \X Nat)
    BY <1>1, <2>1, ManagedType
  <2> HIDE DEF ios
  <2>3. r \in Request
    BY RequestsAssumption
  <2>4. x \in Info
    BY <1>1, <2>2, <2>3, ShapeSizeNat, CreatedType
  <2>5. QED
    BY <2>4 DEF Created
<1> HIDE DEF x
<1>7. \A k \in Jobs : Holds(k) => info[k].kind # "block"
  BY <1>5, NoBlockJob
<1>8. \A k \in Jobs : Holds(k) => info[k].nodes \cap N = {}
  <2> SUFFICES ASSUME NEW k \in Jobs, Holds(k), NEW n \in info[k].nodes, n \in N PROVE FALSE
    OBVIOUS
  <2>1. nodeJob[n] # k /\ \A c \in Cores : coreJob[n][c] # k
    BY <1>2, FreeUnclaimed DEF NodeAvailable
  <2>2. ClaimedFor(k, info[k]) /\ info[k].kind \in {"nodes", "core"}
    BY <1>7, FreeUnclaimed
  <2>3. QED
    BY <2>1, <2>2 DEF ClaimedFor
<1>9. ClaimedFor(j, x)'
  BY <1>1, <1>3, <1>6 DEF ClaimedFor
<1>10. \A k \in Jobs : k # j /\ Holds(k) => ClaimedFor(k, info[k])'
  <2> SUFFICES ASSUME NEW k \in Jobs, k # j, Holds(k)
               PROVE  ClaimedFor(k, info[k])'
    OBVIOUS
  <2>1. info'[k] = info[k]
    BY <1>5 DEF ArbInv, TypeOK
  <2>2. ClaimedFor(k, info[k]) /\ info[k].nodes \subseteq Nodes
    BY FreeUnclaimed
  <2>3. QED
    BY <1>3, <1>4, <1>7, <1>8, <2>1, <2>2 DEF ClaimedFor
<1>11. \A k \in Jobs : k # j /\ Holds(k) /\ x.accepted => CoresOf(x) \cap Uses(k) = {}
  BY <1>6, <1>8 DEF Uses, CoresOf
<1>12. QED
  BY <1>4, <1>5, <1>6, <1>9, <1>10, <1>11, GrantInv

\* Midplane::addSingleCoreJob.
LEMMA SingleCoreInv ==
    ASSUME ArbInv, NEW j \in Jobs, NEW r \in Requests, NEW m \in Midplanes, phase[j] = "found",
           phase' = [phase EXCEPT ![j] = "done"],
           refs' = [refs EXCEPT ![j] = {"create"}],
           UNCHANGED <<status, timedOut, block, killed>>,
           AddSingleCoreJob(j, r, m)
    PROVE  ArbInv'
<1> DEFINE n == <<m, CornerIn(r, m)>>
           c == CoreOf(r)
           x == Created(r, TRUE, "core", {n}, c, ShapeSize(r), {<<Connected[n], 1>>})
<1>1. n \in Nodes /\ c \in Cores
  BY DEF AddSingleCoreJob, SubFits, ValidateCorner, CoreAvailable, Nodes
<1>2. nodeJob[n] = nodeJob[n] /\ ~Runs(nodeJob[n]) /\ ~Runs(coreJob[n][c])
  BY DEF AddSingleCoreJob, CoreAvailable
<1>3. coreJob' = [coreJob EXCEPT ![n][c] = j]
  BY DEF AddSingleCoreJob
<1>4. /\ nodeJob' \in [Nodes -> Jobs \cup {None}]
      /\ midplaneJob' \in [Midplanes -> Jobs \cup {None}]
      /\ UNCHANGED <<midplaneJob, nodeJob>>
  BY DEF AddSingleCoreJob, ArbInv, TypeOK
<1>5. info' = [info EXCEPT ![j] = x] /\ MidplaneAvailable(m)
  BY DEF AddSingleCoreJob, SubFits
<1> HIDE DEF n, c
<1>6. /\ \A y \in Nodes, d \in Cores :
             coreJob'[y][d] = IF y = n /\ d = c THEN j ELSE coreJob[y][d]
      /\ coreJob' \in [Nodes -> [Cores -> Jobs \cup {None}]]
  BY <1>1, <1>3 DEF ArbInv, TypeOK
<1>7. x \in Info /\ x.kind = "core" /\ x.nodes = {n} /\ x.core = c
  <2>1. {<<Connected[n], 1>>} \in SUBSET (IoNodes \X Nat)
    BY <1>1, LinkAssumption
  <2>2. r \in Request /\ {n} \in SUBSET Nodes /\ c \in Cores \cup {None}
    BY <1>1, RequestsAssumption
  <2>3. x \in Info
    BY <2>1, <2>2, ShapeSizeNat, CreatedType
  <2>4. QED
    BY <2>3 DEF Created
<1> HIDE DEF x
<1>8. \A k \in Jobs : Holds(k) => info[k].kind # "block"
  BY <1>5, NoBlockJob
<1>9. \A k \in Jobs : Holds(k) /\ n \in info[k].nodes => info[k].kind = "core" /\ info[k].core # c
  <2> SUFFICES ASSUME NEW k \in Jobs, Holds(k), n \in info[k].nodes
               PROVE  info[k].kind = "core" /\ info[k].core # c
    OBVIOUS
  <2>1. ClaimedFor(k, info[k]) /\ info[k].kind \in {"nodes", "core"}
    BY <1>8, FreeUnclaimed
  <2>2. nodeJob[n] # k /\ coreJob[n][c] # k
    BY <1>2, FreeUnclaimed
  <2>3. QED
    BY <2>1, <2>2 DEF ClaimedFor
<1>10. ClaimedFor(j, x)'
  BY <1>1, <1>6, <1>7 DEF ClaimedFor
<1>11. \A k \in Jobs : k # j /\ Holds(k) => ClaimedFor(k, info[k])'
  <2> SUFFICES ASSUME NEW k \in Jobs, k # j, Holds(k)
               PROVE  ClaimedFor(k, info[k])'
    OBVIOUS
  <2>1. info'[k] = info[k]
    BY <1>5 DEF ArbInv, TypeOK
  <2>2. ClaimedFor(k, info[k]) /\ info[k].nodes \subseteq Nodes
    BY FreeUnclaimed
  <2>3. QED
    <3>1. CASE info[k].kind = "core"
      <4>1. /\ info[k].core \in Cores
            /\ \A y \in info[k].nodes : coreJob[y][info[k].core] = k
        BY <2>2, <3>1 DEF ClaimedFor
      <4>2. \A y \in info[k].nodes : y \in Nodes /\ ~(y = n /\ info[k].core = c)
        BY <1>9, <2>2
      <4>3. \A y \in info[k].nodes : coreJob'[y][info[k].core] = k
        BY <1>6, <4>1, <4>2
      <4>4. QED
        BY <2>1, <3>1, <4>1, <4>3 DEF ClaimedFor
    <3>2. CASE info[k].kind = "nodes"
      BY <1>4, <2>1, <2>2, <3>2 DEF ClaimedFor
    <3>3. QED
      BY <1>8, <3>1, <3>2, FreeUnclaimed
<1>12. \A k \in Jobs : k # j /\ Holds(k) /\ x.accepted => CoresOf(x) \cap Uses(k) = {}
  BY <1>7, <1>9 DEF Uses, CoresOf
<1>13. QED
  BY <1>4, <1>5, <1>6, <1>7, <1>10, <1>11, <1>12, GrantInv, ZenonT(30)

\* A refused submission claims nothing.
LEMMA RefuseInv ==
    ASSUME ArbInv, NEW j \in Jobs, NEW r \in Requests, phase[j] = "found",
           phase' = [phase EXCEPT ![j] = "done"],
           refs' = [refs EXCEPT ![j] = {"create"}],
           UNCHANGED <<status, timedOut, block, killed>>,
           Refuse(j, r)
    PROVE  ArbInv'
<1> DEFINE x == info[j]
<1>1. x \in Info /\ ~x.accepted
  BY DEF ArbInv, TypeOK, Owned
<1>2. info' = [info EXCEPT ![j] = x]
  BY DEF Refuse, ArbInv, TypeOK
<1>3. UNCHANGED <<info, midplaneJob, nodeJob, coreJob>>
  BY DEF Refuse
<1>4. /\ midplaneJob' \in [Midplanes -> Jobs \cup {None}]
      /\ nodeJob' \in [Nodes -> Jobs \cup {None}]
      /\ coreJob' \in [Nodes -> [Cores -> Jobs \cup {None}]]
  BY <1>3 DEF ArbInv, TypeOK
<1>5. \A k \in Jobs : k # j /\ Holds(k) => ClaimedFor(k, info[k])'
  BY <1>3, FreeUnclaimed, ZenonT(30) DEF ClaimedFor
<1> HIDE DEF x
<1>6. QED
  BY <1>1, <1>2, <1>4, <1>5, GrantInv

\* Compute::arbitrateImpl keeps the invariant, whatever it decides.
LEMMA ArbitrateInv ==
    ASSUME ArbInv, NEW j \in Jobs, ArbitrateImpl(j)
    PROVE  ArbInv'
<1>1. PICK r \in Requests : \/ ArbitrateFullBlock(j, r)
                            \/ \E m \in Midplanes : AddMultiNodeJob(j, r, m)
                            \/ \E m \in Midplanes : AddSingleCoreJob(j, r, m)
                            \/ Refuse(j, r)
  BY DEF ArbitrateImpl
<1>2. /\ phase[j] = "found" /\ phase' = [phase EXCEPT ![j] = "done"]
      /\ refs' = [refs EXCEPT ![j] = {"create"}]
      /\ UNCHANGED <<status, timedOut, block, killed>>
  BY DEF ArbitrateImpl
<1>3. QED
  BY <1>1, <1>2, FullBlockInv, MultiNodeInv, SingleCoreInv, RefuseInv

\* A block nobody was submitted to satisfies the invariant.
LEMMA InitInv == Init => ArbInv
<1> SUFFICES ASSUME Init PROVE ArbInv
  OBVIOUS
<1>1. NoInfo \in Info /\ ~NoInfo.accepted
  BY DEF NoInfo, Info
<1> HIDE DEF NoInfo
<1>2. TypeOK
  BY <1>1 DEF Init, TypeOK
<1>3. \A j \in Jobs : refs[j] = {} /\ ~info[j].accepted
  BY <1>1 DEF Init
<1>4. QED
  BY <1>2, <1>3 DEF Init, ArbInv, Owned, Claims, FailedMarked, Exclusive, Holds, Live

\* Every step keeps the invariant.
LEMMA NextInv == ArbInv /\ [Next]_vars => ArbInv'
<1> SUFFICES ASSUME ArbInv, [Next]_vars PROVE ArbInv'
  OBVIOUS
<1>1. CASE UNCHANGED vars
  <2>1. TypeOK'
    BY <1>1 DEF vars, ArbInv, TypeOK
  <2>2. \A j \in Jobs : (Holds(j)' <=> Holds(j)) /\ Uses(j)' = Uses(j)
    BY <1>1 DEF vars, Holds, Live, Uses
  <2>3. Owned'
    BY <1>1 DEF vars, ArbInv, Owned
  <2>4. Claims'
    BY <1>1, <2>2 DEF vars, ArbInv, Claims
  <2>5. FailedMarked'
    BY <1>1 DEF vars, ArbInv, FailedMarked
  <2>6. Exclusive'
    BY <2>2 DEF ArbInv, Exclusive
  <2>7. QED
    BY <2>1, <2>3, <2>4, <2>5, <2>6 DEF ArbInv
<1>2. CASE \E j \in Jobs : ArbitrateImpl(j)
  BY <1>2, ArbitrateInv
<1>3. CASE \E j \in Jobs : UnavailableJobImpl(j)
  BY <1>3, UnavailableInv
<1>4. CASE \/ \E j \in Jobs : FindBlock(j)
           \/ RemoveBlock
           \/ BlockEofImpl
  BY <1>4, BlockStepsInv
<1>5. CASE \E j \in Jobs : \/ CreateDestroyed(j) \/ AddImpl(j) \/ RemoveImpl(j)
                           \/ KillTimerStart(j) \/ KillTimerAborted(j) \/ KillTimerHandler(j)
  BY <1>5, OwnerStepsInv
<1>6. QED
  BY <1>1, <1>2, <1>3, <1>4, <1>5 DEF Next

-----------------------------------------------------------------------------
(* The theorems.                                                           *)

\* The resources of a live job lead to it, for every block, mix of requests and order
\* of the handlers.
THEOREM ArbitrationInvariant == Spec => []ArbInv
BY InitInv, NextInv, PTL DEF Spec

\* Two jobs never run on the same core of the same node.
THEOREM ArbitrationExclusive == Spec => []Exclusive
<1>1. ArbInv => Exclusive
  BY DEF ArbInv
<1>2. QED
  BY <1>1, ArbitrationInvariant, PTL

\* Every variable keeps its type.
THEOREM ArbitrationTypes == Spec => []TypeOK
<1>1. ArbInv => TypeOK
  BY DEF ArbInv
<1>2. QED
  BY <1>1, ArbitrationInvariant, PTL

\* Nodes that arbitration finds available, on midplanes it finds available, are no
\* nodes of a full block or sub-block job that timed out.
LEMMA AvailableNotFailed ==
    ASSUME ArbInv, NEW N \in SUBSET Nodes,
           \A n \in N : NodeAvailable(n) /\ MidplaneAvailable(n[1]),
           NEW j \in timedOut, info[j].kind # "core"
    PROVE  info[j].nodes \cap N = {}
<1> SUFFICES ASSUME NEW n \in info[j].nodes, n \in N PROVE FALSE
  OBVIOUS
<1>1. status[n] = "Available" /\ ~Runs(nodeJob[n]) /\ ~Runs(midplaneJob[n[1]])
  BY DEF NodeAvailable, MidplaneAvailable
<1>2. j \in Jobs
  BY DEF ArbInv, TypeOK
<1>3. Holds(j)
  BY <1>1, <1>2 DEF ArbInv, FailedMarked, Holds, Live
<1>4. n[1] \in Midplanes
  BY DEF Nodes
<1>5. QED
  <2>1. ClaimedFor(j, info[j]) /\ info[j].kind \in {"block", "nodes"}
    BY <1>2, <1>3, FreeUnclaimed
  <2>2. nodeJob[n] # j /\ midplaneJob[n[1]] # j
    BY <1>1, <1>2, <1>3, FreeUnclaimed
  <2>3. QED
    BY <1>4, <2>1, <2>2 DEF ClaimedFor

\* No later full block or sub-block job gets a node of one that timed out.
THEOREM ArbitrationFailedNodes == Spec => FailedNodesNotGiven
<1> DEFINE P == \A j \in timedOut, k \in Jobs :
                    Accepts(k) /\ info[j].kind # "core" /\ info'[k].kind # "core"
                    => info[j].nodes \cap info'[k].nodes = {}
<1>1. ArbInv /\ [Next]_vars => [P]_vars
  <2> SUFFICES ASSUME ArbInv, [Next]_vars, NEW j \in timedOut, NEW k \in Jobs, Accepts(k),
                      info[j].kind # "core", info'[k].kind # "core"
               PROVE  info[j].nodes \cap info'[k].nodes = {}
    OBVIOUS
  <2>1. phase[k] = "found" /\ info'[k].accepted /\ ~info[k].accepted
    BY DEF Accepts, ArbInv, Owned
  <2>2. PICK i \in Jobs : ArbitrateImpl(i)
    BY <2>1 DEF Next, vars, FindBlock, CreateDestroyed, AddImpl, RemoveImpl, KillTimerStart,
                KillTimerAborted, KillTimerHandler, Owners, UnavailableJobImpl, RemoveBlock,
                BlockEofImpl
  <2>3. PICK r \in Requests : \/ ArbitrateFullBlock(i, r)
                              \/ \E m \in Midplanes : AddMultiNodeJob(i, r, m)
                              \/ \E m \in Midplanes : AddSingleCoreJob(i, r, m)
                              \/ Refuse(i, r)
    BY <2>2 DEF ArbitrateImpl
  <2>4. \A x : info' = [info EXCEPT ![i] = x] => i = k /\ info'[k] = x
    BY <2>1 DEF ArbInv, TypeOK
  <2>5. CASE ArbitrateFullBlock(i, r)
    <3> DEFINE x == Created(r, ValidateRanks(r, Cardinality(Nodes)), "block", Nodes, None,
                            Cardinality(Nodes), FullIo)
    <3>1. info'[k].nodes = Nodes
      <4>1. info' = [info EXCEPT ![i] = x] /\ x.nodes = Nodes
        BY <2>5 DEF ArbitrateFullBlock, Created
      <4> HIDE DEF x
      <4>2. QED
        BY <2>4, <4>1
    <3>2. \A n \in Nodes : NodeAvailable(n) /\ MidplaneAvailable(n[1])
      BY <2>5 DEF ArbitrateFullBlock, FullFits, Nodes
    <3>3. QED
      BY <3>1, <3>2, AvailableNotFailed
  <2>6. CASE \E m \in Midplanes : AddMultiNodeJob(i, r, m)
    <3>1. PICK m \in Midplanes : AddMultiNodeJob(i, r, m)
      BY <2>6
    <3> DEFINE x == Created(r, TRUE, "nodes", NodesOf(r, m), None, ShapeSize(r),
                            Managed({Connected[n] : n \in NodesOf(r, m)}, NodesOf(r, m)))
    <3>2a. info' = [info EXCEPT ![i] = x] /\ x.nodes = NodesOf(r, m)
      BY <3>1 DEF AddMultiNodeJob, Created
    <3> HIDE DEF x
    <3>2. info'[k].nodes = NodesOf(r, m)
      BY <2>4, <3>2a
    <3>3. \A n \in NodesOf(r, m) : NodeAvailable(n) /\ MidplaneAvailable(n[1])
      BY <3>1 DEF AddMultiNodeJob, SubFits, NodesOf
    <3>4. NodesOf(r, m) \in SUBSET Nodes
      BY NodesOfType
    <3>5. info[j].nodes \cap NodesOf(r, m) = {}
      <4> HIDE DEF NodesOf, NodeAvailable, MidplaneAvailable
      <4>1. QED
        BY <3>3, <3>4, AvailableNotFailed
    <3>6. QED
      BY <3>2, <3>5
  <2>7. CASE \E m \in Midplanes : AddSingleCoreJob(i, r, m)
    <3>1. PICK m \in Midplanes : AddSingleCoreJob(i, r, m)
      BY <2>7
    <3> DEFINE x == Created(r, TRUE, "core", {<<m, CornerIn(r, m)>>}, CoreOf(r), ShapeSize(r),
                            {<<Connected[<<m, CornerIn(r, m)>>], 1>>})
    <3>2. info' = [info EXCEPT ![i] = x] /\ x.kind = "core"
      BY <3>1 DEF AddSingleCoreJob, Created
    <3> HIDE DEF x
    <3>3. QED
      BY <2>4, <3>2
  <2>8. CASE Refuse(i, r)
    BY <2>1, <2>8 DEF Refuse
  <2>9. QED
    BY <2>3, <2>5, <2>6, <2>7, <2>8
<1>2. QED
  BY <1>1, ArbitrationInvariant, PTL DEF Spec, FailedNodesNotGiven

\* Every node an accepted job was given has its I/O node in the job, with the right
\* number of nodes to wait for.
THEOREM ArbitrationNodesServed == Spec => []NodesServed
<1>1. Init => NodesServed
  <2>1. ~NoInfo.accepted
    BY DEF NoInfo
  <2> HIDE DEF NoInfo
  <2>2. QED
    BY <2>1 DEF Init, NodesServed
<1>2. NodesServed /\ ArbInv /\ [Next]_vars => NodesServed'
  <2> SUFFICES ASSUME NodesServed, ArbInv, [Next]_vars PROVE NodesServed'
    OBVIOUS
  <2> DEFINE Served(x) ==
               \A n \in x.nodes :
                   <<Connected[n], Cardinality({y \in x.nodes : Connected[y] = Connected[n]})>>
                       \in x.io
  <2>1. ASSUME NEW i \in Jobs, NEW x, info' = [info EXCEPT ![i] = x], Served(x)
        PROVE  NodesServed'
    <3>1. \A j \in Jobs : info'[j] = IF j = i THEN x ELSE info[j]
      BY <2>1 DEF ArbInv, TypeOK
    <3>2. \A j \in Jobs : info[j].accepted => Served(info[j])
      BY DEF NodesServed
    <3>3. \A j \in Jobs : info'[j].accepted => Served(info'[j])
      <4> TAKE j \in Jobs
      <4> HIDE DEF Served
      <4>1. CASE j = i
        BY <2>1, <3>1, <4>1
      <4>2. CASE j # i
        BY <3>1, <3>2, <4>2
      <4>3. QED
        BY <4>1, <4>2
    <3>4. QED
      BY <3>3 DEF NodesServed
  <2> DEFINE Full(r) == Created(r, ValidateRanks(r, Cardinality(Nodes)), "block", Nodes, None,
                                Cardinality(Nodes), FullIo)
             Multi(r, m) == Created(r, TRUE, "nodes", NodesOf(r, m), None, ShapeSize(r),
                                    Managed({Connected[n] : n \in NodesOf(r, m)}, NodesOf(r, m)))
             Single(r, m) == Created(r, TRUE, "core", {<<m, CornerIn(r, m)>>}, CoreOf(r),
                                     ShapeSize(r), {<<Connected[<<m, CornerIn(r, m)>>], 1>>})
  <2>2. ASSUME NEW r PROVE Served(Full(r))
    <3>1. Full(r).nodes = Nodes /\ Full(r).io = FullIo
      BY DEF Created
    <3>2. \A n \in Nodes : Connected[n] \in {Link[l] : l \in Nodes} \ {None}
      BY ConnectedAssumption, LinkAssumption, NoneAssumption
    <3> HIDE DEF Full
    <3>3. QED
      <4> DEFINE L == {Link[l] : l \in Nodes} \ {None}
      <4>1. \A n \in Nodes : Connected[n] \in L
        BY <3>2
      <4>2. FullIo = Managed(L, Nodes)
        BY DEF FullIo
      <4> HIDE DEF L
      <4>3. QED
        BY <3>1, <4>1, <4>2 DEF Managed
  <2>3. ASSUME NEW r, NEW m PROVE Served(Multi(r, m))
    <3> DEFINE N == NodesOf(r, m)
    <3>1. Multi(r, m).nodes = N /\ Multi(r, m).io = Managed({Connected[n] : n \in N}, N)
      BY DEF Created
    <3> HIDE DEF Multi, N
    <3>2. QED
      BY <3>1 DEF Managed
  <2>4. ASSUME NEW r, NEW m PROVE Served(Single(r, m))
    <3> DEFINE n == <<m, CornerIn(r, m)>>
    <3>1. Single(r, m).nodes = {n} /\ Single(r, m).io = {<<Connected[n], 1>>}
      BY DEF Created
    <3> HIDE DEF Single, n
    <3>2. {y \in {n} : Connected[y] = Connected[n]} = {n}
      OBVIOUS
    <3>3. Cardinality({n}) = 1
      BY FS_Singleton
    <3>4. QED
      BY <3>1, <3>2, <3>3
  <2>5. CASE \E i \in Jobs : ArbitrateImpl(i)
    <3>1. PICK i \in Jobs, r \in Requests :
              \/ ArbitrateFullBlock(i, r)
              \/ \E m \in Midplanes : AddMultiNodeJob(i, r, m)
              \/ \E m \in Midplanes : AddSingleCoreJob(i, r, m)
              \/ Refuse(i, r)
      BY <2>5 DEF ArbitrateImpl
    <3>2. ArbitrateFullBlock(i, r) => info' = [info EXCEPT ![i] = Full(r)]
      BY DEF ArbitrateFullBlock
    <3>3. \A m \in Midplanes : AddMultiNodeJob(i, r, m) => info' = [info EXCEPT ![i] = Multi(r, m)]
      BY DEF AddMultiNodeJob
    <3>4. \A m \in Midplanes : AddSingleCoreJob(i, r, m) => info' = [info EXCEPT ![i] = Single(r, m)]
      BY DEF AddSingleCoreJob
    <3>5. Refuse(i, r) => NodesServed'
      BY DEF Refuse, NodesServed
    <3> HIDE DEF Full, Multi, Single, Served
    <3>6. QED
      BY <2>1, <2>2, <2>3, <2>4, <3>1, <3>2, <3>3, <3>4, <3>5, ZenonT(30)
  <2>6. CASE UNCHANGED info
    BY <2>6 DEF NodesServed
  <2>7. QED
    BY <2>5, <2>6 DEF Next, vars, FindBlock, CreateDestroyed, AddImpl, RemoveImpl, KillTimerStart,
                      KillTimerAborted, KillTimerHandler, Owners, UnavailableJobImpl, RemoveBlock,
                      BlockEofImpl
<1>3. QED
  BY <1>1, <1>2, ArbitrationInvariant, PTL DEF Spec

-----------------------------------------------------------------------------
(***************************************************************************)
(* The ranks of every accepted job fit on its nodes: the size that Compute *)
(* and Midplane check against is the number of nodes that the job gets.    *)
(***************************************************************************)

\* A shape that stays inside its midplane names as many nodes as it has: moving the
\* shape to the corner loses none of them.
LEMMA BoxSize ==
    ASSUME NEW r \in Request, NEW m \in Midplanes,
           ValidateCorner(r, m), ValidateShape(r, m)
    PROVE  Cardinality(NodesOf(r, m)) = ShapeSize(r)
<1> DEFINE k == CornerIn(r, m)
           S == {c \in [Dims -> 0 .. 3] : \A d \in Dims : c[d] < r.shape[d]}
           T == NodesOf(r, m)
           F == [c \in S |-> <<m, [d \in Dims |-> k[d] + c[d]]>>]
<1>k. /\ k \in [Dims -> 0 .. 3] /\ \A d \in Dims : k[d] + r.shape[d] <= Extent[d]
      /\ r.shape \in [Dims -> Nat \ {0}]
  BY DEF ValidateCorner, ValidateShape, Coords, Request
<1>n. T = {<<m, c>> : c \in {x \in Coords : \A d \in Dims :
                                x[d] \in k[d] .. (k[d] + r.shape[d] - 1)}}
  BY DEF NodesOf
<1> HIDE DEF k, T
<1>1. \A c \in S : F[c] \in T
  <2> TAKE c \in S
  <2> DEFINE x == [d \in Dims |-> k[d] + c[d]]
  <2>1. \A d \in Dims : /\ x[d] \in 0 .. 3 /\ x[d] < Extent[d]
                        /\ x[d] \in k[d] .. (k[d] + r.shape[d] - 1)
    <3> TAKE d \in Dims
    <3>1. /\ k[d] \in 0 .. 3 /\ c[d] \in 0 .. 3 /\ c[d] < r.shape[d] /\ r.shape[d] \in Nat
          /\ k[d] + r.shape[d] <= Extent[d] /\ Extent[d] \in 0 .. 4
      BY <1>k, ExtentAssumption
    <3> QED
      BY <3>1
  <2>2. x \in Coords
    BY <2>1 DEF Coords
  <2> QED
    BY <1>n, <2>1, <2>2
<1>2. \A a, b \in S : F[a] = F[b] => a = b
  <2> SUFFICES ASSUME NEW a \in S, NEW b \in S, F[a] = F[b] PROVE a = b
    OBVIOUS
  <2>1. [d \in Dims |-> k[d] + a[d]] = [d \in Dims |-> k[d] + b[d]]
    OBVIOUS
  <2>2. \A d \in Dims : k[d] + a[d] = k[d] + b[d]
    BY <2>1
  <2>3. \A d \in Dims : a[d] = b[d]
    BY <2>2, <1>k
  <2> QED
    BY <2>3
<1>3. \A t \in T : \E c \in S : F[c] = t
  <2> SUFFICES ASSUME NEW t \in T PROVE \E c \in S : F[c] = t
    OBVIOUS
  <2>1. PICK x \in Coords : /\ t = <<m, x>>
                            /\ \A d \in Dims : x[d] \in k[d] .. (k[d] + r.shape[d] - 1)
    BY <1>n
  <2> DEFINE c == [d \in Dims |-> x[d] - k[d]]
  <2>2. \A d \in Dims : /\ c[d] \in 0 .. 3 /\ c[d] < r.shape[d]
                        /\ k[d] + c[d] = x[d]
    <3> TAKE d \in Dims
    <3>1. /\ k[d] \in 0 .. 3 /\ x[d] \in 0 .. 3 /\ r.shape[d] \in Nat
          /\ x[d] \in k[d] .. (k[d] + r.shape[d] - 1)
      BY <1>k, <2>1 DEF Coords
    <3> QED
      BY <3>1
  <2>3. c \in S
    BY <2>2
  <2>4. [d \in Dims |-> k[d] + c[d]] = x
    BY <2>2, <2>1 DEF Coords
  <2> QED
    BY <2>1, <2>3, <2>4
<1>4. IsFiniteSet(S)
  <2>1. S \subseteq [Dims -> 0 .. 3]
    OBVIOUS
  <2> HIDE DEF S
  <2> QED
    BY <2>1, FiniteAssumption, FS_Subset
<1>5. ShapeSize(r) = Cardinality(S)
  BY DEF ShapeSize
<1>6. F \in Bijection(S, T)
  <2>1. F \in [S -> T]
    BY <1>1
  <2> HIDE DEF F, S
  <2> QED
    BY <1>2, <1>3, <2>1, Fun_IsBij
<1> HIDE DEF S, F
<1>7. ExistsBijection(S, T)
  BY <1>6, Fun_ExistsBij
<1>8. Cardinality(T) = Cardinality(S)
  BY <1>4, <1>7, FS_Bijection
<1> QED
  BY <1>5, <1>8 DEF T

\* A core's shape is one node.
LEMMA CoreSize ==
    ASSUME NEW r, \A d \in Dims : r.shape[d] = 1
    PROVE  ShapeSize(r) = 1
<1> DEFINE S == {c \in [Dims -> 0 .. 3] : \A d \in Dims : c[d] < r.shape[d]}
           o == [d \in Dims |-> 0]
<1>1. \A c \in [Dims -> 0 .. 3] : (\A d \in Dims : c[d] < r.shape[d]) <=> c = o
  <2> TAKE c \in [Dims -> 0 .. 3]
  <2>1. (\A d \in Dims : c[d] < r.shape[d]) <=> \A d \in Dims : c[d] = 0
    OBVIOUS
  <2> QED
    BY <2>1
<1>2. S = {o}
  <2>1. o \in [Dims -> 0 .. 3]
    OBVIOUS
  <2> HIDE DEF o
  <2> QED
    BY <1>1, <2>1
<1>3. Cardinality({o}) = 1
  BY FS_Singleton
<1> QED
  BY <1>2, <1>3 DEF ShapeSize

\* RanksFit, of one job.
Fits(x) ==
    /\ x.np \in 1 .. Cardinality(x.nodes) * x.ranks
    /\ x.stdin < x.np
    /\ x.strace # None => x.strace < x.np

\* The checks of Compute and Midplane are enough when the size they used is the
\* number of nodes that the job got.
LEMMA CreatedFits ==
    ASSUME NEW r \in Request, NEW ok, NEW kind, NEW nodes, NEW core, NEW size \in Nat, NEW ios,
           NpFits(r), ValidateNp(r, size), ValidateRanks(r, size), Cardinality(nodes) = size
    PROVE  Fits(Created(r, ok, kind, nodes, core, size, ios))
<1> DEFINE x == Created(r, ok, kind, nodes, core, size, ios)
           p == size * r.ranks
<1>1. r.np \in Nat /\ r.ranks \in Nat /\ r.stdin \in Nat /\ r.strace \in Nat \cup {None}
  BY DEF Request
<1>2. p \in Nat
  BY <1>1
<1>3. /\ x.np = IF r.np = 0 THEN p ELSE r.np
      /\ Cardinality(x.nodes) * x.ranks = p
      /\ x.stdin = r.stdin /\ x.strace = r.strace
  BY DEF Created
<1>4. /\ r.np # 0 => r.stdin < r.np
      /\ r.np # 0 /\ r.strace # None => r.strace < r.np
      /\ r.np <= p /\ r.stdin < p
      /\ r.strace # None => r.strace < p
  BY DEF NpFits, ValidateStdinNp, ValidateStraceNp, ValidateNp, ValidateRanks
<1> HIDE DEF x, p
<1>5. Fits(x)
  BY <1>1, <1>2, <1>3, <1>4 DEF Fits
<1> QED
  BY <1>5 DEF x

\* An accepted job has ranks, they fit on its nodes, and its stdin and strace ranks
\* are among them, for every block and every request.
THEOREM ArbitrationRanksFit == Spec => []RanksFit
<1>1. Init => RanksFit
  <2>1. ~NoInfo.accepted
    BY DEF NoInfo
  <2> HIDE DEF NoInfo
  <2> QED
    BY <2>1 DEF Init, RanksFit
<1>2. RanksFit /\ ArbInv /\ [Next]_vars => RanksFit'
  <2> SUFFICES ASSUME RanksFit, ArbInv, [Next]_vars PROVE RanksFit'
    OBVIOUS
  <2>1. ASSUME NEW i \in Jobs, NEW x, info' = [info EXCEPT ![i] = x],
               x.accepted => Fits(x)
        PROVE  RanksFit'
    <3>1. \A j \in Jobs : info'[j] = IF j = i THEN x ELSE info[j]
      BY <2>1 DEF ArbInv, TypeOK
    <3>2. \A j \in Jobs : info[j].accepted => Fits(info[j])
      BY DEF RanksFit, Fits
    <3>3. \A j \in Jobs : info'[j].accepted => Fits(info'[j])
      BY <2>1, <3>1, <3>2
    <3> QED
      BY <3>3 DEF RanksFit, Fits
  <2>2. ASSUME NEW i \in Jobs, NEW r \in Requests, ArbitrateFullBlock(i, r)
        PROVE  RanksFit'
    <3> DEFINE ok == ValidateRanks(r, Cardinality(Nodes))
               x == Created(r, ok, "block", Nodes, None, Cardinality(Nodes), FullIo)
    <3>1. info' = [info EXCEPT ![i] = x] /\ x.accepted = ok
      BY <2>2 DEF ArbitrateFullBlock, Created
    <3>2. NpFits(r) /\ ValidateNp(r, Cardinality(Nodes)) /\ r \in Request
      BY <2>2, RequestsAssumption DEF ArbitrateFullBlock, FullFits
    <3>3. Cardinality(Nodes) \in Nat
      BY CardinalityNat
    <3>4. ok => Fits(x)
      <4> HIDE DEF FullIo
      <4> QED
        BY <3>2, <3>3, CreatedFits
    <3> HIDE DEF x
    <3> QED
      BY <2>1, <3>1, <3>4
  <2>3. ASSUME NEW i \in Jobs, NEW r \in Requests, NEW m \in Midplanes, AddMultiNodeJob(i, r, m)
        PROVE  RanksFit'
    <3> DEFINE ios == Managed({Connected[n] : n \in NodesOf(r, m)}, NodesOf(r, m))
               x == Created(r, TRUE, "nodes", NodesOf(r, m), None, ShapeSize(r), ios)
    <3>1. info' = [info EXCEPT ![i] = x]
      BY <2>3 DEF AddMultiNodeJob
    <3>2. /\ NpFits(r) /\ ValidateNp(r, ShapeSize(r)) /\ ValidateRanks(r, ShapeSize(r))
          /\ ValidateCorner(r, m) /\ ValidateShape(r, m) /\ r \in Request
      BY <2>3, RequestsAssumption DEF AddMultiNodeJob, SubFits
    <3> HIDE DEF ios
    <3>3. Fits(x)
      BY <3>2, ShapeSizeNat, BoxSize, CreatedFits
    <3> HIDE DEF x
    <3> QED
      BY <2>1, <3>1, <3>3
  <2>4. ASSUME NEW i \in Jobs, NEW r \in Requests, NEW m \in Midplanes, AddSingleCoreJob(i, r, m)
        PROVE  RanksFit'
    <3> DEFINE n == <<m, CornerIn(r, m)>>
               x == Created(r, TRUE, "core", {n}, CoreOf(r), ShapeSize(r), {<<Connected[n], 1>>})
    <3>1. info' = [info EXCEPT ![i] = x]
      BY <2>4 DEF AddSingleCoreJob
    <3>2. /\ NpFits(r) /\ ValidateNp(r, ShapeSize(r)) /\ ValidateRanks(r, ShapeSize(r))
          /\ r \in Request
      BY <2>4, RequestsAssumption DEF AddSingleCoreJob, SubFits
    <3>3. r.core # None
      BY <2>4, NoneAssumption DEF AddSingleCoreJob, CoreAvailable, CoreOf
    <3> HIDE DEF n
    <3>4. Cardinality({n}) = ShapeSize(r)
      BY <3>3, CoreShapeAssumption, CoreSize, FS_Singleton
    <3>5. Fits(x)
      BY <3>2, <3>4, ShapeSizeNat, CreatedFits
    <3> HIDE DEF x
    <3> QED
      BY <2>1, <3>1, <3>5
  <2>5. ASSUME NEW i \in Jobs, NEW r \in Requests, Refuse(i, r)
        PROVE  RanksFit'
    BY <2>5 DEF Refuse, RanksFit
  <2>6. CASE \E i \in Jobs : ArbitrateImpl(i)
    BY <2>2, <2>3, <2>4, <2>5, <2>6, ZenonT(30) DEF ArbitrateImpl
  <2>7. CASE UNCHANGED info
    BY <2>7 DEF RanksFit
  <2> QED
    BY <2>6, <2>7 DEF Next, vars, FindBlock, CreateDestroyed, AddImpl, RemoveImpl, KillTimerStart,
                      KillTimerAborted, KillTimerHandler, Owners, UnavailableJobImpl, RemoveBlock,
                      BlockEofImpl
<1> QED
  BY <1>1, <1>2, ArbitrationInvariant, PTL DEF Spec

-----------------------------------------------------------------------------
(***************************************************************************)
(* JobHeartbeat, for any I/O nodes and tools: it ends a job for want of    *)
(* tools only when each node was once without an active one, and for want  *)
(* of an answer only when it holds no count of some node.                  *)
(***************************************************************************)

BeatType == [status : [ToolNodes -> Counts],
             cycles : 0 .. 2, stopped : BOOLEAN,
             job : {"killed", "no tools", "no answer", "ended"}]

\* A node whose count is 0, or may be reported as 0, was without an active tool.
IdleInv ==
    \A n \in ToolNodes :
        /\ tools[n] = 0 \/ n \notin known => n \in idle
        /\ \A i \in 1 .. Len(answers[n]) : answers[n][i] = 0 => n \in idle
        /\ beat.status[n] = 0 => n \in idle

HeartbeatInv == EndedForCause /\ IdleInv

\* Heartbeat::sum is 0 only when every node has reported 0.
LEMMA SumZero ==
    ASSUME NEW latest \in [ToolNodes -> Counts], sum(latest) = 0,
           NEW n \in ToolNodes
    PROVE  latest[n] = 0
<1>1. /\ \A m \in ToolNodes : latest[m] # Unreported
      /\ Cardinality(Reported(latest)) = 0
  BY DEF sum, Unreported
<1>2. IsFiniteSet(ToolNodes \X (1 .. MaxTools))
  <2>1. IsFiniteSet(ToolNodes) /\ 1 \in Int /\ MaxTools \in Int
    BY HeartbeatAssumption
  <2>2. IsFiniteSet(1 .. MaxTools)
    BY <2>1, FS_Interval
  <2> QED
    BY <2>1, <2>2, FS_Product
<1>3. Reported(latest) \subseteq ToolNodes \X (1 .. MaxTools)
  BY DEF Reported
<1>4. Reported(latest) = {}
  BY <1>1, <1>2, <1>3, FS_Subset, FS_EmptySet
<1>5. latest[n] \in 0 .. MaxTools
  BY <1>1 DEF Counts
<1>6. SUFFICES ASSUME latest[n] # 0 PROVE FALSE
  OBVIOUS
<1>7. 1 \in 1 .. MaxTools /\ 1 <= latest[n]
  BY <1>5, <1>6, HeartbeatAssumption
<1>8. <<n, 1>> \in Reported(latest)
  BY <1>7 DEF Reported
<1> QED
  BY <1>4, <1>8

LEMMA FrontTaken ==
    ASSUME NEW S, NEW s \in Seq(S), s # <<>>
    PROVE  /\ Head(s) \in S /\ Head(s) = s[1] /\ Tail(s) \in Seq(S) /\ 1 \in 1 .. Len(s)
           /\ \A i \in 1 .. Len(Tail(s)) : i + 1 \in 1 .. Len(s) /\ Tail(s)[i] = s[i + 1]
<1>1. Len(s) \in Nat \ {0} /\ Tail(s) \in Seq(S) /\ Len(Tail(s)) = Len(s) - 1
  OBVIOUS
<1>2. Head(s) = s[1] /\ 1 \in 1 .. Len(s) /\ s[1] \in S
  BY <1>1
<1>3. ASSUME NEW i \in 1 .. Len(Tail(s))
      PROVE  i + 1 \in 1 .. Len(s) /\ Tail(s)[i] = s[i + 1]
  BY <1>1
<1> QED
  BY <1>1, <1>2, <1>3

LEMMA HeartbeatInitially == HeartbeatInit => HeartbeatInv
<1> SUFFICES ASSUME HeartbeatInit PROVE HeartbeatInv
  OBVIOUS
<1>1. /\ 0 \in 0 .. MaxAsked /\ 0 \in 0 .. 2 /\ 0 \in 0 .. MaxStirred
      /\ <<>> \in Seq(Counts) /\ Len(<<>>) = 0 /\ Unreported # 0
  BY HeartbeatAssumption DEF Unreported
<1>2. beat \in BeatType /\ beat.job = "killed" /\ \A n \in ToolNodes : beat.status[n] = Unreported
  BY <1>1 DEF HeartbeatInit, BeatType, Counts
<1>3. /\ io \subseteq ToolNodes /\ silent \subseteq ToolNodes
      /\ known = ToolNodes /\ idle \subseteq ToolNodes /\ stirred \in 0 .. MaxStirred
      /\ tools \in [ToolNodes -> 0 .. MaxTools]
      /\ asked \in [ToolNodes -> 0 .. MaxAsked]
      /\ answers \in [ToolNodes -> Seq(Counts)]
      /\ \A n \in ToolNodes : answers[n] = <<>>
      /\ \A n \in ToolNodes : tools[n] = 0 => n \in idle
  BY <1>1 DEF HeartbeatInit
<1>4. EndedForCause
  BY <1>2, <1>3 DEF EndedForCause, HTypeOK, BeatType
<1>5. IdleInv
  <2> SUFFICES ASSUME NEW n \in ToolNodes
               PROVE  /\ tools[n] = 0 \/ n \notin known => n \in idle
                      /\ \A i \in 1 .. Len(answers[n]) : answers[n][i] = 0 => n \in idle
                      /\ beat.status[n] = 0 => n \in idle
    BY DEF IdleInv
  <2>1. 1 .. Len(answers[n]) = {}
    BY <1>1, <1>3
  <2> QED
    BY <1>1, <1>2, <1>3, <2>1
<1> QED
  BY <1>4, <1>5 DEF HeartbeatInv

\* What a step must keep.
LEMMA HeartbeatStep ==
    ASSUME HeartbeatInv, [HeartbeatNext]_hvars
    PROVE  HeartbeatInv'
<1> USE HeartbeatAssumption
<1>1. /\ io \subseteq ToolNodes /\ silent \subseteq ToolNodes
      /\ known \subseteq ToolNodes /\ idle \subseteq ToolNodes /\ stirred \in 0 .. MaxStirred
      /\ tools \in [ToolNodes -> 0 .. MaxTools]
      /\ asked \in [ToolNodes -> 0 .. MaxAsked]
      /\ answers \in [ToolNodes -> Seq(Counts)]
      /\ beat \in BeatType
      /\ beat.job = "no tools" => ToolNodes \subseteq idle
      /\ beat.job = "no answer" => \E n \in ToolNodes : beat.status[n] = Unreported
  BY DEF HeartbeatInv, EndedForCause, HTypeOK, BeatType
<1>0. ASSUME NEW n \in ToolNodes
      PROVE  /\ tools[n] \in 0 .. MaxTools /\ asked[n] \in 0 .. MaxAsked
             /\ answers[n] \in Seq(Counts) /\ Len(answers[n]) \in Nat
             /\ beat.status[n] \in Counts
  <2>1. tools[n] \in 0 .. MaxTools /\ asked[n] \in 0 .. MaxAsked
    BY <1>1
  <2>2. answers[n] \in Seq(Counts)
    BY <1>1
  <2>3. beat.status[n] \in Counts
    BY <1>1 DEF BeatType
  <2>4. Len(answers[n]) \in Nat
    BY <2>2
  <2> QED
    BY <2>1, <2>2, <2>3, <2>4
<1>2. /\ \A n \in ToolNodes : tools[n] = 0 \/ n \notin known => n \in idle
      /\ \A n \in ToolNodes : \A i \in 1 .. Len(answers[n]) : answers[n][i] = 0 => n \in idle
      /\ \A n \in ToolNodes : beat.status[n] = 0 => n \in idle
  BY DEF HeartbeatInv, IdleInv
<1> DEFINE
     NodeTypes ==
              /\ io' \subseteq ToolNodes /\ silent' \subseteq ToolNodes
              /\ known' \subseteq ToolNodes /\ idle' \subseteq ToolNodes
              /\ stirred' \in 0 .. MaxStirred
              /\ tools' \in [ToolNodes -> 0 .. MaxTools]
     Calls == /\ asked' \in [ToolNodes -> 0 .. MaxAsked]
              /\ answers' \in [ToolNodes -> Seq(Counts)]
              /\ beat' \in BeatType
     Causes == /\ beat'.job = "no tools" => ToolNodes \subseteq idle'
               /\ beat'.job = "no answer" => \E n \in ToolNodes : beat'.status[n] = Unreported
     Unused == \A n \in ToolNodes : tools'[n] = 0 \/ n \notin known' => n \in idle'
     Zeros == \A n \in ToolNodes :
                  /\ \A i \in 1 .. Len(answers'[n]) : answers'[n][i] = 0 => n \in idle'
                  /\ beat'.status[n] = 0 => n \in idle'
<1> SUFFICES NodeTypes /\ Calls /\ Causes /\ Unused /\ Zeros
  BY DEF HeartbeatInv, EndedForCause, HTypeOK, BeatType, IdleInv
<1>n. ASSUME UNCHANGED nodeState PROVE NodeTypes /\ Unused
  BY <1>1, <1>2, <1>n, ZenonT(30) DEF nodeState
<1>3. CASE HeartbeatHandler
  <2> DEFINE cycles == IF beat.cycles < 2 THEN beat.cycles + 1 ELSE 2
             N == io \ silent
  <2>1. /\ beat.job = "killed" /\ UNCHANGED nodeState /\ UNCHANGED answers
        /\ \/ /\ \E n \in ToolNodes : beat.status[n] = Unreported
              /\ beat' = [beat EXCEPT !.cycles = cycles, !.job = "no answer"]
              /\ UNCHANGED asked
           \/ /\ \A n \in N : asked[n] + Len(answers[n]) < MaxAsked
              /\ asked' = [n \in ToolNodes |-> IF n \in N THEN asked[n] + 1 ELSE asked[n]]
              /\ beat' = [beat EXCEPT !.cycles = cycles]
    BY <1>3 DEF HeartbeatHandler, Ended, Missing
  <2>2. cycles \in 0 .. 2 /\ N \subseteq ToolNodes
    <3>1. beat.cycles \in 0 .. 2
      BY <1>1 DEF BeatType
    <3>2. cycles \in 0 .. 2
      BY <3>1
    <3> QED
      BY <1>1, <3>2
  <2> HIDE DEF cycles, N
  <2>3. /\ beat' \in BeatType /\ beat'.status = beat.status
        /\ \/ beat'.job = "no answer" /\ \E n \in ToolNodes : beat.status[n] = Unreported
           \/ beat'.job = "killed"
    BY <1>1, <2>1, <2>2 DEF BeatType
  <2>4. asked' \in [ToolNodes -> 0 .. MaxAsked]
    <3>1. CASE UNCHANGED asked
      BY <1>1, <3>1
    <3>2. CASE /\ \A n \in N : asked[n] + Len(answers[n]) < MaxAsked
               /\ asked' = [n \in ToolNodes |-> IF n \in N THEN asked[n] + 1 ELSE asked[n]]
      <4>1. ASSUME NEW n \in N PROVE asked[n] + 1 \in 0 .. MaxAsked
        <5>1. n \in ToolNodes
          BY <2>2
        <5>2. Len(answers[n]) \in Nat /\ asked[n] \in 0 .. MaxAsked
          BY <1>0, <5>1
        <5> QED
          BY <3>2, <5>2
      <4> QED
        BY <1>1, <3>2, <4>1
    <3> QED
      BY <2>1, <3>1, <3>2
  <2>5. Calls
    BY <1>1, <2>1, <2>3, <2>4
  <2>6. Causes
    BY <2>3
  <2>7. Zeros
    BY <1>2, <2>1, <2>3, ZenonT(30) DEF nodeState
  <2> QED
    BY <1>n, <2>1, <2>5, <2>6, <2>7
<1>4. ASSUME NEW n \in ToolNodes, Answer(n)
      PROVE  NodeTypes /\ Calls /\ Causes /\ Unused /\ Zeros
  <2>1. /\ asked[n] > 0 /\ asked' = [asked EXCEPT ![n] = asked[n] - 1]
        /\ UNCHANGED nodeState /\ UNCHANGED beat
        /\ \E k \in activeTools(n) : answers' = [answers EXCEPT ![n] = Append(answers[n], k)]
    BY <1>4 DEF Answer
  <2>2. PICK k \in activeTools(n) : answers' = [answers EXCEPT ![n] = Append(answers[n], k)]
    BY <2>1
  <2>3. k \in Counts /\ (k = 0 => n \in idle)
    <3>1. CASE n \in known
      BY <1>0, <1>2, <2>2, <3>1 DEF activeTools, Counts
    <3>2. CASE n \notin known
      BY <1>2, <2>2, <3>2 DEF activeTools
    <3> QED
      BY <3>1, <3>2
  <2>4. asked[n] - 1 \in 0 .. MaxAsked
    BY <1>0, <2>1
  <2>5. Append(answers[n], k) \in Seq(Counts)
    BY <1>0, <2>3
  <2>6. Calls
    BY <1>1, <2>1, <2>2, <2>4, <2>5
  <2>7. ASSUME NEW m \in ToolNodes, NEW i \in 1 .. Len(answers'[m]), answers'[m][i] = 0
        PROVE  m \in idle
    <3>1. CASE m # n
      <4>1. answers'[m] = answers[m]
        BY <1>1, <2>2, <3>1
      <4> QED
        BY <1>2, <2>7, <4>1
    <3>2. CASE m = n
      <4>1. answers[n] \in Seq(Counts) /\ answers'[n] = Append(answers[n], k)
        BY <1>1, <2>2, ZenonT(30)
      <4>2. \/ i = Len(answers[n]) + 1 /\ answers'[n][i] = k
            \/ i \in 1 .. Len(answers[n]) /\ answers'[n][i] = answers[n][i]
        BY <3>2, <4>1
      <4> QED
        BY <1>2, <2>3, <2>7, <3>2, <4>2
    <3> QED
      BY <3>1, <3>2
  <2>8. Zeros /\ Causes
    BY <1>1, <1>2, <2>1, <2>7, ZenonT(30) DEF nodeState
  <2> QED
    BY <1>n, <2>1, <2>6, <2>8
<1>5. ASSUME NEW n \in ToolNodes, HeartbeatPulse(n)
      PROVE  NodeTypes /\ Calls /\ Causes /\ Unused /\ Zeros
  <2> DEFINE latest == [beat.status EXCEPT ![n] = Head(answers[n])]
             none == sum(latest) = 0
  <2>1. /\ answers[n] # <<>> /\ beat.job = "killed"
        /\ beat' = [beat EXCEPT !.status = latest, !.stopped = beat.stopped \/ none,
                                !.job = IF none THEN "no tools" ELSE beat.job]
        /\ answers' = [answers EXCEPT ![n] = Tail(answers[n])]
        /\ UNCHANGED nodeState /\ UNCHANGED asked
    BY <1>5 DEF HeartbeatPulse, Ended
  <2>2. answers[n] \in Seq(Counts) /\ beat.status \in [ToolNodes -> Counts]
    BY <1>1 DEF BeatType
  <2>3. /\ Head(answers[n]) \in Counts /\ Head(answers[n]) = answers[n][1]
        /\ 1 \in 1 .. Len(answers[n]) /\ Tail(answers[n]) \in Seq(Counts)
        /\ \A i \in 1 .. Len(Tail(answers[n])) :
              i + 1 \in 1 .. Len(answers[n]) /\ Tail(answers[n])[i] = answers[n][i + 1]
    BY <2>1, <2>2, FrontTaken, ZenonT(30)
  <2>4. /\ latest \in [ToolNodes -> Counts] /\ latest[n] = Head(answers[n])
        /\ \A m \in ToolNodes \ {n} : latest[m] = beat.status[m]
    BY <2>2, <2>3
  <2> HIDE DEF latest
  <2>5. ASSUME NEW m \in ToolNodes, latest[m] = 0
        PROVE  m \in idle
    BY <1>2, <2>3, <2>4, <2>5
  <2>6. none => ToolNodes \subseteq idle
    <3>1. ASSUME none, NEW m \in ToolNodes PROVE latest[m] = 0
      BY <2>4, <3>1, SumZero
    <3> QED
      BY <2>5, <3>1
  <2>7. none \in BOOLEAN
    OBVIOUS
  <2> HIDE DEF none
  <2>8. /\ beat' \in BeatType /\ beat'.status = latest
        /\ beat'.job = "no tools" => none
        /\ beat'.job # "no answer"
    BY <1>1, <2>1, <2>4, <2>7 DEF BeatType
  <2>9. Calls
    BY <1>1, <2>1, <2>3, <2>8
  <2>10. Causes
    BY <2>1, <2>6, <2>8 DEF nodeState
  <2>11. ASSUME NEW m \in ToolNodes, NEW i \in 1 .. Len(answers'[m]), answers'[m][i] = 0
         PROVE  m \in idle
    <3>1. CASE m # n
      <4>1. answers'[m] = answers[m]
        BY <1>1, <2>1, <3>1
      <4> QED
        BY <1>2, <2>11, <4>1
    <3>2. CASE m = n
      <4>1. answers'[n] = Tail(answers[n])
        BY <1>1, <2>1
      <4>2. i + 1 \in 1 .. Len(answers[n]) /\ answers[n][i + 1] = 0
        BY <2>3, <2>11, <3>2, <4>1
      <4> QED
        BY <1>2, <3>2, <4>2
    <3> QED
      BY <3>1, <3>2
  <2>12. Zeros
    BY <2>1, <2>5, <2>8, <2>11, ZenonT(30) DEF nodeState
  <2> QED
    BY <1>n, <2>1, <2>9, <2>10, <2>12
<1>w. ASSUME NEW n \in ToolNodes, NEW k \in 0 .. MaxTools, WithTools(n, k)
      PROVE  /\ tools' \in [ToolNodes -> 0 .. MaxTools]
             /\ idle \subseteq idle' /\ idle' \subseteq ToolNodes
             /\ \A m \in ToolNodes : tools'[m] = 0 => m \in idle'
             /\ k = 0 => n \in idle'
  <2>1. tools' = [tools EXCEPT ![n] = k] /\ idle' = IF k = 0 THEN idle \cup {n} ELSE idle
    BY <1>w DEF WithTools
  <2>2. \A m \in ToolNodes : tools'[m] = IF m = n THEN k ELSE tools[m]
    BY <1>1, <2>1
  <2>3. tools' \in [ToolNodes -> 0 .. MaxTools]
    BY <1>1, <2>1
  <2> QED
    BY <1>1, <1>2, <2>1, <2>2, <2>3
<1>z. ASSUME UNCHANGED answers, idle \subseteq idle', beat'.status = beat.status
      PROVE  Zeros
  BY <1>2, <1>z, ZenonT(30)
<1>6. ASSUME NEW n \in ToolNodes, ToolQuiet(n) \/ ToolActive(n)
      PROVE  NodeTypes /\ Calls /\ Causes /\ Unused /\ Zeros
  <2>1. UNCHANGED <<io, silent, known, asked, answers, beat>>
    BY <1>6 DEF ToolQuiet, ToolActive
  <2>2. stirred' \in 0 .. MaxStirred
    <3>1. stirred' = stirred \/ (stirred < MaxStirred /\ stirred' = stirred + 1)
      BY <1>6 DEF ToolQuiet, ToolActive
    <3>2. stirred \in 0 .. MaxStirred
      BY <1>1
    <3> QED
      BY <3>1, <3>2
  <2>3. PICK k \in 0 .. MaxTools : WithTools(n, k)
    <3>1. CASE ToolQuiet(n)
      <4>1. tools[n] - 1 \in 0 .. MaxTools /\ WithTools(n, tools[n] - 1)
        BY <1>0, <3>1 DEF ToolQuiet
      <4> QED
        BY <4>1
    <3>2. CASE ToolActive(n)
      <4>1. tools[n] + 1 \in 0 .. MaxTools /\ WithTools(n, tools[n] + 1)
        BY <1>0, <3>2 DEF ToolActive
      <4> QED
        BY <4>1
    <3> QED
      BY <1>6, <3>1, <3>2
  <2>4. /\ tools' \in [ToolNodes -> 0 .. MaxTools]
        /\ idle \subseteq idle' /\ idle' \subseteq ToolNodes
        /\ \A m \in ToolNodes : tools'[m] = 0 => m \in idle'
    BY <1>w, <2>3
  <2>5. NodeTypes /\ Calls
    BY <1>1, <2>1, <2>2, <2>4, ZenonT(30)
  <2>6. Causes
    BY <1>1, <2>1, <2>4, ZenonT(30)
  <2>7. Unused
    BY <1>2, <2>1, <2>4
  <2> QED
    BY <1>z, <2>1, <2>4, <2>5, <2>6, <2>7
<1>7. ASSUME NEW n \in ToolNodes, CleansUp(n)
      PROVE  NodeTypes /\ Calls /\ Causes /\ Unused /\ Zeros
  <2>1. /\ beat.job = "killed" /\ known' = known \ {n} /\ WithTools(n, 0)
        /\ beat' = beat \/ beat' = [beat EXCEPT !.job = "ended"]
        /\ UNCHANGED <<io, silent, stirred, asked, answers>>
    BY <1>7 DEF CleansUp, Ended
  <2>2. 0 \in 0 .. MaxTools
    OBVIOUS
  <2>3. /\ tools' \in [ToolNodes -> 0 .. MaxTools]
        /\ idle \subseteq idle' /\ idle' \subseteq ToolNodes /\ n \in idle'
        /\ \A m \in ToolNodes : tools'[m] = 0 => m \in idle'
    BY <1>w, <2>1, <2>2
  <2>4. beat' \in BeatType /\ beat'.status = beat.status /\ beat'.job \in {"killed", "ended"}
    BY <1>1, <2>1 DEF BeatType
  <2>5. NodeTypes /\ Calls
    BY <1>1, <2>1, <2>3, <2>4
  <2>6. Causes
    BY <2>4
  <2>7. Unused
    BY <1>2, <2>1, <2>3
  <2> QED
    BY <1>z, <2>1, <2>3, <2>4, <2>5, <2>6, <2>7
<1>8. ASSUME NEW n \in ToolNodes, GoesSilent(n)
      PROVE  NodeTypes /\ Calls /\ Causes /\ Unused /\ Zeros
  <2>1. /\ silent' = silent \cup {n}
        /\ UNCHANGED <<io, tools, known, stirred, idle, asked, answers, beat>>
    BY <1>8 DEF GoesSilent
  <2>2. NodeTypes /\ Calls
    BY <1>1, <2>1
  <2>3. Causes /\ Unused
    BY <1>1, <1>2, <2>1, ZenonT(30)
  <2> QED
    BY <1>z, <2>1, <2>2, <2>3
<1>9. ASSUME NEW n \in ToolNodes, NodeLost(n)
      PROVE  NodeTypes /\ Calls /\ Causes /\ Unused /\ Zeros
  <2>1. /\ beat.job = "killed" /\ io' = io \ {n} /\ asked' = [asked EXCEPT ![n] = 0]
        /\ answers' = [answers EXCEPT ![n] = <<>>]
        /\ beat' = beat \/ beat' = [beat EXCEPT !.job = "ended"]
        /\ UNCHANGED <<tools, silent, known, stirred, idle>>
    BY <1>9 DEF NodeLost, Ended
  <2>2. beat' \in BeatType /\ beat'.status = beat.status /\ beat'.job \in {"killed", "ended"}
    BY <1>1, <2>1 DEF BeatType
  <2>3. 0 \in 0 .. MaxAsked /\ <<>> \in Seq(Counts) /\ Len(<<>>) = 0
    OBVIOUS
  <2>4. NodeTypes /\ Calls
    BY <1>1, <2>1, <2>2, <2>3
  <2>5. Causes /\ Unused
    BY <1>2, <2>1, <2>2, ZenonT(30)
  <2>6. ASSUME NEW m \in ToolNodes, NEW i \in 1 .. Len(answers'[m]), answers'[m][i] = 0
        PROVE  m \in idle
    <3>1. answers'[n] = <<>> /\ \A v \in ToolNodes \ {n} : answers'[v] = answers[v]
      BY <1>1, <2>1
    <3>2. m # n
      BY <2>3, <2>6, <3>1
    <3> QED
      BY <1>2, <2>6, <3>1, <3>2
  <2>7. Zeros
    BY <1>2, <2>1, <2>2, <2>6, ZenonT(30)
  <2> QED
    BY <2>4, <2>5, <2>7
<1>10. CASE UNCHANGED hvars
  <2>1. UNCHANGED nodeState /\ UNCHANGED <<idle, asked, answers, beat>>
    BY <1>10 DEF hvars, nodeState
  <2>2. Calls /\ Causes
    BY <1>1, <2>1, ZenonT(30)
  <2> QED
    BY <1>n, <1>z, <2>1, <2>2
<1> QED
  BY <1>3, <1>4, <1>5, <1>6, <1>7, <1>8, <1>9, <1>10, ZenonT(30) DEF HeartbeatNext

\* job::Heartbeat: with any number of nodes and tools, answers that come
\* from different cycles, tools that become active again and links that fail,
\* a job is ended for want of tools only when each of its nodes has been
\* without an active tool at some time since the start, and for want of an
\* answer only when the heartbeat holds no count of some node.
THEOREM HeartbeatEndsForCause == HeartbeatSpec => []EndedForCause
<1>1. HeartbeatInv => EndedForCause
  BY DEF HeartbeatInv
<1> QED
  BY <1>1, HeartbeatInitially, HeartbeatStep, PTL DEF HeartbeatSpec

=============================================================================
