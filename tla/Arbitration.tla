---------------------------- MODULE Arbitration ----------------------------
(***************************************************************************)
(* How the runjob server gives the compute nodes of one booted block to    *)
(* jobs (hlcs/src/runjob/server/block and server/job): arbitration on the  *)
(* strand of block::Compute, the owners of a Job object (job::Create, the  *)
(* job container, the kill timer's handlers), the nodes a timed out job    *)
(* takes out of service, and the removal of the block.                     *)
(*                                                                         *)
(* Midplanes, nodes and cores hold weak pointers to the job they run, so   *)
(* nothing ever releases them: a node is free again once the last owner of *)
(* the Job object is gone.  The variable refs holds the owners.            *)
(***************************************************************************)
EXTENDS Integers, FiniteSets

CONSTANTS
    Jobs,        \* job submissions
    Midplanes,   \* midplanes of the block
    Dims,        \* torus dimensions, some of "A" .. "E"
    Max,         \* dimension -> nodes of a whole midplane (BGQTopology::MAX_?_NODE)
    Extent,      \* dimension -> nodes the block has of each midplane
    Place,       \* midplane -> its midplane coordinates in the block
    Cores,       \* cores of a node that can run a job
    IoNodes,     \* I/O nodes
    Link,        \* node -> the I/O node its own link leads to, or None
    Connected,   \* node -> the I/O node that serves it
    Requests,    \* what a submission may ask for
    None         \* no job, no core, no rank, no I/O node

\* Midplane::_nodes: coordinates within a midplane.  No midplane is larger than 4.
Coords == {c \in [Dims -> 0 .. 3] : \A d \in Dims : c[d] < Extent[d]}

Nodes == Midplanes \X Coords

\* runjob::JobInfo as it arrives.  The corner "at" is relative to the block when it
\* is given by coordinates, and to midplane mp when it is given as a location.
Request ==
    [sub : BOOLEAN, coordinates : BOOLEAN, mp : Midplanes \cup {None}, at : [Dims -> Nat],
     shape : [Dims -> Nat \ {0}], core : Cores \cup {None}, np : Nat, ranks : Nat \ {0},
     stdin : Nat, strace : Nat \cup {None}]

ASSUME NoneAssumption == None \notin Jobs /\ None \notin Cores /\ None \notin IoNodes
ASSUME FiniteAssumption == IsFiniteSet(Nodes) /\ IsFiniteSet([Dims -> 0 .. 3])
ASSUME RequestsAssumption == Requests \subseteq Request
\* SubBlock::validate: a corner that is a core goes with the shape 1x1x1x1x1.
ASSUME CoreShapeAssumption ==
    \A r \in Requests : r.core # None => \A d \in Dims : r.shape[d] = 1
\* BGQTopology::MAX_?_NODE is 4, and 2 in E.
ASSUME ExtentAssumption == Extent \in [Dims -> 0 .. 4]
ASSUME LinkAssumption == Connected \in [Nodes -> IoNodes]
                         /\ Link \in [Nodes -> IoNodes \cup {None}]
\* The constructor of block::ComputeNode throws for a node without a connected I/O
\* node among the links of the block, and then there is no block.
ASSUME ConnectedAssumption == \A n \in Nodes : \E l \in Nodes : Link[l] = Connected[n]

VARIABLES
    phase,         \* how far the submission of a job has come
    refs,          \* job -> owners of its Job object
    midplaneJob,   \* midplane -> Midplane::_job
    nodeJob,       \* node -> ComputeNode::_job
    coreJob,       \* node -> core -> ComputeCore::_job
    status,        \* node -> ComputeNode::_status
    info,          \* job -> the resources it was created with
    timedOut,      \* jobs whose kill timer handler marked their nodes
    block,         \* whether the block is in the block container
    killed         \* jobs that the block's removal killed

vars == <<phase, refs, midplaneJob, nodeJob, coreJob, status, info, timedOut, block, killed>>

Owner == {"create",        \* job::Create, until arbitration lets go of it
          "adding",        \* the addImpl handler posted to the job container
          "container",     \* the job container
          "timer",         \* the handler bound to the kill timer
          "unavailable"}   \* the unavailableJobImpl handler posted to the block

Info == [accepted : BOOLEAN, kind : {"block", "nodes", "core"}, nodes : SUBSET Nodes,
         core : Cores \cup {None}, np : Nat, ranks : Nat, stdin : Nat,
         strace : Nat \cup {None}, io : SUBSET (IoNodes \X Nat)]

NoInfo == [accepted |-> FALSE, kind |-> "block", nodes |-> {}, core |-> None,
           np |-> 0, ranks |-> 0, stdin |-> 0, strace |-> None, io |-> {}]

TypeOK ==
    /\ phase \in [Jobs -> {"new", "found", "done"}]
    /\ refs \in [Jobs -> SUBSET Owner]
    /\ midplaneJob \in [Midplanes -> Jobs \cup {None}]
    /\ nodeJob \in [Nodes -> Jobs \cup {None}]
    /\ coreJob \in [Nodes -> [Cores -> Jobs \cup {None}]]
    /\ status \in [Nodes -> {"Available", "SoftwareFailure"}]
    /\ info \in [Jobs -> Info]
    /\ timedOut \subseteq Jobs
    /\ block \in {"present", "removing", "removed"}
    /\ killed \subseteq Jobs

Init ==
    /\ phase = [j \in Jobs |-> "new"]
    /\ refs = [j \in Jobs |-> {}]
    /\ midplaneJob = [m \in Midplanes |-> None]
    /\ nodeJob = [n \in Nodes |-> None]
    /\ coreJob = [n \in Nodes |-> [c \in Cores |-> None]]
    /\ status = [n \in Nodes |-> "Available"]
    /\ info = [j \in Jobs |-> NoInfo]
    /\ timedOut = {}
    /\ block = "present"
    /\ killed = {}

-----------------------------------------------------------------------------
(* What is free.                                                           *)

Live(j) == refs[j] # {}

\* weak_ptr::lock on a resource's job.
Runs(w) == w # None /\ Live(w)

MidplaneAvailable(m) == ~Runs(midplaneJob[m])

\* Fault: a node on which core jobs run counts as free.
NodeIgnoresCores(n) == status[n] = "Available" /\ ~Runs(nodeJob[n])

\* ComputeNode::available.
NodeAvailable(n) ==
    /\ status[n] = "Available"
    /\ ~Runs(nodeJob[n])
    /\ \A c \in Cores : ~Runs(coreJob[n][c])

\* ComputeNode::arbitrate: it does not look at the status of the node.
CoreAvailable(n, c) ==
    /\ c \in Cores
    /\ ~Runs(nodeJob[n])
    /\ ~Runs(coreJob[n][c])

-----------------------------------------------------------------------------
(* What a request names.                                                   *)

\* Block coordinates of the first node of a midplane (Midplane::_coordinates).
Origin(m) == [d \in Dims |-> Place[m][d] * Max[d]]

\* Compute::getMidplane: the midplane the corner is in.  There is one midplane deep
\* in E, so that coordinate does not take part.
GetMidplane(r) ==
    IF r.coordinates
    THEN {m \in Midplanes : \A d \in Dims \ {"E"} : Place[m][d] = r.at[d] \div Max[d]}
    ELSE {r.mp} \ {None}

\* Coordinates of the corner within midplane m (validateCornerCoordinates, getCorner).
CornerIn(r, m) == IF r.coordinates THEN [d \in Dims |-> r.at[d] - Origin(m)[d]] ELSE r.at

\* The core that is left when the corner has been validated: a corner given by
\* coordinates gets the location of its node, which has no core.
CoreOf(r) == IF r.coordinates THEN None ELSE r.core

NodesOf(r, m) ==
    {<<m, c>> : c \in {x \in Coords : \A d \in Dims : x[d] \in CornerIn(r, m)[d] ..
                                          (CornerIn(r, m)[d] + r.shape[d] - 1)}}

ShapeSize(r) == Cardinality({c \in [Dims -> 0 .. 3] : \A d \in Dims : c[d] < r.shape[d]})

ValidateStdinNp(r) == r.np # 0 => r.stdin < r.np

ValidateStraceNp(r) == r.np # 0 /\ r.strace # None => r.strace < r.np

\* Midplane::validateCorner.
ValidateCorner(r, m) == CornerIn(r, m) \in Coords

\* Midplane::validateShape: the shape stays inside the midplane and does not wrap.
ValidateShape(r, m) == \A d \in Dims : CornerIn(r, m)[d] + r.shape[d] <= Extent[d]

\* Ranks that fit: np, the stdin rank and the strace rank.
ValidateNp(r, size) == r.np <= size * r.ranks

\* Fault: the stdin and strace ranks are not compared with the size.
AnyRanks(r, size) == TRUE

ValidateRanks(r, size) ==
    /\ r.stdin < size * r.ranks
    /\ r.strace # None => r.strace < size * r.ranks

\* job::Create::io: I/O nodes of the job with the compute nodes each one manages.
Managed(ios, nodes) ==
    {<<i, Cardinality({n \in nodes : Connected[n] = i})>> : i \in ios}

\* Fault: only the nodes with a link of their own are counted.
LinkedIo ==
    {<<i, Cardinality({n \in Nodes : Link[n] = i})>> : i \in {Link[n] : n \in Nodes} \ {None}}

\* A full block job starts from the links of the block, each with no compute nodes,
\* and gets the counts of the connected I/O nodes afterwards.
FullIo == Managed({Link[n] : n \in Nodes} \ {None}, Nodes)

\* The job that Create makes of request r on the given resources.
Created(r, ok, kind, nodes, core, size, io) ==
    [accepted |-> ok, kind |-> kind, nodes |-> nodes, core |-> core,
     np |-> IF r.np = 0 THEN size * r.ranks ELSE r.np, ranks |-> r.ranks,
     stdin |-> r.stdin, strace |-> r.strace, io |-> io]

-----------------------------------------------------------------------------
(* Arbitration: block::Compute::arbitrateImpl on the strand of the block.  *)

\* InsertJob::findBlockHandler and securityHandler: the block exists now.
FindBlock(j) ==
    /\ phase[j] = "new"
    /\ block = "present"
    /\ phase' = [phase EXCEPT ![j] = "found"]
    /\ UNCHANGED <<refs, midplaneJob, nodeJob, coreJob, status, info, timedOut, block, killed>>

NpFits(r) == ValidateStdinNp(r) /\ ValidateStraceNp(r)

FullFits(r) ==
    /\ ~r.sub
    /\ NpFits(r)
    /\ ValidateNp(r, Cardinality(Nodes))
    /\ \A m \in Midplanes : MidplaneAvailable(m)
    /\ \A n \in Nodes : NodeAvailable(n)

SubFits(r, m) ==
    /\ r.sub
    /\ NpFits(r)
    /\ m \in GetMidplane(r) \cap Midplanes
    /\ MidplaneAvailable(m)
    /\ ValidateCorner(r, m)
    /\ ValidateNp(r, ShapeSize(r))
    /\ ValidateShape(r, m)
    /\ ValidateRanks(r, ShapeSize(r))

\* Compute::arbitrateFullBlock.  A stdin or strace rank that does not fit is an
\* error, but arbitration goes on and the midplanes remember the refused job.
ArbitrateFullBlock(j, r) ==
    /\ FullFits(r)
    /\ info' = [info EXCEPT ![j] = Created(r, ValidateRanks(r, Cardinality(Nodes)), "block",
                                           Nodes, None, Cardinality(Nodes), FullIo)]
    /\ midplaneJob' = [m \in Midplanes |-> j]
    /\ UNCHANGED <<nodeJob, coreJob>>

\* Midplane::addMultiNodeJob.
AddMultiNodeJob(j, r, m) ==
    /\ SubFits(r, m)
    /\ CoreOf(r) = None
    /\ \A n \in NodesOf(r, m) : NodeAvailable(n)
    /\ info' = [info EXCEPT ![j] =
                   Created(r, TRUE, "nodes", NodesOf(r, m), None, ShapeSize(r),
                           Managed({Connected[n] : n \in NodesOf(r, m)}, NodesOf(r, m)))]
    /\ nodeJob' = [n \in Nodes |-> IF n \in NodesOf(r, m) THEN j ELSE nodeJob[n]]
    /\ UNCHANGED <<midplaneJob, coreJob>>

\* Midplane::addSingleCoreJob.
AddSingleCoreJob(j, r, m) ==
    /\ SubFits(r, m)
    /\ LET n == <<m, CornerIn(r, m)>> IN
       /\ CoreAvailable(n, CoreOf(r))
       /\ info' = [info EXCEPT ![j] = Created(r, TRUE, "core", {n}, CoreOf(r), ShapeSize(r),
                                              {<<Connected[n], 1>>})]
       /\ coreJob' = [coreJob EXCEPT ![n][CoreOf(r)] = j]
    /\ UNCHANGED <<midplaneJob, nodeJob>>

Refuse(j, r) ==
    /\ ~FullFits(r)
    /\ \A m \in Midplanes :
           SubFits(r, m) =>
               IF CoreOf(r) = None THEN \E n \in NodesOf(r, m) : ~NodeAvailable(n)
               ELSE ~CoreAvailable(<<m, CornerIn(r, m)>>, CoreOf(r))
    /\ UNCHANGED <<info, midplaneJob, nodeJob, coreJob>>

\* The Create object lives on for as long as InsertJob's thread holds it.
ArbitrateImpl(j) ==
    /\ phase[j] = "found"
    /\ phase' = [phase EXCEPT ![j] = "done"]
    /\ refs' = [refs EXCEPT ![j] = {"create"}]
    /\ \E r \in Requests :
           \/ ArbitrateFullBlock(j, r)
           \/ \E m \in Midplanes : AddMultiNodeJob(j, r, m)
           \/ \E m \in Midplanes : AddSingleCoreJob(j, r, m)
           \/ Refuse(j, r)
    /\ UNCHANGED <<status, timedOut, block, killed>>

-----------------------------------------------------------------------------
(* The owners of the Job object.                                           *)

\* Only the owners of one job change.
Owners(j, owners) ==
    /\ refs' = [refs EXCEPT ![j] = owners]
    /\ UNCHANGED <<phase, midplaneJob, nodeJob, coreJob, status, info, block, killed>>

\* Create::~Create: a refused job goes with it, an accepted one is posted to the
\* job container.
CreateDestroyed(j) ==
    /\ "create" \in refs[j]
    /\ Owners(j, IF info[j].accepted THEN {"adding"} ELSE {})
    /\ UNCHANGED timedOut

\* Container::addImpl; the job is dropped when the database refuses to insert it.
AddImpl(j) ==
    /\ "adding" \in refs[j]
    /\ \E inserted \in BOOLEAN : Owners(j, IF inserted THEN {"container"} ELSE {})
    /\ UNCHANGED timedOut

\* Container::removeImpl.
RemoveImpl(j) ==
    /\ "container" \in refs[j]
    /\ Owners(j, refs[j] \ {"container"})
    /\ UNCHANGED timedOut

\* KillTimer::start: the handler is bound to the job.
KillTimerStart(j) ==
    /\ "container" \in refs[j]
    /\ Owners(j, refs[j] \cup {"timer"})
    /\ UNCHANGED timedOut

\* KillTimer::handler, aborted by KillTimer::stop.
KillTimerAborted(j) ==
    /\ "timer" \in refs[j]
    /\ Owners(j, refs[j] \ {"timer"})
    /\ UNCHANGED timedOut

\* KillTimer::handler, timed out: it posts unavailable and removes the job.
KillTimerHandler(j) ==
    /\ "timer" \in refs[j]
    /\ Owners(j, (refs[j] \ {"timer"}) \cup {"unavailable"})
    /\ timedOut' = timedOut \cup {j}

\* Fault: only the midplanes of a full block job are looked at.
MarkedBlockOnly(j, n) == midplaneJob[n[1]] = j

\* Midplane::unavailable for each midplane.
Marked(j, n) == midplaneJob[n[1]] = j \/ nodeJob[n] = j

\* Compute::unavailableJobImpl on the strand of the block.
UnavailableJobImpl(j) ==
    /\ "unavailable" \in refs[j]
    /\ status' = [n \in Nodes |-> IF Marked(j, n) THEN "SoftwareFailure" ELSE status[n]]
    /\ refs' = [refs EXCEPT ![j] = @ \ {"unavailable"}]
    /\ UNCHANGED <<phase, midplaneJob, nodeJob, coreJob, info, timedOut, block, killed>>

-----------------------------------------------------------------------------
(* The removal of the block.                                               *)

\* block::Container::removeImpl.
RemoveBlock ==
    /\ block = "present"
    /\ block' = "removing"
    /\ UNCHANGED <<phase, refs, midplaneJob, nodeJob, coreJob, status, info, timedOut, killed>>

\* job::Container::blockEofImpl.
BlockEofImpl ==
    /\ block = "removing"
    /\ block' = "removed"
    /\ killed' = {j \in Jobs : "container" \in refs[j]}
    /\ UNCHANGED <<phase, refs, midplaneJob, nodeJob, coreJob, status, info, timedOut>>

Next ==
    \/ \E j \in Jobs :
           \/ FindBlock(j) \/ ArbitrateImpl(j) \/ CreateDestroyed(j) \/ AddImpl(j)
           \/ RemoveImpl(j) \/ KillTimerStart(j) \/ KillTimerAborted(j)
           \/ KillTimerHandler(j) \/ UnavailableJobImpl(j)
    \/ RemoveBlock
    \/ BlockEofImpl

Spec == Init /\ [][Next]_vars

-----------------------------------------------------------------------------
(* Properties.                                                             *)

Holds(j) == Live(j) /\ info[j].accepted

\* The cores a job runs on.
Uses(j) ==
    info[j].nodes \X (IF info[j].kind = "core" THEN {info[j].core} ELSE Cores)

\* Two jobs never run on the same core of the same node, whatever mixture of full
\* block, sub-block and sub-node jobs arbitration has let in.
Exclusive == \A j, k \in Jobs : j # k /\ Holds(j) /\ Holds(k) => Uses(j) \cap Uses(k) = {}

\* A job that arbitration accepted has ranks, all of them fit on its nodes, and its
\* stdin and strace ranks are among them.
RanksFit ==
    \A j \in Jobs : info[j].accepted =>
        /\ info[j].np \in 1 .. Cardinality(info[j].nodes) * info[j].ranks
        /\ info[j].stdin < info[j].np
        /\ info[j].strace # None => info[j].strace < info[j].np

\* Every node of an accepted job is served by an I/O node that the job knows, and
\* that I/O node waits for as many nodes as it serves.
NodesServed ==
    \A j \in Jobs : info[j].accepted =>
        \A n \in info[j].nodes :
            <<Connected[n], Cardinality({x \in info[j].nodes : Connected[x] = Connected[n]})>>
                \in info[j].io

Accepts(k) == phase[k] = "found" /\ info'[k].accepted

\* A job whose kill timer ran out leaves nodes that no later full block or sub-block
\* job gets, although marking them is posted to another strand while the job itself
\* is removed (KillTimer::handler).
FailedNodesNotGiven ==
    [][\A j \in timedOut, k \in Jobs :
           Accepts(k) /\ info[j].kind # "core" /\ info'[k].kind # "core"
           => info[j].nodes \cap info'[k].nodes = {}]_vars

\* Every live job that was accepted is still known to all the resources it was given.
Claims ==
    \A j \in Jobs : Holds(j) =>
        /\ info[j].kind = "block" => \A m \in Midplanes : midplaneJob[m] = j
        /\ info[j].kind = "nodes" => \A n \in info[j].nodes : nodeJob[n] = j
        /\ info[j].kind = "core" => /\ info[j].core \in Cores
                                    /\ \A n \in info[j].nodes : coreJob[n][info[j].core] = j

\* A job has no owner before arbitration, and only Create owns one that was refused.
Owned ==
    \A j \in Jobs :
        /\ phase[j] # "done" => refs[j] = {} /\ ~info[j].accepted /\ j \notin timedOut
        /\ refs[j] \cap (Owner \ {"create"}) # {} => info[j].accepted
        /\ \A o \in {"create", "adding"} : o \in refs[j] => refs[j] = {o}

\* The nodes of a timed out job are marked, or it is alive because they are about to be.
FailedMarked ==
    \A j \in timedOut :
        /\ info[j].accepted
        /\ \/ info[j].kind = "core"
           \/ "unavailable" \in refs[j]
           \/ \A n \in info[j].nodes : status[n] = "SoftwareFailure"

\* The inductive invariant behind Exclusive and FailedNodesNotGiven: a resource of a
\* live job is never handed out, because its weak pointer still leads to that job.
ArbInv == TypeOK /\ Owned /\ Claims /\ FailedMarked /\ Exclusive

-----------------------------------------------------------------------------
(* What the repository says of arbitration and the code does not do.       *)

\* The nodes of a job whose kill timer ran out are unavailable for future jobs.
FailedNodesUnavailable ==
    [][\A j \in timedOut, k \in Jobs :
           ~Live(j) /\ Accepts(k) => info[j].nodes \cap info'[k].nodes = {}]_vars

\* No job is left on a block that has been removed: each one was killed.
RemovedBlockKillsJobs ==
    block = "removed" => \A j \in Jobs : "container" \in refs[j] => j \in killed

=============================================================================
