---------------------------- MODULE MCMessages -----------------------------
(***************************************************************************)
(* Paths of messages.  In the runjob server: a link to an I/O node, a      *)
(* job's output on its way to the mux, the requests of the sub-node jobs   *)
(* of a compute node, and the heartbeat of a job.  In the communication    *)
(* agent of a node: its request queue, and the pacing of the remote gets   *)
(* that arrive through it.  The initial state chooses which of them is     *)
(* looked at.                                                              *)
(***************************************************************************)
EXTENDS CiosConnection, StdioPath, SubNodePacing, JobHeartbeat, RgetPacing, RequestQueue

VARIABLE scene

serverState == <<cvars, svars, pvars, hvars>>

agentState == <<vars, qvars>>

mcvars == <<serverState, agentState, scene>>

\* The first link reads two messages, the others one.
MCOutput == [l \in Links |-> IF l = CHOOSE x \in Links : TRUE THEN 2 ELSE 1]

Get(id, peer, len, r) == [id |-> id, peer |-> peer, dput |-> TRUE, len |-> len, region |-> r]

Message(id, peer) == [id |-> id, peer |-> peer, dput |-> FALSE, len |-> 1, region |-> "x"]

\* Data and its completion message, one request behind two, messages between direct
\* puts, messages before data, and an empty direct put.
MCWorkloads == {
    <<Get("a", 1, 3, "x"), Get("b", 2, 3, "y"), Message("c", 1)>>,
    <<Get("a", 0, 2, "x"), Get("b", 1, 2, "y"), Get("a", 1, 1, "x")>>,
    <<Get("a", 0, 1, "x"), Get("b", 0, 1, "y"), Message("a", 0), Get("a", 0, 2, "y")>>,
    <<Message("a", 0), Message("b", 0), Get("b", 1, 2, "y")>>,
    <<Get("a", 0, 0, "x"), Message("a", 0), Get("b", 0, 3, "y")>>}

Fixed(base) == [base |-> base, t1 |-> 101, t2 |-> 101, m1 |-> 1, m2 |-> 1]

\* One sub-message at a time, no pacing, and sizes that follow the active sub-regions.
MCEnvironments == {
    [pace |-> TRUE, size |-> Fixed(1), max |-> Fixed(1)],
    [pace |-> FALSE, size |-> Fixed(1), max |-> Fixed(2)],
    [pace |-> TRUE, size |-> [base |-> 1, t1 |-> 40, t2 |-> 90, m1 |-> 1, m2 |-> 2],
     max |-> Fixed(2)]}

\* What is not looked at is in one of its initial states.
MCInit ==
    /\ scene \in {"link", "output", "sub-node", "heartbeat", "gets", "queue"}
    /\ IF scene = "link" THEN CiosInit
       ELSE service = "jobctl" /\ c = [NewConnection EXCEPT !.block = "gone"]
    /\ StdioInit /\ (scene # "output" => submitted)
    /\ PacingInit
    /\ HeartbeatInit
    /\ scene # "heartbeat" => tools = [n \in ToolNodes |-> 0]
    /\ Init /\ QInit
    /\ scene # "gets" => work = CHOOSE w \in Workloads : TRUE
    /\ scene # "gets" => env = CHOOSE e \in Environments : TRUE

Link(A) == scene = "link" /\ A /\ UNCHANGED <<svars, pvars, hvars, agentState, scene>>

Path(A) == scene = "output" /\ A /\ UNCHANGED <<cvars, pvars, hvars, agentState, scene>>

Sharing(A) == scene = "sub-node" /\ A /\ UNCHANGED <<cvars, svars, hvars, agentState, scene>>

Beating(A) == scene = "heartbeat" /\ A /\ UNCHANGED <<cvars, svars, pvars, agentState, scene>>

Getting(A) == scene = "gets" /\ A /\ UNCHANGED <<serverState, qvars, scene>>

Queueing(A) == scene = "queue" /\ A /\ UNCHANGED <<serverState, vars, scene>>

MCNext ==
    \/ Link(CiosNext) \/ Path(StdioNext) \/ Sharing(PacingNext) \/ Beating(HeartbeatNext)
    \/ Getting(Next) \/ Queueing(QNext)

MCSpec ==
    /\ MCInit /\ [][MCNext]_mcvars
    /\ WF_mcvars(Link(Step(Handlers))) /\ SF_mcvars(Link(Step(Accepted)))
    /\ WF_mcvars(Path(Handling))
    /\ WF_mcvars(Sharing(Progress))
    /\ WF_mcvars(Beating(HeartbeatHandler))
    /\ \A n \in ToolNodes : WF_mcvars(Beating(Answer(n) \/ HeartbeatPulse(n)))
    /\ WF_mcvars(Beating(\E n \in ToolNodes : ToolQuiet(n)))
    /\ WF_mcvars(Getting(Agent)) /\ WF_mcvars(Getting(Drain))
    /\ \A k \in 1 .. Counters : WF_mcvars(Getting(HitZero(k)))
    /\ \A p \in Producers : WF_mcvars(Queueing(UseSlot(p)))
    /\ WF_mcvars(Queueing(Consume)) /\ WF_mcvars(Queueing(StoreType))
    /\ WF_mcvars(Queueing(StoreBound))
=============================================================================
