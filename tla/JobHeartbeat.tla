---------------------------- MODULE JobHeartbeat ----------------------------
(***************************************************************************)
(* job::Heartbeat: a job that was killed by a control action ends when the *)
(* tools on its I/O nodes have ended.  Each cycle of a timer asks the      *)
(* nodes for the number of their active tools; the answers are kept by     *)
(* node, from one cycle to the next.                                       *)
(***************************************************************************)
EXTENDS Integers, Sequences, FiniteSets

CONSTANTS
    ToolNodes,      \* the I/O nodes of the job
    MaxTools,       \* bound: tools on a node
    MaxAsked,       \* bound: questions and answers on their way for a node
    MaxStirred      \* bound: times that a tool becomes active again

ASSUME HeartbeatAssumption ==
    /\ IsFiniteSet(ToolNodes) /\ MaxTools \in Nat /\ MaxAsked \in Nat \ {0, 1}
    /\ MaxStirred \in Nat

VARIABLES
    io,             \* job->io(): the nodes whose links have not failed
    tools,          \* tools of each node whose status file is recent
    silent,         \* nodes that do not answer any more
    known,          \* nodes whose jobctld has the job in its list
    asked,          \* questions on their way to each node
    answers,        \* answers on their way from each node, in order
    beat,           \* the Heartbeat object, and what became of the job
    stirred,        \* times that a tool became active again
    idle            \* history: nodes that were once without an active tool

nodeState == <<io, tools, silent, known, stirred, idle>>

hvars == <<nodeState, asked, answers, beat>>

Unreported == -1    \* numeric_limits<unsigned>::max()

Counts == (0 .. MaxTools) \cup {Unreported}

HTypeOK ==
    /\ io \subseteq ToolNodes /\ silent \subseteq ToolNodes
    /\ known \subseteq ToolNodes /\ idle \subseteq ToolNodes
    /\ stirred \in 0 .. MaxStirred
    /\ tools \in [ToolNodes -> 0 .. MaxTools]
    /\ asked \in [ToolNodes -> 0 .. MaxAsked]
    /\ answers \in [ToolNodes -> Seq(Counts)]
    /\ beat \in [status : [ToolNodes -> Counts],
                 cycles : 0 .. 2, stopped : BOOLEAN,
                 job : {"killed", "no tools", "no answer", "ended"}]

\* After Heartbeat::start.
HeartbeatInit ==
    /\ io = ToolNodes /\ known = ToolNodes /\ silent = {} /\ stirred = 0
    /\ tools \in [ToolNodes -> 0 .. MaxTools]
    /\ idle = {n \in ToolNodes : tools[n] = 0}
    /\ asked = [n \in ToolNodes |-> 0]
    /\ answers = [n \in ToolNodes |-> <<>>]
    /\ beat = [status |-> [n \in ToolNodes |-> Unreported], cycles |-> 0,
               stopped |-> FALSE, job |-> "killed"]

Ended == beat.job # "killed"

\* The tools the nodes have reported.
Reported(status) == {t \in ToolNodes \X (1 .. MaxTools) : t[2] <= status[t[1]]}

\* Fault: nodes that have not reported are left out.
sumReported(status) == Cardinality(Reported(status))

\* Heartbeat::sum.
sum(status) ==
    IF \E n \in ToolNodes : status[n] = Unreported THEN Unreported
    ELSE Cardinality(Reported(status))

\* Fault: a node that has not reported is waited for.
MissingNever(status, cycles) == FALSE

\* The test of Heartbeat::handler.
Missing(status, cycles) == cycles > 1 /\ \E n \in ToolNodes : status[n] = Unreported

\* Heartbeat::handler; _cycles is compared with 1 only.  What is written to
\* a silent node is without effect.
HeartbeatHandler ==
    /\ ~Ended /\ ~beat.stopped
    /\ LET cycles == IF beat.cycles < 2 THEN beat.cycles + 1 ELSE 2 IN
       IF Missing(beat.status, cycles)
       THEN /\ beat' = [beat EXCEPT !.cycles = cycles, !.job = "no answer"]
            /\ UNCHANGED asked
       ELSE /\ \A n \in io \ silent : asked[n] + Len(answers[n]) < MaxAsked
            /\ asked' = [n \in ToolNodes |->
                            IF n \in io \ silent THEN asked[n] + 1 ELSE asked[n]]
            /\ beat' = [beat EXCEPT !.cycles = cycles]
    /\ UNCHANGED <<nodeState, answers>>

\* jobctld, checkToolStatus: the tools whose status file was written in the
\* last _waitTime seconds.  Without the job it answers JobIdError, which the
\* server does not look at, and activeTools is what was in the buffer.
activeTools(n) == IF n \in known THEN {tools[n]} ELSE Counts

Answer(n) ==
    /\ n \in io \ silent /\ asked[n] > 0
    /\ asked' = [asked EXCEPT ![n] = @ - 1]
    /\ \E k \in activeTools(n) : answers' = [answers EXCEPT ![n] = Append(@, k)]
    /\ UNCHANGED <<nodeState, beat>>

\* Heartbeat::pulse.
HeartbeatPulse(n) ==
    /\ n \in io /\ answers[n] # <<>> /\ ~Ended
    /\ LET status == [beat.status EXCEPT ![n] = Head(answers[n])]
           none == sum(status) = 0
       IN beat' = [beat EXCEPT !.status = status, !.stopped = @ \/ none,
                               !.job = IF none THEN "no tools" ELSE @]
    /\ answers' = [answers EXCEPT ![n] = Tail(@)]
    /\ UNCHANGED <<nodeState, asked>>

WithTools(n, k) ==
    /\ tools' = [tools EXCEPT ![n] = k]
    /\ idle' = IF k = 0 THEN idle \cup {n} ELSE idle

\* A tool ends, or its status file is not written for _waitTime seconds.
ToolQuiet(n) ==
    /\ tools[n] > 0
    /\ WithTools(n, tools[n] - 1)
    /\ UNCHANGED <<io, silent, known, stirred, asked, answers, beat>>

\* A tool that was quiet writes its status again, or one is started.
ToolActive(n) ==
    /\ n \in known /\ tools[n] < MaxTools /\ stirred < MaxStirred
    /\ WithTools(n, tools[n] + 1)
    /\ stirred' = stirred + 1
    /\ UNCHANGED <<io, silent, known, asked, answers, beat>>

\* jobctld ends the tools and forgets the job; the server removes the job
\* once every node that it has left has done so.
CleansUp(n) ==
    /\ n \in io \cap known /\ ~Ended
    /\ known' = known \ {n}
    /\ WithTools(n, 0)
    /\ beat' = IF io \cap known = {n}
               THEN [beat EXCEPT !.job = "ended"] ELSE beat
    /\ UNCHANGED <<io, silent, stirred, asked, answers>>

\* A daemon, or the link to it, stops answering.
GoesSilent(n) ==
    /\ n \in io \ silent /\ ~Ended
    /\ silent' = silent \cup {n}
    /\ UNCHANGED <<io, tools, known, stirred, idle, asked, answers, beat>>

\* The link to a node fails; EndOfFile takes the node out of the job, and
\* removes the job with the last one.  The heartbeat is not told.
NodeLost(n) ==
    /\ n \in io /\ ~Ended
    /\ io' = io \ {n}
    /\ asked' = [asked EXCEPT ![n] = 0]
    /\ answers' = [answers EXCEPT ![n] = <<>>]
    /\ beat' = IF io = {n} THEN [beat EXCEPT !.job = "ended"] ELSE beat
    /\ UNCHANGED <<tools, silent, known, stirred, idle>>

HeartbeatNext ==
    \/ HeartbeatHandler
    \/ \E n \in ToolNodes :
          \/ Answer(n) \/ HeartbeatPulse(n) \/ ToolQuiet(n) \/ ToolActive(n)
          \/ CleansUp(n) \/ GoesSilent(n) \/ NodeLost(n)

\* The timer fires, nodes that are not silent answer, and tools that are not
\* active again fall quiet.
HeartbeatFairness ==
    /\ WF_hvars(HeartbeatHandler)
    /\ \A n \in ToolNodes : WF_hvars(Answer(n) \/ HeartbeatPulse(n))
    /\ WF_hvars(\E n \in ToolNodes : ToolQuiet(n))

HeartbeatSpec == HeartbeatInit /\ [][HeartbeatNext]_hvars /\ HeartbeatFairness

---------------------------------------------------------------------------
(* Properties.                                                             *)

\* The heartbeat ends a job for want of tools only when every node of the
\* job has been without an active tool at some time since it started, though
\* the counts it adds come from different cycles and tools become active
\* again in between, and for want of an answer only when it holds no count of
\* some node.
EndedForCause ==
    /\ HTypeOK
    /\ beat.job = "no tools" => ToolNodes \subseteq idle
    /\ beat.job = "no answer" => \E n \in ToolNodes : beat.status[n] = Unreported

\* The count that the heartbeat keeps of this node may never change: the
\* node was lost, does not answer, or answers without having the job.
Stale(n) == n \notin io \/ n \in silent \/ n \notin known

\* The job ends once its tools are quiet, unless such a count is above 0.
HeartbeatEnds ==
    []<>(beat.cycles > 0 =>
            Ended \/ \E n \in ToolNodes : Stale(n) /\ beat.status[n] > 0)

=============================================================================
