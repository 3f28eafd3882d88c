--------------------------- MODULE SubNodePacing ---------------------------
(***************************************************************************)
(* job::SubNodePacing: the sub-node jobs of one compute node share a queue *)
(* of jobctl requests, of which only the front has been written to the I/O *)
(* node.  An acknowledgement (Handle::transition) sends the next one.      *)
(*                                                                         *)
(* A job asks for its stages (setup, load, start, cleanup) one after the   *)
(* acknowledgement of the other, and may be sent a signal at any time.     *)
(***************************************************************************)
EXTENDS Integers, Sequences

CONSTANTS
    PacedJobs,      \* the jobs that share the compute node
    Stages          \* bound: the number of stages of a job (4 in the code)

ASSUME PacingAssumption == Stages \in Nat \ {0}

VARIABLES
    paced,          \* each job: stages asked and acknowledged, signal, gone
    pacing,         \* _outbox: pairs of a (weak) job and a request
    requests,       \* requests written to the I/O node and not answered
    disturbed       \* the I/O link failed, or a kill timer removed a job

pvars == <<paced, pacing, requests, disturbed>>

Requests == [job : PacedJobs, kind : {"stage", "signal"}]

PTypeOK ==
    /\ paced \in [PacedJobs -> [asked : 0 .. Stages, done : 0 .. Stages,
                                signal : {"none", "asked", "done"}, gone : BOOLEAN]]
    /\ pacing \in Seq(Requests)
    /\ requests \in Seq(Requests)
    /\ disturbed \in BOOLEAN

PacingInit ==
    /\ paced = [j \in PacedJobs |->
                  [asked |-> 0, done |-> 0, signal |-> "none", gone |-> FALSE]]
    /\ pacing = <<>>
    /\ requests = <<>>
    /\ disturbed = FALSE

\* SubNodePacing::write, with the requests rest already at the I/O node:
\* nothing is written for a job that is gone.
paceWrite(box, rest) ==
    IF paced[Head(box).job].gone THEN rest ELSE Append(rest, Head(box))

\* Fault: every request is written at once.
addUnpaced(r) ==
    /\ pacing' = Append(pacing, r)
    /\ requests' = Append(requests, r)

\* SubNodePacing::add.
add(r) ==
    /\ pacing' = Append(pacing, r)
    /\ requests' = IF pacing = <<>> THEN paceWrite(<<r>>, requests) ELSE requests

\* Fault: the queue moves on, and the next request waits for another add().
nextSilent(rest) ==
    /\ pacing' = IF pacing = <<>> THEN pacing ELSE Tail(pacing)
    /\ requests' = rest

\* SubNodePacing::next.
next(rest) ==
    /\ pacing' = IF pacing = <<>> THEN pacing ELSE Tail(pacing)
    /\ requests' = IF Len(pacing) < 2 THEN rest ELSE paceWrite(Tail(pacing), rest)

AskStage(j) ==
    /\ ~paced[j].gone
    /\ paced[j].asked = paced[j].done /\ paced[j].asked < Stages
    /\ add([job |-> j, kind |-> "stage"])
    /\ paced' = [paced EXCEPT ![j].asked = @ + 1]
    /\ UNCHANGED disturbed

AskSignal(j) ==
    /\ ~paced[j].gone
    /\ paced[j].signal = "none" /\ paced[j].asked \in 1 .. Stages - 1
    /\ add([job |-> j, kind |-> "signal"])
    /\ paced' = [paced EXCEPT ![j].signal = "asked"]
    /\ UNCHANGED disturbed

\* The I/O node answers.  The answer of a job that is gone finds no job,
\* and next() is not called.  The last acknowledgement removes the job.
Acknowledge ==
    /\ requests # <<>>
    /\ LET r == Head(requests)
           p == paced[r.job] IN
       IF p.gone
       THEN requests' = Tail(requests) /\ UNCHANGED <<paced, pacing>>
       ELSE /\ next(Tail(requests))
            /\ paced' = [paced EXCEPT ![r.job] =
                   IF r.kind = "signal" THEN [p EXCEPT !.signal = "done"]
                   ELSE [p EXCEPT !.done = p.done + 1, !.gone = (p.asked = Stages)]]
    /\ UNCHANGED disturbed

\* The I/O link fails: its jobs end (EndOfFile) and what it carried is lost.
LinkFails ==
    /\ requests' = <<>>
    /\ paced' = [j \in PacedJobs |-> [paced[j] EXCEPT !.gone = @ \/ paced[j].asked > 0]]
    /\ disturbed' = TRUE
    /\ UNCHANGED pacing

\* A job that was killed and does not end is removed by its kill timer,
\* which then asks for a cleanup in its name.
KillTimerRemoves(j) ==
    /\ ~paced[j].gone /\ paced[j].signal # "none"
    /\ paced' = [paced EXCEPT ![j].gone = TRUE]
    /\ add([job |-> j, kind |-> "stage"])
    /\ disturbed' = TRUE

PacingNext ==
    \/ \E j \in PacedJobs : AskStage(j) \/ AskSignal(j) \/ KillTimerRemoves(j)
    \/ Acknowledge \/ LinkFails

Progress == Acknowledge \/ \E j \in PacedJobs : AskStage(j)

\* Jobs go on to their next stage and the I/O node answers.
PacingSpec == PacingInit /\ [][PacingNext]_pvars /\ WF_pvars(Progress)

---------------------------------------------------------------------------
(* Properties.                                                             *)

\* The jobs of a compute node have one request at most at the I/O node, and
\* it is the front of their queue: whatever order the acknowledgements,
\* signals and removals of several jobs come in, next() removes the request
\* that was acknowledged.
PacedOneAtATime ==
    /\ PTypeOK
    /\ Len(requests) <= 1
    /\ requests # <<>> => pacing # <<>> /\ Head(pacing) = Head(requests)

\* Unless the link fails or a kill timer removes a job, every job is sent
\* all its requests and ends: the queue is never left with nothing at the
\* I/O node.
PacedJobsEnd ==
    <>[](\A j \in PacedJobs : paced[j].asked > 0 => paced[j].gone \/ disturbed)

===========================================================================
