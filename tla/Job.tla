-------------------------------- MODULE Job --------------------------------
(***************************************************************************)
(* The life of one job in the runjob server (hlcs/src/runjob/server): the  *)
(* Job object, the handlers that run on its strand, and the parties that   *)
(* race with them (job container, mux connection, I/O node connections,    *)
(* kill timer, control action heartbeat).                                  *)
(*                                                                         *)
(* A strand runs its handlers one at a time, so each handler is one action *)
(* and the code it calls is a function from Job records to Job records,    *)
(* named after the method it stands for.  Calls that cross a strand        *)
(* (posted signals, container removal, timer completions) are separate     *)
(* actions.                                                                *)
(***************************************************************************)
EXTENDS Integers, FiniteSets

CONSTANTS
    IoNodes,     \* I/O nodes the job uses when it is created
    Signals,     \* signals a kill_job command may ask for
    Events,      \* what else the parties around the server may do
    MaxPending   \* requests of one type that may await an answer from a node

ASSUME IoNodesAssumption == IoNodes # {}
ASSUME SignalsAssumption == Signals \subseteq {"TERM", "KILL", "HWFAIL"}
ASSUME EventsAssumption ==
    Events \subseteq {"failure",   \* an I/O node answers a request with a failure
                      "link",      \* I/O node connections are missing or lost
                      "mux",       \* the mux connection is lost and comes back
                      "client",    \* the client sends a signal or ends
                      "debug",     \* a tool is started before the job
                      "block",     \* the compute block is freed
                      "restart",   \* the server restarts while the job runs
                      "timeout"}   \* a later KILL asks for a shorter timeout
ASSUME MaxPendingAssumption == MaxPending \in Nat \ {0}

VARIABLES
    job,       \* the Job object
    link,      \* I/O node -> state of its jobctld and stdiod connections
    mux,       \* the connection to the runjob mux
    clients,   \* this job's entry in the mux connection's client container
    check,     \* progress of CheckIoLinks
    posted,    \* Signal handlers posted to the job's strand
    setConn,   \* a mux::Reconnect::setConnection handler is posted
    inJobs,    \* the job is in the job container
    final      \* the message the destructor left for the client

vars == <<job, link, mux, clients, check, posted, setConn, inJobs, final>>

Status == {"Invalid", "Setup", "Loading", "ClientStarting", "Debug",
           "OutputStarting", "ControlStarting", "Running", "Cleanup", "Terminating"}

\* IoNode::_flags (requests written, and Running) and the IoNode booleans.
Requested == {"Setup", "Loading", "OutputStarting", "ControlStarting", "Running", "Cleanup"}
Reported == {"setup", "loaded", "output_started", "drained", "exited", "ended", "error",
             "killed", "hardwareFailure", "signalInFlight"}

Request == {"SetupJob", "LoadJob", "StartStdio", "StartJob", "SignalJob", "CleanupJob"}

\* The flag that writeControl and writeData set for each request.
FlagOf == [SetupJob |-> "Setup", LoadJob |-> "Loading", StartStdio |-> "OutputStarting",
           StartJob |-> "ControlStarting", SignalJob |-> "signalInFlight",
           CleanupJob |-> "Cleanup"]

Error == {"none", "job_failed_to_start", "job_failed_to_cleanup", "io_node_failure",
          "block_invalid", "kill_timeout"}

\* unset: never started; armed: waiting; expired: its handler is queued with
\* success; stopped: cancelled while waiting; done: the handler has run.
Timer == {"unset", "armed", "expired", "stopped", "done"}

JobType ==
    [status : Status, started : BOOLEAN, io : SUBSET IoNodes,
     node : [IoNodes -> SUBSET (Requested \cup Reported)],
     pending : [IoNodes -> [Request -> 0 .. MaxPending]],
     error : Error, outstanding : {"none", "TERM", "KILL", "HWFAIL"},
     disconnected : BOOLEAN, attached : BOOLEAN, canStart : BOOLEAN,
     timer : Timer, hbStarted : BOOLEAN, hbStopped : BOOLEAN,
     unavailable : BOOLEAN, softwareFailure : BOOLEAN, remove : BOOLEAN]

\* Every variable has the shape the code's declarations give it.
TypeOK ==
    /\ job \in JobType
    /\ link \in [IoNodes -> {"up", "eof", "gone", "down"}]
    /\ mux \in {"up", "closing", "down"}
    /\ clients \in {"none", "placeholder", "job"}
    /\ check \in {"links", "update", "ok", "failed", "done"}
    /\ posted \subseteq [sig : {"TERM", "KILL", "HWFAIL"}, disconnected : BOOLEAN]
    /\ setConn \in BOOLEAN /\ inJobs \in BOOLEAN
    /\ final \in {"none", "ExitJob", "Result", "undelivered"}

-----------------------------------------------------------------------------
(* Pieces of the handlers: functions from Job records to Job records.      *)

SetStatus(j, s) == [j EXCEPT !.status = s, !.started = @ \/ s = "Running"]

SetError(j, e) == [j EXCEPT !.error = e]

SetFlag(j, N, f) ==
    [j EXCEPT !.node = [n \in IoNodes |-> IF n \in N THEN j.node[n] \cup {f} ELSE j.node[n]]]

\* A request reaches a node while its connection is up.  It is lost without
\* notice when the socket is closed, and without setting the flag when the
\* connection object is gone.
Write(j, N, r) ==
    [SetFlag(j, {n \in N : link[n] # "gone" \/ r = "StartStdio"}, FlagOf[r]) EXCEPT
        !.pending = [n \in IoNodes |->
            IF n \in N /\ link[n] = "up" /\ j.pending[n][r] < MaxPending
            THEN [j.pending[n] EXCEPT ![r] = @ + 1]
            ELSE j.pending[n]]]

\* Job::remove: with neither a mux nor a disconnected client, the job ended
\* during a failover and waits in Terminating; otherwise its removal from the
\* container is posted.  After a kill timeout the nodes are recorded as failed
\* in the database.  Stopping a timer whose handler is already queued does not
\* take the handler back.
Remove(j) ==
    LET out == IF j.attached \/ j.disconnected
               THEN [j EXCEPT !.remove = TRUE]
               ELSE SetStatus(j, "Terminating")
    IN  [out EXCEPT !.softwareFailure = @ \/ j.error = "kill_timeout",
                    !.timer = IF @ = "armed" THEN "stopped" ELSE @,
                    !.hbStopped = TRUE]

\* Transition::end
End(j) == Write(SetStatus(j, "Cleanup"), j.io, "CleanupJob")

\* Signal::startTimer.  A timer that was started before is only restarted
\* when the new timeout is shorter than the time it has left.
StartTimer(j, sig, shorter) ==
    [j EXCEPT
        !.timer = IF sig = "KILL" /\ (@ = "unset" \/ (@ = "stopped" /\ shorter))
                  THEN "armed" ELSE @,
        !.hbStarted = @ \/ sig = "HWFAIL"]

\* The nodes that a signal is sent to: KILL and the hardware failure signal
\* go to each node once.
Targets(j, sig) ==
    {n \in j.io : /\ sig = "KILL" => "killed" \notin j.node[n]
                  /\ sig = "HWFAIL" => "hardwareFailure" \notin j.node[n]}

Mark(j, N, sig) ==
    IF sig = "KILL" THEN SetFlag(j, N, "killed")
    ELSE IF sig = "HWFAIL" THEN SetFlag(j, N, "hardwareFailure") ELSE j

\* Fault: a signal that cannot be sent yet does not start the kill timer.
SignalNoTimer(j, sig, shorter) ==
    IF j.status \in {"ClientStarting", "Debug"}
    THEN End(SetError(j, "job_failed_to_start"))
    ELSE IF j.status # "Running" \/ j.outstanding # "none"
    THEN j
    ELSE LET N == Targets(j, sig)
             s == Write(Mark(j, N, sig), N, "SignalJob")
         IN  StartTimer([s EXCEPT !.outstanding = IF N = {} THEN @ ELSE sig], sig, shorter)

\* Signal::impl
Signal(j, sig, shorter) ==
    IF j.status \in {"ClientStarting", "Debug"}
    THEN End(SetError(j, "job_failed_to_start"))
    ELSE IF j.status # "Running" \/ j.outstanding # "none"
    THEN StartTimer(j, sig, shorter)
    ELSE LET N == Targets(j, sig)
             s == Write(Mark(j, N, sig), N, "SignalJob")
         IN  StartTimer([s EXCEPT !.outstanding = IF N = {} THEN @ ELSE sig], sig, shorter)

-----------------------------------------------------------------------------
(* Transitions between the stages of a job.                                *)

\* Fault: a node counts as cleaned up once it was told to clean up.
DoneWhenTold(j, n) ==
    CASE j.status = "Setup"           -> j.node[n] \cap {"setup", "error"} # {}
      [] j.status = "Loading"         -> j.node[n] \cap {"loaded", "error"} # {}
      [] j.status = "OutputStarting"  -> j.node[n] \cap {"output_started", "error"} # {}
      [] j.status = "ControlStarting" -> j.node[n] \cap {"Running", "error"} # {}
      [] j.status = "Running"         -> /\ "drained" \in j.node[n]
                                         /\ \E m \in j.io : "exited" \in j.node[m]
      [] j.status = "Cleanup"         -> "Cleanup" \in j.node[n]
      [] OTHER                        -> FALSE

\* Transition::next: what a node must have reported before the job may leave
\* the stage.  Only one node, the job leader's, reports that the job exited.
Done(j, n) ==
    CASE j.status = "Setup"           -> j.node[n] \cap {"setup", "error"} # {}
      [] j.status = "Loading"         -> j.node[n] \cap {"loaded", "error"} # {}
      [] j.status = "OutputStarting"  -> j.node[n] \cap {"output_started", "error"} # {}
      [] j.status = "ControlStarting" -> j.node[n] \cap {"Running", "error"} # {}
      [] j.status = "Running"         -> /\ "drained" \in j.node[n]
                                         /\ \E m \in j.io : "exited" \in j.node[m]
      [] j.status = "Cleanup"         -> "ended" \in j.node[n]
      [] OTHER                        -> FALSE

Ready(j) == \A n \in j.io : Done(j, n)

\* Fault: an exit that came before the last StartJobAck is not looked for.
RunNoRecheck(j, shorter) ==
    LET r == SetStatus(j, "Running")
    IN  IF ~j.attached \/ j.timer = "unset" THEN r ELSE Signal(r, "KILL", shorter)

\* Transition::run: a job that lost its mux neither delivers a waiting KILL
\* nor looks for an exit that came before the last StartJobAck.
Run(j, shorter) ==
    LET r == SetStatus(j, "Running")
        k == IF j.timer = "unset" THEN r ELSE Signal(r, "KILL", shorter)
    IN  IF ~j.attached THEN r ELSE IF Ready(k) THEN End(k) ELSE k

\* Transition::loaded
Loaded(j) ==
    LET c == SetStatus(j, "ClientStarting")
    IN  IF j.disconnected THEN End(SetError(c, "job_failed_to_start"))
        ELSE [c EXCEPT !.canStart = @ \/ j.attached]

\* Load::create, Start::create for each of the two services
Load(j) == Write(SetStatus(j, "Loading"), j.io, "LoadJob")

StartOutput(j) == Write(SetStatus(j, "OutputStarting"), j.io, "StartStdio")

StartControl(j) == Write(SetStatus(j, "ControlStarting"), j.io, "StartJob")

\* Fault: the stages go on after an error.
TransitionPastError(j, shorter) ==
    IF ~Ready(j) THEN j
    ELSE CASE j.status = "Setup"           -> Load(j)
           [] j.status = "Loading"         -> Loaded(j)
           [] j.status = "OutputStarting"  -> StartControl(j)
           [] j.status = "ControlStarting" -> Run(j, shorter)
           [] j.status = "Running"         -> End(j)
           [] j.status = "Cleanup"         -> Remove(j)
           [] OTHER                        -> j

\* Handle::transition, for every message but SignalJobAck
Transition(j, shorter) ==
    IF ~Ready(j) THEN j
    ELSE IF j.status \in {"Setup", "Loading", "OutputStarting", "ControlStarting"}
            /\ j.error # "none" THEN End(j)
    ELSE CASE j.status = "Setup"           -> Load(j)
           [] j.status = "Loading"         -> Loaded(j)
           [] j.status = "OutputStarting"  -> StartControl(j)
           [] j.status = "ControlStarting" -> Run(j, shorter)
           [] j.status = "Running"         -> End(j)
           [] j.status = "Cleanup"         -> Remove(j)
           [] OTHER                        -> j

\* IoNode::setupFailure, loadFailure and cleanupFailure
Failure(j, n, e) == SetError(SetFlag(j, {n}, "error"), e)

\* IoNode::startFailure: the nodes that did start are killed at once, and no
\* signal is recorded as outstanding.
StartFailure(j, n) ==
    LET f == Failure(j, n, "job_failed_to_start")
        N == {m \in j.io : "Running" \in j.node[m] /\ "killed" \notin j.node[m]}
    IN  Write(SetFlag(f, N, "killed"), N, "SignalJob")

\* Handle::transition for SignalJobAck: the last acknowledgement delivers a
\* KILL that was asked for while the signal was outstanding.
SignalAcked(j, shorter) ==
    LET a == [j EXCEPT !.outstanding = "none"]
    IN  IF \E n \in j.io : "signalInFlight" \in j.node[n] THEN j
        ELSE IF j.outstanding \in {"none", "TERM"} /\ j.timer # "unset"
        THEN Signal(a, "KILL", shorter) ELSE a

-----------------------------------------------------------------------------
(* Initial states.                                                         *)

NewJob ==
    [status |-> "Invalid", started |-> FALSE, io |-> IoNodes,
     node |-> [n \in IoNodes |-> {}],
     pending |-> [n \in IoNodes |-> [r \in Request |-> 0]],
     error |-> "none", outstanding |-> "none",
     disconnected |-> FALSE, attached |-> TRUE, canStart |-> FALSE,
     timer |-> "unset", hbStarted |-> FALSE, hbStopped |-> FALSE,
     unavailable |-> FALSE, softwareFailure |-> FALSE, remove |-> FALSE]

\* Container::addImpl put the job in the container and CheckIoLinks::create
\* started; the client waits in the mux connection's client container.  Some
\* I/O nodes may never have connected.
InitSubmitted ==
    /\ job = NewJob
    /\ link \in [IoNodes -> IF "link" \in Events THEN {"up", "down"} ELSE {"up"}]
    /\ mux = "up" /\ clients = "placeholder" /\ check = "links"

\* A restarted server found the job Running in the database (job::Reconnect)
\* and the mux has not connected yet.
InitReconnected ==
    /\ "restart" \in Events
    /\ job = SetStatus([NewJob EXCEPT !.node = [n \in IoNodes |-> {"Running", "drained"}],
                                      !.attached = FALSE], "Running")
    /\ link = [n \in IoNodes |-> "up"]
    /\ mux = "down" /\ clients = "none" /\ check = "done"

Init ==
    /\ InitSubmitted \/ InitReconnected
    /\ posted = {} /\ setConn = FALSE /\ inJobs = TRUE /\ final = "none"

-----------------------------------------------------------------------------
(* CheckIoLinks: every link is looked at, then the client is told its job. *)

JobStep(j) ==
    /\ final = "none"
    /\ job' = j
    /\ UNCHANGED <<link, mux, clients, posted, setConn, inJobs, final>>

\* executeImpl, for a link without a socket
LinkNotConnected ==
    /\ check = "links" /\ \E n \in IoNodes : link[n] # "up"
    /\ JobStep(Remove(SetError(job, "job_failed_to_start")))
    /\ check' = "done"

\* executeImpl, once the mux is gone: the handler returns and nothing is left
\* that would continue or remove the job.
LinksWithoutMux ==
    /\ check = "links" /\ ~job.attached
    /\ JobStep(job)
    /\ check' = "done"

\* executeImpl, for the last link: one that was never up would have been
\* noticed, one that was lost after it was looked at is not.  The update goes
\* to the container of the mux connection the job has now, and fails once
\* that container has forgotten the client.
LastLinkConnected ==
    /\ check = "links" /\ job.attached
    /\ \A n \in job.io : link[n] # "down"
    /\ JobStep(job)
    /\ check' = IF clients = "none" THEN "failed" ELSE "update"

\* ClientContainer::updateImpl, on the client container's strand
ClientUpdate ==
    /\ final = "none" /\ check = "update"
    /\ check' = IF clients = "none" THEN "failed" ELSE "ok"
    /\ clients' = IF clients = "none" THEN "none" ELSE "job"
    /\ UNCHANGED <<job, link, mux, posted, setConn, inJobs, final>>

\* updateClientImpl: the client left before its job was known to it
ClientUpdateFailed ==
    /\ check = "failed"
    /\ JobStep(Remove(SetError(job, "job_failed_to_start")))
    /\ check' = "done"

\* updateClientImpl and Setup::create, which may refuse the mapping file
SetupCreate ==
    /\ check = "ok"
    /\ \/ JobStep(Write(SetStatus(job, "Setup"), job.io, "SetupJob"))
       \/ JobStep(Remove(SetError(SetStatus(job, "Setup"), "job_failed_to_start")))
    /\ check' = "done"

-----------------------------------------------------------------------------
(* Messages from the I/O nodes.  A connection looks the job up in the      *)
(* container and posts the message to the job's strand.  A message posted  *)
(* before the job left the container is handled as if before it left.      *)

Handled(j) == JobStep(j) /\ UNCHANGED check

Connected(n) == inJobs /\ n \in job.io /\ link[n] = "up"

\* The daemon on n answers a request; the answer is taken from the pending ones.
Answers(n, r) == Connected(n) /\ job.pending[n][r] > 0

Taken(n, r) == [job EXCEPT !.pending[n][r] = @ - 1]

SetupJobAck(n, ok, shorter) ==
    /\ Answers(n, "SetupJob")
    /\ LET t == Taken(n, "SetupJob")
       IN  Handled(Transition(IF ok THEN SetFlag(t, {n}, "setup")
                              ELSE Failure(t, n, "job_failed_to_start"), shorter))

LoadJobAck(n, ok, shorter) ==
    /\ Answers(n, "LoadJob")
    /\ LET t == Taken(n, "LoadJob")
       IN  Handled(Transition(IF ok THEN SetFlag(t, {n}, "loaded")
                              ELSE Failure(t, n, "job_failed_to_start"), shorter))

StdioStartJobAck(n, ok, shorter) ==
    /\ Answers(n, "StartStdio")
    /\ LET t == Taken(n, "StartStdio")
       IN  Handled(Transition(IF ok THEN SetFlag(t, {n}, "output_started")
                              ELSE StartFailure(t, n), shorter))

StartJobAck(n, ok, shorter) ==
    /\ Answers(n, "StartJob")
    /\ LET t == Taken(n, "StartJob")
       IN  Handled(Transition(IF ok THEN SetFlag(t, {n}, "Running")
                              ELSE StartFailure(t, n), shorter))

SignalJobAck(n, shorter) ==
    /\ Answers(n, "SignalJob")
    /\ LET t == Taken(n, "SignalJob")
       IN  Handled(SignalAcked([t EXCEPT !.node[n] = @ \ {"signalInFlight"}], shorter))

\* The epilog's failure is kept only when there is no error yet; the job ends
\* whatever the return codes are.
CleanupJobAck(n, ok, epilog, shorter) ==
    /\ Answers(n, "CleanupJob")
    /\ LET t == Taken(n, "CleanupJob")
           e == IF epilog \/ t.error # "none" THEN t ELSE SetError(t, "job_failed_to_cleanup")
           c == IF ok THEN e ELSE Failure(e, n, "job_failed_to_cleanup")
       IN  Handled(Transition(SetFlag(c, {n}, "ended"), shorter))
\* The job leader's node reports that the job exited; it does so once, after
\* it acknowledged its start.
ExitJob(n, shorter) ==
    /\ Connected(n) /\ "Running" \in job.node[n]
    /\ \A m \in IoNodes : "exited" \notin job.node[m]
    /\ Handled(Transition(SetFlag(job, {n}, "exited"), shorter))

\* A rank ended: exit status 1 terminates the others, a signal kills them.
ExitProcess(n, how, shorter) ==
    /\ Connected(n) /\ "Running" \in job.node[n] /\ "ended" \notin job.node[n]
    /\ Handled(Transition(CASE how = "exit1"  -> Signal(job, "TERM", shorter)
                            [] how = "signal" -> Signal(job, "KILL", shorter)
                            [] OTHER          -> job, shorter))

\* The standard output of the ranks behind n is closed; this travels on
\* another connection than the StartJobAck and may overtake it.
CloseStdio(n, shorter) ==
    /\ Connected(n) /\ "ControlStarting" \in job.node[n] /\ "drained" \notin job.node[n]
    /\ Handled(Transition(SetFlag(job, {n}, "drained"), shorter))

-----------------------------------------------------------------------------
(* The client: start requests, tools, signals.                             *)

\* mux::StartJob and job::Start, on whatever status the job has by then
StartJob ==
    /\ inJobs /\ job.canStart
    /\ Handled(StartOutput([job EXCEPT !.canStart = FALSE]))

\* job::Debug::impl for a job that has not started
Debug ==
    /\ inJobs /\ mux # "down" /\ job.status = "ClientStarting"
    /\ Handled(SetStatus(job, "Debug"))

\* job::Debug::callback when the tool could not be started
DebugFailed ==
    /\ mux # "down" /\ job.status = "Debug"
    /\ Handled(End(SetError(job, "job_failed_to_start")))

Post(s) ==
    /\ posted' = posted \cup {s}
    /\ UNCHANGED <<link, mux, check, setConn, inJobs, final>>

\* The kill_job command found the job in the container.
KillJob(sig) ==
    /\ final = "none" /\ inJobs
    /\ Post([sig |-> sig, disconnected |-> FALSE])
    /\ UNCHANGED <<job, clients>>

\* ClientContainer::killImpl: a signal from the client, or its end.  A client
\* whose job is not known yet is forgotten.
ClientKill(sig, disconnected) ==
    /\ final = "none" /\ mux = "up"
    /\ \/ /\ clients = "job"
          /\ Post([sig |-> sig, disconnected |-> disconnected])
          /\ UNCHANGED <<job, clients>>
       \/ /\ clients = "placeholder"
          /\ clients' = "none"
          /\ UNCHANGED <<job, link, mux, check, posted, setConn, inJobs, final>>

\* Container::blockEofImpl runs on the container's strand: the signal is
\* posted, the error is set at once.
BlockEof ==
    /\ final = "none" /\ inJobs
    /\ Post([sig |-> "KILL", disconnected |-> FALSE])
    /\ job' = SetError(job, "block_invalid")
    /\ UNCHANGED clients

\* A posted ClientContainer::signalImpl or Signal::impl runs.
RunSignal(s, shorter) ==
    /\ final = "none" /\ s \in posted
    /\ posted' = posted \ {s}
    /\ job' = Signal([job EXCEPT !.disconnected = @ \/ s.disconnected], s.sig, shorter)
    /\ UNCHANGED <<link, mux, clients, check, setConn, inJobs, final>>

-----------------------------------------------------------------------------
(* The mux connection.                                                     *)

\* ClientContainer::eofImpl: the mux connection ended.  An update that is
\* posted to its client container no longer finds the client.
MuxEof ==
    /\ final = "none" /\ mux = "up"
    /\ mux' = "closing" /\ clients' = "none"
    /\ IF clients = "job"
       THEN /\ job' = [job EXCEPT !.disconnected = TRUE]
            /\ posted' = posted \cup {[sig |-> "KILL", disconnected |-> FALSE]}
       ELSE UNCHANGED <<job, posted>>
    /\ check' = IF check = "update" THEN "failed" ELSE check
    /\ UNCHANGED <<link, setConn, inJobs, final>>

\* The connection object is destroyed and weak pointers to it expire.
MuxGone ==
    /\ final = "none" /\ mux = "closing"
    /\ mux' = "down" /\ setConn' = FALSE
    /\ job' = [job EXCEPT !.attached = FALSE]
    /\ UNCHANGED <<link, clients, check, posted, inJobs, final>>

\* mux::Reconnect up to updateClient: a new mux connection is told of the job.
\* The server reconnects jobs by default; with another scope, as in simulation,
\* create returns at once and a job without a client stays so.  A database
\* connection is there to be had: nextJob does not look for it.
MuxReconnect ==
    /\ final = "none" /\ mux = "down"
    /\ mux' = "up"
    /\ IF inJobs THEN clients' = "job" /\ setConn' = TRUE ELSE UNCHANGED <<clients, setConn>>
    /\ UNCHANGED <<job, link, check, posted, inJobs, final>>

\* Fault: a job that ended during the failover stays.
SetConnectionKeeps ==
    /\ final = "none" /\ setConn
    /\ setConn' = FALSE
    /\ job' = [job EXCEPT !.attached = TRUE]
    /\ UNCHANGED <<link, mux, clients, check, posted, inJobs, final>>

\* mux::Reconnect::setConnection: a job that ended during the failover is removed.
SetConnection ==
    /\ final = "none" /\ setConn
    /\ setConn' = FALSE
    /\ job' = [job EXCEPT !.attached = TRUE, !.remove = @ \/ job.status = "Terminating"]
    /\ UNCHANGED <<link, mux, clients, check, posted, inJobs, final>>

-----------------------------------------------------------------------------
(* I/O node connections, timers, removal.                                  *)

\* A connection is lost: what was on its way is lost with it.  When the I/O
\* block is removed the connection object goes too.
LinkLost(n, how) ==
    /\ final = "none" /\ link[n] = "up" /\ how \in {"eof", "gone"}
    /\ link' = [link EXCEPT ![n] = how]
    /\ job' = [job EXCEPT !.pending[n] = [r \in Request |-> 0]]
    /\ UNCHANGED <<mux, clients, check, posted, setConn, inJobs, final>>

\* Fault: the job's other nodes are not killed.
EndOfFileNoKill(n, shorter) ==
    /\ final = "none" /\ link[n] \in {"eof", "gone"}
    /\ link' = [link EXCEPT ![n] = "down"]
    /\ LET e == SetError([job EXCEPT !.io = @ \ {n}], "io_node_failure")
       IN  job' = IF ~inJobs \/ n \notin job.io THEN job
                  ELSE IF e.io = {} THEN Remove(e) ELSE e
    /\ UNCHANGED <<mux, clients, check, posted, setConn, inJobs, final>>

\* Container::ioEofImpl and EndOfFile::impl
EndOfFile(n, shorter) ==
    /\ final = "none" /\ link[n] \in {"eof", "gone"}
    /\ link' = [link EXCEPT ![n] = "down"]
    /\ LET e == SetError([job EXCEPT !.io = @ \ {n}], "io_node_failure")
       IN  job' = IF ~inJobs \/ n \notin job.io THEN job
                  ELSE IF e.io = {} THEN Remove(e) ELSE Signal(e, "KILL", shorter)
    /\ UNCHANGED <<mux, clients, check, posted, setConn, inJobs, final>>

\* The kill timeout passes: the handler is queued on the job's strand.
KillTimerExpires ==
    /\ job.timer = "armed"
    /\ Handled([job EXCEPT !.timer = "expired"])

\* Fault: the handler marks the nodes and leaves the removal to the cleanup.
KillTimerHandlerKeeps ==
    /\ job.timer = "expired"
    /\ LET r == SetError([job EXCEPT !.timer = "done", !.unavailable = TRUE], "kill_timeout")
       IN  Handled(Write(r, {n \in r.io : "Cleanup" \notin r.node[n]}, "CleanupJob"))

\* KillTimer::handler
KillTimerHandler ==
    /\ job.timer = "expired"
    /\ LET r == Remove(SetError([job EXCEPT !.timer = "done", !.unavailable = TRUE],
                                "kill_timeout"))
       IN  Handled(Write(r, {n \in r.io : "Cleanup" \notin r.node[n]}, "CleanupJob"))

\* The end of a job whose nodes do not report after a hardware failure signal
HeartbeatTimeout == Remove(SetError([job EXCEPT !.unavailable = TRUE], "kill_timeout"))

\* Heartbeat::handler when a node did not report
HeartbeatHandler ==
    /\ job.hbStarted /\ ~job.hbStopped
    /\ Handled(HeartbeatTimeout)

\* Heartbeat::pulse when the last node reports that no tool is active
HeartbeatPulse(n, shorter) ==
    /\ Connected(n) /\ job.hbStarted
    /\ Handled(Transition(HeartbeatTimeout, shorter))

\* Container::removeImpl
ContainerRemove ==
    /\ final = "none" /\ job.remove
    /\ inJobs' = FALSE
    /\ job' = [job EXCEPT !.remove = FALSE]
    /\ UNCHANGED <<link, mux, clients, check, posted, setConn, final>>

\* Job::~Job and Destroy, when nothing holds the job any longer
Destroy ==
    /\ final = "none" /\ ~inJobs /\ ~job.remove
    /\ posted = {} /\ ~setConn /\ check = "done"
    /\ job.timer \notin {"armed", "expired"}
    /\ ~(job.hbStarted /\ ~job.hbStopped)
    /\ final' = IF ~job.attached THEN "undelivered"
                ELSE IF job.started THEN "ExitJob" ELSE "Result"
    /\ clients' = IF job.attached THEN "none" ELSE clients
    /\ UNCHANGED <<job, link, mux, check, posted, setConn, inJobs>>

-----------------------------------------------------------------------------

Outcome == {ok \in BOOLEAN : ok \/ "failure" \in Events}

Answer(n, shorter) ==
    \/ \E ok \in Outcome : \/ SetupJobAck(n, ok, shorter) \/ LoadJobAck(n, ok, shorter)
                           \/ StdioStartJobAck(n, ok, shorter) \/ StartJobAck(n, ok, shorter)
                           \/ \E epilog \in Outcome : CleanupJobAck(n, ok, epilog, shorter)
    \/ SignalJobAck(n, shorter)

\* What happens on the compute nodes
Ranks(n, shorter) ==
    \/ ExitJob(n, shorter) \/ CloseStdio(n, shorter)
    \/ \E how \in {"exit0", "exit1", "signal"} : ExitProcess(n, how, shorter)

Environment ==
    \/ StartJob
    \/ \E sig \in Signals : KillJob(sig)
    \/ "client" \in Events /\ (ClientKill("TERM", FALSE) \/ ClientKill("KILL", TRUE))
    \/ "debug" \in Events /\ (Debug \/ DebugFailed)
    \/ "block" \in Events /\ BlockEof
    \/ "mux" \in Events /\ MuxEof
    \/ "link" \in Events /\ \E n \in IoNodes, how \in {"eof", "gone"} : LinkLost(n, how)

\* The handlers of the server
Server(shorter) ==
    \/ LinkNotConnected \/ LinksWithoutMux \/ LastLinkConnected
    \/ ClientUpdate \/ ClientUpdateFailed \/ SetupCreate
    \/ MuxGone \/ MuxReconnect \/ SetConnection
    \/ \E s \in posted : RunSignal(s, shorter)
    \/ \E n \in IoNodes : EndOfFile(n, shorter) \/ HeartbeatPulse(n, shorter)
    \/ KillTimerExpires \/ KillTimerHandler \/ HeartbeatHandler
    \/ ContainerRemove \/ Destroy

Next ==
    \/ Environment
    \/ \E shorter \in {b \in BOOLEAN : b => "timeout" \in Events} :
          \/ Server(shorter)
          \/ \E n \in IoNodes : Answer(n, shorter) \/ Ranks(n, shorter)

Spec == Init /\ [][Next]_vars

-----------------------------------------------------------------------------
(* Safety.                                                                 *)

\* No stage of a job starts before every I/O node it still uses has finished
\* the stage before (Handle::transition, Transition::next, IoNode::handle*):
\* programs are loaded where the job is set up, standard output is started
\* where it is loaded, and a job is Running only when every node started it.
\* An error, or an I/O node that goes away, must not let a stage be skipped.
StageOrder ==
    \A n \in job.io :
        /\ job.status = "Loading" => "setup" \in job.node[n]
        /\ job.status \in {"ClientStarting", "Debug", "OutputStarting"} => "loaded" \in job.node[n]
        /\ job.status = "ControlStarting" => "output_started" \in job.node[n]
        /\ job.status = "Running" => "Running" \in job.node[n]

\* When a job leaves the container its compute nodes may be given to other
\* jobs.  By then every I/O node that was told to set the job up, or runs it
\* since before a restart, has reported the end of its cleanup, or the
\* compute nodes were marked unavailable (Job::remove and all its callers).
\* One thing else releases a node, without any report: its connection ended
\* and EndOfFile::impl took it out of the job.
Released(j) ==
    \/ j.unavailable
    \/ \A n \in IoNodes : j.node[n] \cap {"Setup", "Running"} # {} =>
          "ended" \in j.node[n] \/ (n \notin j.io /\ link[n] = "down")

CleanRelease == ~inJobs => Released(job)

\* A signal that is recorded as outstanding, and so holds back other signals,
\* has an acknowledgement to wait for, or the kill timer ends the job
\* (Signal::impl, EndOfFile::impl, IoNode::writeControl).
OutstandingAnswered ==
    (inJobs /\ ~job.remove /\ job.outstanding # "none") =>
        \/ \E n \in job.io : "signalInFlight" \in job.node[n] \/ link[n] = "gone"
        \/ job.timer # "unset" \/ job.status = "Terminating"

\* A job that could leave its stage is never forgotten: where a handler
\* erases the last node that was not done, or returns early, the kill timer
\* runs or is about to be started, or an answer is still to come that makes
\* Handle::transition look again (EndOfFile::impl, Transition::run).  A job in
\* Terminating is past its stages and waits for the mux.
NoSilentStall ==
    (inJobs /\ ~job.remove /\ job.status # "Terminating" /\ Ready(job)) =>
        \/ job.timer # "unset"
        \/ \E s \in posted : s.sig = "KILL"
        \/ \E n \in job.io, r \in Request : job.pending[n][r] > 0
        \/ \E n \in job.io : link[n] \in {"eof", "gone"}

\* What ends a job that has nobody else to end it.
BeingKilled ==
    \/ \E s \in posted : s.sig = "KILL"
    \/ job.timer # "unset"
    \/ \E n \in job.io : "Cleanup" \in job.node[n] \/ link[n] = "gone"

\* The client left, or the job is being started for a client that the mux or
\* the client container does not have.
Orphan ==
    \/ job.disconnected
    \/ /\ job.status \in {"Setup", "Loading", "ClientStarting", "Debug", "OutputStarting",
                           "ControlStarting"} \/ job.canStart
       /\ ~(job.attached /\ mux = "up" /\ clients = "job")

\* A job whose client is gone, with the mux or alone, has a KILL on its way, a
\* kill timer that was started, or was ended (ClientContainer::eofImpl and
\* signalImpl, Signal::impl, Transition::loaded): nobody else would end it.  A
\* client that leaves while CheckIoLinks runs has no job to kill yet (killImpl),
\* and no job is set up for it.
OrphanKilled == inJobs /\ ~job.remove /\ Orphan => BeingKilled

-----------------------------------------------------------------------------
(* The inductive invariant behind StageOrder and CleanRelease.             *)

\* A flag is only reported after its request was written, no request to start
\* is on its way to a node that is not set up, and a node's error is an error
\* of the job.
NodeInv(j) ==
    \A n \in IoNodes :
        /\ (j.pending[n]["SetupJob"] > 0 \/ j.pending[n]["StartJob"] > 0)
              => "Setup" \in j.node[n]
        /\ "setup" \in j.node[n] => "Setup" \in j.node[n]
        /\ "error" \in j.node[n] => j.error # "none"

\* StageOrder, with what a start request that is still on its way relies on
StageInv(j) ==
    \A n \in j.io :
        /\ j.status = "Loading" => "setup" \in j.node[n]
        /\ j.status \in {"ClientStarting", "Debug", "OutputStarting"} \/ j.canStart
              => {"setup", "loaded"} \subseteq j.node[n]
        /\ j.status = "ControlStarting" => {"setup", "output_started"} \subseteq j.node[n]
        /\ j.status = "Running" => "Running" \in j.node[n]

\* Until CheckIoLinks is done nothing was sent to an I/O node but cleanups.
CheckInv ==
    check # "done" =>
        /\ job.status \in {"Invalid", "Terminating"} /\ ~job.canStart
        /\ \A n \in IoNodes : job.node[n] \cap {"Setup", "Running"} = {}

\* Every node that the job still has was cleaned up.
Cleaned(j) ==
    \/ j.unavailable
    \/ \A n \in j.io : j.node[n] \cap {"Setup", "Running"} # {} => "ended" \in j.node[n]

\* A job lost only nodes whose connections ended.
LostNodes == \A n \in IoNodes \ job.io : link[n] = "down"

\* From the call of Job::remove on the nodes are released, and a CheckIoLinks
\* that goes on finds no I/O node left to set up.
ReleaseInv ==
    (job.remove \/ ~inJobs \/ job.status = "Terminating") =>
        /\ Cleaned(job)
        /\ check # "done" => job.io = {} \/ job.unavailable

\* OrphanKilled for a client that is known to be gone
DisconnectedKilled ==
    (inJobs /\ ~job.remove /\ job.disconnected) =>
        \/ \E s \in posted : s.sig = "KILL"
        \/ job.timer # "unset"
        \/ \E n \in job.io : "Cleanup" \in job.node[n] \/ link[n] = "gone"

\* The inductive invariant behind it: a client's end is always posted as a KILL,
\* and a job without I/O nodes does not wait for its client to start it.
\* LostNodes, which CleanRelease needs too, holds along the same steps.
OrphanInv ==
    /\ DisconnectedKilled /\ LostNodes
    /\ \A s \in posted : s.disconnected => s.sig = "KILL"
    /\ inJobs /\ ~job.remove /\ job.io = {} => job.status \notin {"ClientStarting", "Debug"}

\* A job is started once: from its start on no start request is left, and only
\* a job that was started has an outstanding signal.
StartedOnce(j) ==
    /\ j.outstanding # "none" => j.status \in {"Running", "Cleanup", "Terminating"} /\ ~j.canStart
    /\ j.status \in {"OutputStarting", "ControlStarting", "Running"} => ~j.canStart

\* CheckIoLinks and the client have not let the job begin, and only a timeout can
\* have told its nodes to clean up.
Untouched(j) ==
    /\ j.status \in {"Invalid", "Terminating"} /\ ~j.canStart /\ j.outstanding = "none"
    /\ (\E n \in IoNodes : "Cleanup" \in j.node[n]) => j.error # "none"

\* The inductive invariant behind OutstandingAnswered
OutstandingInv ==
    OutstandingAnswered /\ StartedOnce(job) /\ (check # "done" => Untouched(job))

\* A job that is being started, or can be, has a client or is known to have lost it.
ClientInv ==
    /\ (job.status \in {"Setup", "Loading", "ClientStarting", "Debug", "OutputStarting",
                        "ControlStarting"} \/ job.canStart)
         => job.disconnected \/ (job.attached /\ mux = "up" /\ clients = "job")
    /\ clients # "none" => mux = "up"
    /\ check = "update" => job.attached /\ mux = "up"
    /\ check = "ok" => job.disconnected \/ (job.attached /\ mux = "up" /\ clients = "job")

\* A job that was ended before it was started has an error, so it never runs.
EndedInv(j) ==
    (j.canStart \/ j.status \notin {"Cleanup", "Terminating"})
    /\ (\E n \in IoNodes : "Cleanup" \in j.node[n]) => j.error # "none"

\* A job that is set up has I/O nodes, and their connections were up.
IoInv ==
    /\ job.io = {} /\ ~job.remove =>
          job.status = "Terminating" /\ ~job.attached /\ ~job.canStart /\ check \notin {"update", "ok"}
    /\ (job.status \notin {"Invalid", "Terminating"} \/ job.canStart \/ check \in {"update", "ok"})
         => \A n \in job.io : link[n] # "down"

\* Why a job that is ready will be looked at: not because of a SignalJobAck, which
\* does not move a job to its next stage.
Noticed(j) ==
    \/ j.remove \/ j.status = "Terminating" \/ ~Ready(j) \/ j.timer # "unset"
    \/ \E n \in j.io, r \in Request \ {"SignalJob"} : j.pending[n][r] > 0
    \/ \E n \in j.io : link[n] \in {"eof", "gone"}

\* The inductive invariant behind NoSilentStall
StallInv ==
    /\ EndedInv(job)
    /\ inJobs => /\ ClientInv /\ IoInv
                 /\ Noticed(job) \/ \E s \in posted : s.sig = "KILL"

JobInv == TypeOK /\ NodeInv(job) /\ StageInv(job) /\ CheckInv /\ ReleaseInv

-----------------------------------------------------------------------------
(* Liveness.  The I/O service runs what is posted to it, timers expire and *)
(* closed connections are noticed.  Nothing is assumed of the I/O nodes,   *)
(* the client or the mux.                                                  *)

Fairness ==
    /\ WF_vars(LinkNotConnected \/ LinksWithoutMux \/ LastLinkConnected)
    /\ WF_vars(ClientUpdate) /\ WF_vars(ClientUpdateFailed) /\ WF_vars(SetupCreate)
    /\ WF_vars(MuxGone) /\ WF_vars(SetConnection)
    /\ WF_vars(\E s \in posted : RunSignal(s, FALSE))
    /\ \A n \in IoNodes : WF_vars(EndOfFile(n, FALSE))
    /\ WF_vars(KillTimerExpires) /\ WF_vars(KillTimerHandler)
    /\ WF_vars(ContainerRemove) /\ WF_vars(Destroy)

FairSpec == Spec /\ Fairness

\* Once the kill timer was started the job ends, whatever I/O nodes, client
\* and mux do: it leaves the container, or waits for the mux to come back
\* after a failover (KillTimer::handler, Job::remove).
KilledJobEnds == job.timer # "unset" ~> (~inJobs \/ job.status = "Terminating")

\* A job that ended while the mux was away is removed once a mux connection is
\* back and stays (Job::remove, mux::Reconnect::setConnection).
FailoverRemoved ==
    (mux = "up" /\ job.status = "Terminating") ~> (mux # "up" \/ ~inJobs)

-----------------------------------------------------------------------------
(* What the documentation and the comments say and the code does not do.   *)

\* Documented: a job that was sent a KILL is ended by the kill timer if need
\* be.  Before it was started it is cleaned up without a timer (Signal::impl).
KillEnds ==
    (\E s \in posted : s.sig = "KILL") ~> (~inJobs \/ job.status = "Terminating")

\* Nodes of a job that was removed with its nodes cleaned up stay available.
\* A queued kill timer handler runs after Job::remove stopped the timer.
EndedJobKeepsNodes ==
    [][(job.remove \/ ~inJobs) /\ Released(job) => job.unavailable' = job.unavailable]_vars

\* A client that the container forgot before it had a job is aborted.
\* CheckIoLinks returns without removing the job when the mux is gone.
ForgottenClientAborts ==
    (check = "links" /\ clients = "none") ~> (~inJobs \/ clients = "job")

=============================================================================
