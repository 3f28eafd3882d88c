------------------------------- MODULE MCJob -------------------------------
(***************************************************************************)
(* Small instances of Job for model checking.  A run explores several      *)
(* scenarios: its initial states choose one, and the steps are those of    *)
(* the instance of Job with the signals and events of that scenario.       *)
(***************************************************************************)
EXTENDS Job, TLC

\* The scenarios of a run.
CONSTANT Scenarios

VARIABLE scenario

\* The I/O nodes are interchangeable.
Symmetry == Permutations(IoNodes)

\* Connections to I/O nodes are lost while signals are delivered.
Links == INSTANCE Job WITH Signals <- {"TERM", "KILL"}, Events <- {"link"}

\* I/O nodes answer with failures, and a tool is started before the job.
Failures == INSTANCE Job WITH Signals <- {"KILL"}, Events <- {"failure", "debug"}

\* The server restarts; then mux connections are lost and come back, or connections
\* to I/O nodes are lost.
Restart == INSTANCE Job WITH Signals <- {}, Events <- {"restart", "mux", "failure"}
Reconnect == INSTANCE Job WITH Signals <- {"KILL"}, Events <- {"restart", "link"}

\* The client signals or leaves, the mux is lost, the block is freed.
Client == INSTANCE Job WITH Signals <- {}, Events <- {"mux", "client", "block"}

\* Hardware failure signals and kill timeouts that a later signal shortens.
Heartbeats == INSTANCE Job WITH Signals <- {"KILL", "HWFAIL"},
                                Events <- {"mux", "timeout", "failure"}

\* Mux and I/O node connections are lost while a KILL is delivered.
Losses == INSTANCE Job WITH Signals <- {"KILL"}, Events <- {"mux", "link"}

MCInit ==
    /\ scenario \in Scenarios
    /\ \/ scenario = "links" /\ Links!Init
       \/ scenario = "failures" /\ Failures!Init
       \/ scenario = "restart" /\ Restart!Init
       \/ scenario = "reconnect" /\ Reconnect!Init
       \/ scenario = "client" /\ Client!Init
       \/ scenario = "heartbeats" /\ Heartbeats!Init
       \/ scenario = "losses" /\ Losses!Init

MCNext ==
    /\ UNCHANGED scenario
    /\ \/ scenario = "links" /\ Links!Next
       \/ scenario = "failures" /\ Failures!Next
       \/ scenario = "restart" /\ Restart!Next
       \/ scenario = "reconnect" /\ Reconnect!Next
       \/ scenario = "client" /\ Client!Next
       \/ scenario = "heartbeats" /\ Heartbeats!Next
       \/ scenario = "losses" /\ Losses!Next

MCSpec == MCInit /\ [][MCNext]_<<vars, scenario>>

MCFairSpec == MCSpec /\ Fairness
=============================================================================
