-------------------------- MODULE CiosConnection --------------------------
(***************************************************************************)
(* cios::Connection of the runjob server: one of the two links (jobctl or  *)
(* stdio) to an I/O node, its outbox, its chain of reads, its heartbeat    *)
(* and its attempts to connect (ConnectionInterval, Authenticate).         *)
(*                                                                         *)
(* c holds the fields of the connection and the operations it has given to *)
(* the io_service.  An action is one completed operation or one handler    *)
(* with everything it calls.  A session is named by the attempt that       *)
(* opened it, so _socket is the number of an attempt, and 0 is no socket.  *)
(***************************************************************************)
EXTENDS Integers, Sequences, FiniteSets

CONSTANTS
    MaxStarts,      \* bound: calls of start() on this connection
    MaxMessages     \* bound: messages accepted by writeImpl

ASSUME CiosBoundsAssumption ==
    MaxStarts \in Nat \ {0} /\ MaxMessages \in Nat

VARIABLES service, c

cvars == <<service, c>>

Attempts == 1 .. MaxStarts

\* Of an attempt to connect; unwatched is authenticating without a timer.
Phases == {"none", "waiting", "connecting", "connected", "authenticating",
           "unwatched", "authenticated", "over", "failed"}

Messages == [n : 1 .. MaxMessages, beat : BOOLEAN]

\* An outstanding operation: the session it is on and its result so far.
Results == {"pending", "ok", "failed", "aborted"}

\* at: the place of a chain of reads between two calls of read().
Chains == [at : {"none", "header", "data", "pulse", "away"},
           on : 0 .. MaxStarts, res : Results]

NoChain == [at |-> "none", on |-> 0, res |-> "ok"]

Connections ==
    [block : {"there", "stopping", "gone"},     \* the weak pointer _block
     starts : 0 .. MaxStarts,                   \* calls of start() so far
     phase : [Attempts -> Phases],              \* of each attempt to connect
     interval : 0 .. MaxStarts, authenticate : 0 .. MaxStarts,
     socket : 0 .. MaxStarts,
     chain : [Attempts -> Chains],              \* by the attempt that began it
     outbox : Seq(Messages),
     writes : SUBSET [msg : Messages, on : 0 .. MaxStarts, res : Results],
     accepted : 0 .. MaxMessages,               \* messages put in the outbox
     wire : Seq(1 .. MaxMessages),              \* messages given to a socket
     silent : BOOLEAN,                          \* _pulse is not_a_date_time
     crashed : BOOLEAN]                         \* *_socket without a socket

CTypeOK == service \in {"jobctl", "stdio"} /\ c \in Connections

---------------------------------------------------------------------------
(* Helpers that the handlers share.                                        *)

\* What the destruction or the cancellation of socket s does to an
\* operation outstanding on it.
Cancelled(op, s) ==
    IF op.on = s /\ op.res = "pending" THEN [op EXCEPT !.res = "aborted"] ELSE op

cancel(k, s) ==
    [k EXCEPT !.chain = [a \in Attempts |-> Cancelled(k.chain[a], s)],
              !.writes = {Cancelled(w, s) : w \in k.writes}]

\* The old interval is only forgotten: its timer or its connect holds it.
start(k) ==
    IF k.block = "gone" THEN k
    ELSE [cancel(k, k.socket) EXCEPT
             !.socket = 0,
             !.starts = k.starts + 1,
             !.phase[k.starts + 1] = "waiting",
             !.interval = k.starts + 1]

read(k, a) ==
    [k EXCEPT !.chain[a] =
        IF k.socket = 0 THEN NoChain
        ELSE [at |-> "header", on |-> k.socket, res |-> "pending"]]

async_write(k, m) ==
    [k EXCEPT !.writes = @ \cup {[msg |-> m, on |-> k.socket, res |-> "pending"]},
              !.wire = Append(@, m.n)]

\* write(): a heartbeat that finds the previous one unanswered resets the
\* connection.  *_socket is evaluated without a test.
write(k) ==
    LET m == Head(k.outbox) IN
    IF m.beat /\ k.silent
    THEN start([k EXCEPT !.outbox = <<>>, !.silent = FALSE])
    ELSE IF k.socket = 0
         THEN [k EXCEPT !.crashed = TRUE]
         ELSE async_write([k EXCEPT !.silent = @ \/ m.beat], m)

\* write() calls start() at most once.
CanStart == c.starts < MaxStarts

---------------------------------------------------------------------------
\* After the first call of start(), by block::Io.
NewConnection ==
    [block |-> "there", starts |-> 1,
     phase |-> [a \in Attempts |-> IF a = 1 THEN "waiting" ELSE "none"],
     interval |-> 1, authenticate |-> 0, socket |-> 0,
     chain |-> [a \in Attempts |-> NoChain],
     outbox |-> <<>>, writes |-> {}, accepted |-> 0, wire |-> <<>>,
     silent |-> FALSE, crashed |-> FALSE]

CiosInit == service \in {"jobctl", "stdio"} /\ c = NewConnection

---------------------------------------------------------------------------
(* Connecting: ConnectionInterval and Authenticate.                        *)

\* timerHandler, when available(); otherwise the timer is set again.
TimerHandler(a) ==
    /\ c.phase[a] = "waiting"
    /\ c' = [c EXCEPT !.phase[a] = "connecting"]

\* Fault: the interval does not wait for another try.
retryNever(k, a) == [k EXCEPT !.phase[a] = "over"]

\* wait(), called by ConnectionInterval::connectHandler after an error.
retry(k, a) == [k EXCEPT !.phase[a] = "waiting"]

ConnectFails(a) ==
    /\ c.phase[a] = "connecting"
    /\ c' = retry(c, a)

Connects(a) ==
    /\ c.phase[a] = "connecting"
    /\ c' = [c EXCEPT !.phase[a] = "connected"]

\* Connection::connectHandler.  Authenticate::start arms its timer only when
\* the configuration has a timeout; by default it has none.
ConnectHandler(a) ==
    /\ c.phase[a] = "connected"
    /\ IF c.block = "gone"
       THEN c' = [c EXCEPT !.phase[a] = "over"]
       ELSE \E p \in {"authenticating", "unwatched"} :
               c' = [c EXCEPT !.phase[a] = p, !.interval = 0, !.authenticate = a]

\* The answer of the daemon, or an error or a wrong answer, after which
\* authenticateHandler gives up.
Authenticated(a) ==
    /\ c.phase[a] \in {"authenticating", "unwatched"}
    /\ \E p \in {"authenticated", "failed"} : c' = [c EXCEPT !.phase[a] = p]

\* Authenticate::timerHandler cancels what is outstanding on the socket: the
\* write or the read of a header, which gives up; the read of the answer,
\* whose handler ignores the error; or nothing, when a handler is queued that
\* goes on to the next of them.
AuthenticateTimer(a) ==
    /\ c.phase[a] = "authenticating"
    /\ \E p \in {"failed", "authenticated", "unwatched"} : c' = [c EXCEPT !.phase[a] = p]

AuthenticateHandler(a) ==
    /\ c.phase[a] = "authenticated"
    /\ c' = read([cancel(c, c.socket) EXCEPT !.phase[a] = "over",
                                            !.socket = a,
                                            !.authenticate = 0], a)

---------------------------------------------------------------------------
(* Writing.                                                                *)

enqueue(k, m) == [k EXCEPT !.outbox = Append(@, m), !.accepted = m.n]

\* Fault: the message is sent although another one is being sent.
sendAtOnce(k) == write(k)

\* The end of writeImpl: a previous message finishes sending first.
sendNext(k) == IF Len(k.outbox) > 1 THEN k ELSE write(k)

\* A message while there is no socket is dropped.  Only the heartbeat
\* writes heartbeats, and only to the jobctl link.
WriteImpl(beat) ==
    /\ c.socket # 0
    /\ c.accepted < MaxMessages
    /\ beat => service = "jobctl" /\ CanStart
    /\ c' = sendNext(enqueue(c, [n |-> c.accepted + 1, beat |-> beat]))

WriteCompletes(w) ==
    /\ w.res = "pending"
    /\ \E r \in {"ok", "failed"} :
          c' = [c EXCEPT !.writes = (@ \ {w}) \cup {[w EXCEPT !.res = r]}]

\* Fault: a message that was sent stays at the front.
popFailed(k, w) ==
    [k EXCEPT !.writes = @ \ {w},
              !.outbox = IF w.res = "ok" THEN @ ELSE Tail(@)]

\* The previous message leaves the queue, whether it was sent or not.
pop(k, w) == [k EXCEPT !.writes = @ \ {w}, !.outbox = Tail(@)]

WriteHandler(w) ==
    /\ w.res # "pending"
    /\ LET k == pop(c, w)
       IN /\ w.res = "ok" /\ k.outbox # <<>> /\ Head(k.outbox).beat => CanStart
          /\ c' = IF w.res # "ok" \/ k.outbox = <<>> THEN k ELSE write(k)

---------------------------------------------------------------------------
(* Reading.                                                                *)

Reading(a) == c.chain[a].at \in {"header", "data"}

ReadCompletes(a) ==
    /\ Reading(a)
    /\ c.chain[a].res = "pending"
    /\ \E r \in {"ok", "failed"} : c' = [c EXCEPT !.chain[a].res = r]

\* readHeaderHandler and readDataHandler, after operation_aborted.
ReadAborted(a) ==
    /\ Reading(a)
    /\ c.chain[a].res = "aborted"
    /\ c' = [c EXCEPT !.chain[a] = NoChain]

\* The same, after another error.
ReadFailed(a) ==
    /\ Reading(a)
    /\ c.chain[a].res = "failed"
    /\ CanStart
    /\ c' = start([c EXCEPT !.chain[a] = NoChain])

\* readHeaderHandler: *_socket is evaluated without a test.
ReadHeaderHandler(a) ==
    /\ c.chain[a].at = "header" /\ c.chain[a].res = "ok"
    /\ c' = IF c.socket = 0
            THEN [c EXCEPT !.crashed = TRUE]
            ELSE [c EXCEPT !.chain[a] =
                    [at |-> "data", on |-> c.socket, res |-> "pending"]]

move(k, a, place) == [k EXCEPT !.chain[a] = [NoChain EXCEPT !.at = place]]

\* readDataHandler: the message is for pulse, for a job, or unhandled.
ReadDataHandler(a) ==
    /\ c.chain[a].at = "data" /\ c.chain[a].res = "ok"
    /\ \/ service = "jobctl" /\ c' = move(c, a, "pulse")
       \/ service = "stdio" /\ c' = move(c, a, "away")
       \/ c' = read(c, a)

\* pulse: an answer to a heartbeat is dropped, others look for their job.
Pulse(a) ==
    /\ c.chain[a].at = "pulse"
    /\ LET k == [c EXCEPT !.silent = FALSE]
       IN c' = read(k, a) \/ c' = move(k, a, "away")

\* Fault: the message of a job that is gone ends the chain.
FindJobForgets(a) ==
    /\ c.chain[a].at = "away"
    /\ c' = [c EXCEPT !.chain[a] = NoChain]

\* findJobHandler: no job, or a job on the jobctl link, posts read(); on the
\* stdio link the job calls read() once it has handled the data.
FindJobHandler(a) ==
    /\ c.chain[a].at = "away"
    /\ c' = read(c, a)

---------------------------------------------------------------------------
(* The end of the I/O block.                                               *)

\* stopImpl, when the block terminates, when it is removed and from its
\* destructor: an operation whose handler is queued already is not cancelled.
StopImpl ==
    \E hit \in SUBSET (Attempts \cap {c.interval, c.authenticate}) :
        c' = [cancel(c, c.socket) EXCEPT
                 !.block = IF @ = "gone" THEN "gone" ELSE "stopping",
                 !.phase = [a \in Attempts |->
                     IF a \in hit /\ c.phase[a] \in
                           {"waiting", "connecting", "authenticating", "unwatched"}
                     THEN "over" ELSE c.phase[a]]]

\* The container drops its pointer, the last one.
BlockRemoved ==
    /\ c.block # "gone"
    /\ c' = [c EXCEPT !.block = "gone"]

Connecting(a) ==
    TimerHandler(a) \/ ConnectFails(a) \/ Connects(a) \/ ConnectHandler(a)
        \/ Authenticated(a) \/ AuthenticateTimer(a) \/ AuthenticateHandler(a)

Receiving(a) ==
    ReadCompletes(a) \/ ReadAborted(a) \/ ReadFailed(a) \/ ReadHeaderHandler(a)
        \/ ReadDataHandler(a) \/ Pulse(a) \/ FindJobHandler(a)

Step(A) == ~c.crashed /\ A /\ UNCHANGED service

CiosNext ==
    \/ \E a \in Attempts : Step(Connecting(a)) \/ Step(Receiving(a))
    \/ \E beat \in BOOLEAN : Step(WriteImpl(beat))
    \/ \E w \in c.writes : Step(WriteCompletes(w)) \/ Step(WriteHandler(w))
    \/ Step(StopImpl)
    \/ Step(BlockRemoved)

CiosSafety == CiosInit /\ [][CiosNext]_cvars

Handlers ==
    \E a \in Attempts : \/ TimerHandler(a) \/ ConnectHandler(a)
                        \/ AuthenticateTimer(a) \/ AuthenticateHandler(a)

Accepted == \E a \in Attempts : Connects(a)

\* The io_service runs the handlers, a timer that is armed expires, and a
\* node that is tried again and again accepts.  A daemon need not answer.
CiosSpec == CiosSafety /\ WF_cvars(Step(Handlers)) /\ SF_cvars(Step(Accepted))

---------------------------------------------------------------------------
(* Properties.                                                             *)

\* At most one async_write is outstanding, whatever sessions came and went,
\* and it is the write of the message that writeHandler will remove: the
\* front of the outbox, which is not empty (Connection.cc:403).
FrontInFlight ==
    \A w \in c.writes :
        /\ c.writes = {w}
        /\ c.outbox # <<>>
        /\ w.msg = Head(c.outbox)

\* The messages reach the sockets in the order in which writeImpl took them
\* and none reaches two sockets, across failures, heartbeats that clear the
\* outbox, and reconnections.
WrittenInOrder ==
    \A i, j \in DOMAIN c.wire : i < j => c.wire[i] < c.wire[j]

\* The strengthening of the two that every step preserves.
OutboxInv ==
    /\ CTypeOK
    /\ FrontInFlight
    /\ WrittenInOrder
    /\ \A i, j \in DOMAIN c.outbox : i < j => c.outbox[i].n < c.outbox[j].n
    /\ \A j \in DOMAIN c.outbox : c.outbox[j].n <= c.accepted
    /\ \A i \in DOMAIN c.wire : c.wire[i] <= c.accepted
    /\ \A i \in DOMAIN c.wire, j \in DOMAIN c.outbox :
            c.wire[i] < c.outbox[j].n \/ (c.writes # {} /\ j = 1 /\ c.wire[i] = c.outbox[j].n)

\* Chain a will read from the present socket, or find out that it failed.
Listening(a) ==
    \/ c.chain[a].at \in {"pulse", "away"}
    \/ Reading(a) /\ c.chain[a].res \in {"ok", "failed"}
    \/ Reading(a) /\ c.chain[a].res = "pending" /\ c.chain[a].on = c.socket

\* While the block is there, a connection that has a socket listens to it:
\* no order of lost sessions, late handlers and messages for jobs that are
\* gone ends the last chain of reads (findJobHandler, pulse, read).
NotDeaf ==
    c.socket # 0 /\ c.block = "there" => \E a \in Attempts : Listening(a)

\* What the comment in writeImpl says: "if there's a previous message, let
\* it finish sending".  A message in the outbox is being sent.
PreviousIsSending == c.outbox # <<>> => c.writes # {}

\* A lost connection comes back, unless its authentication failed or waits
\* for the daemon without a timer, its block is stopped or the server crashed.
Recovers ==
    []<>( \/ c.socket # 0 \/ c.block # "there" \/ c.crashed
          \/ \E a \in Attempts : c.phase[a] \in {"failed", "unwatched"} )

===========================================================================
