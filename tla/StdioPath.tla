----------------------------- MODULE StdioPath -----------------------------
(***************************************************************************)
(* The path of a job's output: the stdio links of its I/O nodes, its       *)
(* StdioQueue, and the outbox of mux::Connection.  A link reads its next   *)
(* message only after the callback of the previous one, so a callback that *)
(* is lost silences a node and a callback that comes early floods the      *)
(* server.                                                                 *)
(*                                                                         *)
(* A mux::Connection is owned by its outstanding read, its outstanding     *)
(* write and the calls of write() posted to its strand; it is destroyed in *)
(* the step that ends the last of them.                                    *)
(***************************************************************************)
EXTENDS Integers, Sequences

CONSTANTS
    Links,          \* the stdio links of the job's I/O nodes
    Muxes,          \* connections of the mux, in the order of arrival: 1, 2 ...
    Output          \* bound: the messages that each link reads

ASSUME StdioAssumption ==
    /\ Muxes \subseteq Nat \ {0} /\ 1 \in Muxes
    /\ \A m \in Muxes : 1 .. m \subseteq Muxes
    /\ Output \in [Links -> Nat]

VARIABLES
    link,           \* n: messages read so far; away: waiting for its callback
    stdio,          \* StdioQueue; dropping: the client is gone or the job dies;
                    \* set: the connections that setConnection has given it
    mux,            \* the objects mux::Connection
    delivered,      \* messages written to a mux without an error
    submitted       \* the job was started by this server, not taken over

svars == <<link, stdio, mux, delivered, submitted>>

Entries == [link : Links, n : Nat \ {0}, callback : BOOLEAN]

MuxType ==
    [state : {"none", "up", "gone"}, read : {"pending", "failed", "over"},
     write : {"none", "pending", "ok", "failed"}, client : {"no", "yes", "eof"},
     broken : BOOLEAN,
     posted : Seq(Entries), outbox : Seq(Entries)]

STypeOK ==
    /\ link \in [Links -> [n : Nat, away : BOOLEAN]]
    /\ stdio \in [drained : BOOLEAN, dropping : BOOLEAN,
                  mux : Muxes \cup {0}, set : SUBSET Muxes, held : Seq(Entries)]
    /\ mux \in [Muxes -> MuxType]
    /\ delivered \in Seq(Entries)
    /\ submitted \in BOOLEAN

NoMux == [state |-> "none", read |-> "pending", write |-> "none",
          client |-> "no", broken |-> FALSE, posted |-> <<>>, outbox |-> <<>>]

NewMux == [NoMux EXCEPT !.state = "up"]

\* A job of a client of mux 1, or one taken over from another server, which
\* has called drain() in its constructor.
StdioInit ==
    /\ submitted \in BOOLEAN
    /\ link = [l \in Links |-> [n |-> 0, away |-> FALSE]]
    /\ stdio = [drained |-> ~submitted, dropping |-> FALSE,
                mux |-> IF submitted THEN 1 ELSE 0, set |-> {}, held |-> <<>>]
    /\ mux = [m \in Muxes |-> IF m = 1 /\ submitted
                              THEN [NewMux EXCEPT !.client = "yes"] ELSE NoMux]
    /\ delivered = <<>>

Alive(m) == m # 0 /\ mux[m].state = "up"

---------------------------------------------------------------------------
(* StdioQueue.  Its calls run on the strand of the job.                    *)

\* Handle::data and StdioQueue::add: the output of a job that dies, or has
\* no client or no mux, is dropped; output before the job runs is held.
Add(l) ==
    /\ ~link[l].away
    /\ link[l].n < Output[l]
    /\ LET hold == ~stdio.dropping /\ ~stdio.drained
           send == ~stdio.dropping /\ stdio.drained /\ Alive(stdio.mux)
           e == [link |-> l, n |-> link[l].n + 1, callback |-> send]
       IN /\ link' = [link EXCEPT ![l] = [n |-> e.n, away |-> send]]
          /\ stdio' = IF hold THEN [stdio EXCEPT !.held = Append(@, e)] ELSE stdio
          /\ mux' = IF send THEN [mux EXCEPT ![stdio.mux].posted = Append(@, e)] ELSE mux
    /\ UNCHANGED <<delivered, submitted>>

\* Fault: the output that is held is not written.
drainForgets(held) == <<>>

\* What drain() writes.
drain(held) == held

\* Transition::run, once every node has started; without a mux it returns.
TransitionRun ==
    /\ ~stdio.drained
    /\ Alive(stdio.mux)
    /\ mux' = [mux EXCEPT ![stdio.mux].posted = @ \o drain(stdio.held)]
    /\ stdio' = [stdio EXCEPT !.drained = TRUE, !.held = <<>>]
    /\ UNCHANGED <<link, delivered, submitted>>

\* ClientContainer::signalImpl for a client that has gone, or a signal that
\* starts the kill timer.
StopOutput ==
    /\ ~stdio.dropping
    /\ stdio' = [stdio EXCEPT !.dropping = TRUE]
    /\ UNCHANGED <<link, mux, delivered, submitted>>

---------------------------------------------------------------------------
(* mux::Connection.                                                        *)

\* The links whose callbacks are in a sequence of entries.
Waiting(entries) == {entries[i].link : i \in {j \in DOMAIN entries : entries[j].callback}}

resume(ls) == [l \in Links |-> IF l \in ls THEN [link[l] EXCEPT !.away = FALSE] ELSE link[l]]

Unowned(k) == k.read = "over" /\ k.write = "none" /\ k.posted = <<>>

\* Fault: the destructor forgets the messages that were not sent.
destroyedCallbacks0(k) == {}

\* The destructor runs the callbacks of the messages that were not sent.
destroyedCallbacks(k) == IF Unowned(k) THEN Waiting(k.outbox) ELSE {}

\* Connection m becomes k, and is destroyed if nothing owns it; the
\* callbacks of the links ls have run.
Become(m, k, ls) ==
    /\ mux' = [mux EXCEPT ![m] = IF Unowned(k) THEN [NoMux EXCEPT !.state = "gone", !.read = "over",
                                                               !.broken = TRUE]
                                 ELSE k]
    /\ link' = resume(ls \cup destroyedCallbacks(k))

MuxWriteImpl(m) ==
    /\ mux[m].posted # <<>>
    /\ LET k == [mux[m] EXCEPT !.posted = Tail(@), !.outbox = Append(@, Head(mux[m].posted))]
       IN Become(m, IF Len(k.outbox) > 1 THEN k ELSE [k EXCEPT !.write = "pending"], {})
    /\ UNCHANGED <<stdio, delivered, submitted>>

\* Once the socket has failed, it stays broken.
MuxWriteCompletes(m) ==
    /\ mux[m].write = "pending"
    /\ \/ /\ ~mux[m].broken
          /\ mux' = [mux EXCEPT ![m].write = "ok"]
          /\ delivered' = Append(delivered, Head(mux[m].outbox))
       \/ /\ mux' = [mux EXCEPT ![m].write = "failed", ![m].broken = TRUE]
          /\ UNCHANGED delivered
    /\ UNCHANGED <<link, stdio, submitted>>

\* Fault: the next message waits for another call of write().
nextWriteNever(outbox, result) == "none"

\* The end of writeHandler.
nextWrite(outbox, result) ==
    IF result = "failed" \/ outbox = <<>> THEN "none" ELSE "pending"

MuxWriteHandler(m) ==
    /\ mux[m].write \in {"ok", "failed"}
    /\ Become(m, [mux[m] EXCEPT !.outbox = Tail(@),
                                !.write = nextWrite(Tail(mux[m].outbox), @)],
              Waiting(<<Head(mux[m].outbox)>>))
    /\ UNCHANGED <<stdio, delivered, submitted>>

\* The mux goes away, or its socket breaks.
MuxReadFails(m) ==
    /\ mux[m].state = "up" /\ mux[m].read = "pending"
    /\ mux' = [mux EXCEPT ![m].read = "failed", ![m].broken = TRUE]
    /\ UNCHANGED <<link, stdio, delivered, submitted>>

\* readHeaderHandler or readBodyHandler after an error, with eofImpl.
MuxReadHandler(m) ==
    /\ mux[m].read = "failed"
    /\ Become(m, [mux[m] EXCEPT !.read = "over",
                                !.client = IF @ = "yes" THEN "eof" ELSE @], {})
    /\ stdio' = IF mux[m].client = "yes"
                THEN [stdio EXCEPT !.dropping = TRUE] ELSE stdio
    /\ UNCHANGED <<delivered, submitted>>

\* A mux connects again once its last connection has failed.  The listener
\* accepts it, and Reconnect asks for its jobs: addClient and updateClient,
\* then setConnection on the strand of the job.
Accept(m) ==
    /\ mux[m].state = "none"
    /\ m > 1 => mux[m - 1].broken
    /\ mux' = [mux EXCEPT ![m] = NewMux]
    /\ UNCHANGED <<link, stdio, delivered, submitted>>

AddClient(m) ==
    /\ mux[m].state = "up" /\ mux[m].client = "no"
    /\ mux' = [mux EXCEPT ![m].client = "yes"]
    /\ UNCHANGED <<link, stdio, delivered, submitted>>

\* Once for each connection but the one that submitted the job.  The handler of an older
\* connection, which lives while it is owned, may come after that of a newer one.
SetConnection(m) ==
    /\ mux[m].state = "up" /\ mux[m].client # "no"
    /\ m \notin stdio.set /\ (submitted => m # 1)
    /\ stdio' = [stdio EXCEPT !.mux = m, !.set = @ \cup {m}]
    /\ UNCHANGED <<link, mux, delivered, submitted>>

Sending(m) == MuxWriteImpl(m) \/ MuxWriteCompletes(m) \/ MuxWriteHandler(m)

StdioNext ==
    \/ \E l \in Links : Add(l)
    \/ TransitionRun \/ StopOutput
    \/ \E m \in Muxes : Sending(m) \/ MuxReadFails(m) \/ MuxReadHandler(m)
                            \/ Accept(m) \/ AddClient(m) \/ SetConnection(m)

StdioSafety == StdioInit /\ [][StdioNext]_svars

Handling ==
    \E m \in Muxes : \/ Sending(m) \/ MuxReadHandler(m)
                     \/ mux[m].broken /\ MuxReadFails(m)

\* The io_service runs the handlers; a mux reads what it is sent or its
\* socket fails, and then the outstanding read fails too.
StdioSpec == StdioSafety /\ WF_svars(Handling)

---------------------------------------------------------------------------
(* Properties.                                                             *)

\* What connection k has yet to write.
Owed(k) == k.outbox \o k.posted

\* The message e carries the callback of link l.
CallbackOf(e, l) == e.callback /\ e.link = l

Carries(entries, l) == \E i \in DOMAIN entries : CallbackOf(entries[i], l)

CarriesOne(entries, l) ==
    \A i, j \in DOMAIN entries : CallbackOf(entries[i], l) /\ CallbackOf(entries[j], l) => i = j

\* A link waits exactly while one message of it, with its callback, is with
\* a connection: no failure, destruction or reconnection of a mux loses a
\* callback or runs it twice, and a link has at most one message in the
\* outboxes (flow control).
CallbackHeld ==
    /\ STypeOK
    /\ \A l \in Links :
        /\ link[l].away <=> \E m \in Muxes : Carries(Owed(mux[m]), l)
        /\ \A m \in Muxes : CarriesOne(Owed(mux[m]), l)
        /\ \A m, k \in Muxes : Carries(Owed(mux[m]), l) /\ Carries(Owed(mux[k]), l) => m = k

\* What a sound connection k has yet to deliver.
Unsent(k) ==
    CASE k.broken -> <<>>
      [] ~k.broken /\ k.write = "ok" -> Tail(k.outbox) \o k.posted
      [] ~k.broken /\ k.write # "ok" -> Owed(k)

\* Nothing that may lose output has happened.
Intact ==
    /\ submitted /\ ~stdio.dropping /\ stdio.mux = 1
    /\ mux[1].state = "up" /\ mux[1].read = "pending" /\ ~mux[1].broken

\* Of each link: s is in the order in which it was read and without
\* repetition; all of s was read before all of t.
Rising(s) == \A i, j \in DOMAIN s : i < j /\ s[i].link = s[j].link => s[i].n < s[j].n
Before(s, t) == \A i \in DOMAIN s, j \in DOMAIN t : s[i].link = t[j].link => s[i].n < t[j].n

Among(l, n, s) == \E i \in DOMAIN s : s[i].link = l /\ s[i].n = n

\* The output of a link, delivered, on its way in a sound connection or
\* held, is in the order in which it was read and without repetition, over
\* all the connections of the mux; while nothing has failed and the job is
\* not killed, it is complete.
OutputComplete ==
    /\ Rising(delivered) /\ Rising(stdio.held) /\ Before(delivered, stdio.held)
    /\ \A m \in Muxes : /\ Rising(Unsent(mux[m]))
                        /\ Before(delivered, Unsent(mux[m])) /\ Before(Unsent(mux[m]), stdio.held)
    /\ \A m, k \in Muxes : m < k => Before(Unsent(mux[m]), Unsent(mux[k]))
    /\ Intact => \A l \in Links : \A n \in 1 .. link[l].n :
                    Among(l, n, delivered) \/ Among(l, n, Unsent(mux[1])) \/ Among(l, n, stdio.held)

\* Every link that waits is resumed, until there is no more output: a broken
\* mux silences no I/O node.
ReaderResumes == <>[](\A l \in Links : ~link[l].away)

===========================================================================
