# TLA+ models of the Blue Gene/Q driver

This directory holds models of parts of the Blue Gene/Q driver: TLA+ modules
translated from the sources, configurations that check small instances with
TLC, and proofs checked by TLAPS. `PROJECT.json` lists the runs, the source
lines behind every definition, the hazards and the theorems.

## The system and its parts

The repository is the software of a Blue Gene/Q machine: firmware and a compute
node kernel (CNK), user level libraries (SPI), agents that run beside the
applications, daemons of the I/O nodes, the high level control system (HLCS) on
the service node, and the database, web and diagnostic code around it.

| Part | Sources | Modelled in |
|---|---|---|
| runjob server, life of a job | `hlcs/src/runjob/server/Job.cc`, `job/*` | `Job` |
| runjob server, compute resources | `server/block/Compute.cc`, `Midplane.cc`, `ComputeNode.cc`, `job/Container.cc`, `job/Create.cc`, `mux/InsertJob.cc` | `Arbitration` |
| runjob server, I/O node connections | `server/cios/*` | `CiosConnection` |
| runjob server, output of a job | `job/StdioQueue.cc`, `mux/Connection.cc` | `StdioPath` |
| runjob server, sub-node pacing | `job/SubNodePacing.cc` | `SubNodePacing` |
| runjob server, job heartbeat | `job/Heartbeat.cc` | `JobHeartbeat` |
| communication agent, request queue | `agents/src/comm/commagent.c` and its header | `RequestQueue` |
| communication agent, remote gets | `agents/src/comm/rgetpacing.c`, `fence.c` | `RgetPacing` |
| SPI, L2 barrier | `spi/include/l2/barrier.h` | `L2Barrier` |
| SPI, global interrupt barrier | `spi/include/mu/GIBarrier.h` | `GIBarrier` |
| CNK, kernel barrier | `cnk/src/lock.c` | `KernelBarrier` |
| CNK, futexes | `cnk/src/futex.c`, `syscalls/futex.cc` | `Futex` |

How they meet: a client asks the mux, the mux asks the runjob server. The server
finds the block, lets `block::Compute` arbitrate (`Arbitration`), puts the job in
the job container and drives the I/O nodes of the job through setup, load, start
and cleanup (`Job`) over its connections (`CiosConnection`), one request at a time
for jobs that share a compute node (`SubNodePacing`). Output comes back through
`StdioPath`. A job that was killed waits for its tools (`JobHeartbeat`). On the
nodes, threads meet in the barriers and sleep in the futexes, and applications
hand remote gets to the agent (`RequestQueue`), which paces them (`RgetPacing`).

## Modules

| Module | Contents |
|---|---|
| `Job`, `MCJob`, `JobProofs`, `StallProofs` | one job, its I/O nodes, the mux and the client |
| `Arbitration`, `MCArbitration`, `ServerProofs` | the compute nodes of one block and the jobs that ask for them |
| `Barrier` | what a barrier promises (abstract) |
| `BarrierCallers` | the callers common to the three implementations, and the refinement `ImplementsBarrier` |
| `L2Barrier`, `KernelBarrier`, `GIBarrier`, `BarrierProofs` | the three implementations |
| `FutexQueues` | what futexes promise: a first-in first-out queue each (abstract) |
| `Futex`, `MCFutex`, `FutexLists`, `FutexProofs` | the table, its linked lists, the lock and the interrupts |
| `CiosConnection` | one connection to an I/O node through its sessions |
| `StdioPath`, `StdioProofs`, `SubNodePacing`, `JobHeartbeat` | other paths of messages in the server; the heartbeat's proof is in `ServerProofs` |
| `RequestQueue`, `RgetPacing` | the communication agent |
| `QueueProofs` | proofs about `CiosConnection`, `SubNodePacing` and `RequestQueue` |
| `MCNodeSync`, `MCMessages` | small instances of several modules in one run; the initial state chooses one |

The modules do not share variables. `Job` sees its compute nodes only as
released, cleaned up or marked unavailable, and a connection as a link that is
there or not; `Arbitration` sees a job only as the owners of its object.

### Job

`job` is the `Job` object: its status, for each I/O node the flags that
`job::IoNode` keeps and the requests on their way, its error, the outstanding
signal, and the kill timer. `link`, `mux` and `clients` are what the job sees of
its connections, `posted` and `setConn` are handlers queued on its strand,
`inJobs` says that it is in the job container, and `final` is the message left
for the client.

Each action is one handler on a strand, with everything it calls: an answer of a
daemon runs `Handle`, the node's handler and `Transition`, up to the requests
that the next stage writes. Abstractions:

- finding the job in the container and handling it are one step;
- the control and the data connection of a node are one link;
- contents of standard output and exit status values are left out, and so are
  pacing, `skip_software_failure` and `RUNJOB_KILL_TIMEOUT`;
- the job heartbeat is reduced to being started and stopped, and the kill timer's
  queued handler keeps the job alive, as the bound pointer does;
- `Setup` fails only where the mapping file is not valid;
- a mux that comes back is told of the job, as with the default reconnect scope
  (`mux/Reconnect.cc:52`); with a narrower one, as in simulation, it is not, and
  `FailoverRemoved` says nothing. The database connection it uses is there;
- `MaxPending` bounds the copies of one request on their way to a node.

### Arbitration

Midplanes, nodes and cores hold weak pointers to their job. Nothing releases
them; they are free once the last owner of the `Job` object is gone. So `refs`,
the owners, is the variable that matters. A block's arbitration runs on one
strand and is one step. The destructor of `Create`, the addition to the
container, the kill timer's handlers and the removal of the block are steps of
their own and interleave. Abstractions:

- error codes are accepted or refused;
- a core request has shape 1x..x1 and one rank per node, and names a core below
  16, which `Corner` rejects earlier otherwise;
- the block has one midplane in E; a corner given by coordinates is in node
  units, a midplane's place in midplane units.

### Barriers

`entered` and `left` count, for each caller, the calls that were announced and
those that returned. `Barrier` says that nobody leaves a round that somebody has
not entered. The abstract counters are the same variables in the
implementations, so the refinement mapping is the identity on them.

- `L2Barrier`: `L2_Barrier` loads `start` before or after the atomic increment,
  as nothing orders the two. In `L2_BarrierWithTicket` `ppc_msync` keeps the
  load first. Every round has the same participants; the code allows others.
- `KernelBarrier`: the load with reservation and the conditional store are two
  steps, and a store takes the other reservations away. A store fails only for
  that reason. The word is a pair of a generation modulo `Generations` (2^16 in
  the code) and a count.
- `GIBarrier`: each status register sees each control register through a delay
  line of its own, in order. When initialization begins the registers hold any
  of the three patterns and are quiet. The caller's barrier function is ideal
  and does not fail. A poll that times out may be repeated, or the barrier
  entered again.

### Futex

`table` is the table of a process, with a list of waiters through the threads'
`FutexQueueNext`; `kthr` holds the futex fields of each thread and whether it is
blocked; `hwt` says where in the kernel each hardware thread is; `lock` is the
ticket lock. What a thread does under the lock is one step. The look at a word
before the system call, the lock, the wait for its turn, and each interrupt that
unblocks a thread are steps of their own. Timers and signals of a thread run on
its own hardware thread and take the same lock. Nothing in the code makes an
unblocking interrupt arrive before its thread waits again. `used.late` records
that a thread began to wait while one from an earlier sleep was still to come;
the properties are claimed up to that step, and `futex_late_unblock` shows what
may follow it. The refinement mapping reads the queues of
`FutexQueues` off the table and the lists. Left out: shared futexes (the same
code on a second table and lock), several threads on one hardware thread, a
requeue to the same address, threads that exit while they wait.

### Messages of the runjob server

- `CiosConnection`: one object `cios::Connection` with its timers, its outbox and
  the sessions it opens one after the other. A handler is one step. Sequence
  numbers and contents of messages are left out.
  `Authenticate::start` arms its timer only when the configuration has a timeout,
  which by default it has not: an attempt is `authenticating` or `unwatched`, and
  an unwatched one may wait for the daemon for ever.
- `StdioPath`: the stdio links read one message at a time and wait for its
  callback, which travels with the message through `StdioQueue` and the outbox of
  a mux connection. Connections are destroyed in the step that ends their last
  owner, and the destructor runs the callbacks that are left.
- `SubNodePacing`: the queue of requests of the jobs of one compute node, with
  the job stages, signals, kill timers and lost links that use it.
- `JobHeartbeat`: the cycles of the timer, and the tool counts that nodes report.
  `jobctld` counts the tools whose status file was written in the last interval
  (`jobctld/Job.cc:465`), so a count falls when a tool is quiet and rises when one
  starts or writes again (`MaxStirred` bounds how often). A node that has cleaned
  up has forgotten the job; its answer carries whatever was in the buffer, here any
  count up to `MaxTools` or the unreported one. An unreported count is -1 (the
  largest unsigned number in the code); sums do not wrap.

### Communication agent

- `RequestQueue`: threads allocate a slot with a bounded atomic increment and
  fill it; the type that marks it ready, and the agent's store of the new bound,
  take effect later, in any order with other stores. The wakeup unit is a flag.
  The number of slots and the mask are fixed (`QueueSize`, 64 in the code); the
  first bound is the setting `COMMAGENT_REQUESTQUEUESIZE` (`RequestQueueSize`, by
  default the same). The run and the theorems take the two to be equal.
- `RgetPacing`: the agent's main loop, one action for each turn of a loop. The
  circular list of work items with their peer lists is a sequence of sequences,
  from the next item to process on. The Message Unit drains the fifo and counts
  counters down beside it; a fifo whose free space is above the threshold wakes the
  agent, by the interrupt that `commagent.c:929-1026` sets up. Allocation of items, DD1 hardware and the random zone
  are left out.

## Runs

| Run | Instance | Properties |
|---|---|---|
| `job_safety` | two I/O nodes, five scenarios | `StageOrder`, `CleanRelease`, `OutstandingAnswered`, `NoSilentStall`, `OrphanKilled` |
| `job_ends` | one I/O node, fairness | `KilledJobEnds`, `FailoverRemoved` |
| `job_kill_ends` | one I/O node, KILL only | `KillEnds` is violated |
| `job_ended_keeps_nodes` | one I/O node | `EndedJobKeepsNodes` is violated |
| `job_forgotten_client` | one I/O node, a mux that goes away | `ForgottenClientAborts` is violated |
| `arb_safety` | two midplanes of two nodes, three submissions | `Exclusive`, `RanksFit`, `NodesServed`, `FailedNodesNotGiven` |
| `arb_failed_cores` | same, two submissions | `FailedNodesUnavailable` is violated |
| `arb_removed_block` | same, two submissions | `RemovedBlockKillsJobs` is violated |
| `node_sync` | three callers and three rounds of each barrier; three threads and two futexes | `ImplementsBarrier`, `AllReturn`; `QueuedIsBlocked`, `NoWaiterLost`, `NoMissedWake`, `TimeoutKeepsWake`, `ImplementsQueues`, `SleepEnds` |
| `futex_late_unblock` | the futexes, interrupts late or not | `QueuedIsBlocked` is violated |
| `messages` | a connection with three sessions, two stdio links, two sub-node jobs, two nodes with tools, five workloads of the agent, a request queue of two slots | `FrontInFlight`, `WrittenInOrder`, `NotDeaf`, `Recovers`; `CallbackHeld`, `OutputComplete`, `ReaderResumes`; `PacedOneAtATime`, `PacedJobsEnd`; `EndedForCause`, `HeartbeatEnds`; `TotalsAgree`, `BytesAccounted`, `NoEarlyReuse`, `RelatedInOrder`, `PacedWithinMax`, `SleepsOnlyWhenDone`, `AllProcessed`; `SlotOwned`, `InOrderOnce`, `EveryRequestProcessed` |
| `cios_stall` | a connection, two messages | `PreviousIsSending` is violated |

`BytesAccounted` is `NothingForgotten` and `FragmentsTile`; `RelatedInOrder` is
`PeersInOrder` and `SameIDInOrder`. The inductive invariants of the proofs were
checked on the same instances before they were proved, and are not repeated in
the runs.

### What they show

- A stage of a job never starts before every I/O node it uses has finished the
  stage before, whatever fails or goes away (`StageOrder`).
- A job gives its compute nodes back only when every I/O node that was ever told
  to set it up has ended its cleanup or lost its connection, or when they are
  marked unavailable (`CleanRelease`). The exception is the code's: a node whose
  connection ended leaves the job without a report (`job/EndOfFile.cc:91`), and
  the compute nodes behind it are released neither cleaned up nor marked.
- A recorded signal that holds back others has an acknowledgement to wait for,
  or a kill timer (`OutstandingAnswered`).
- A job that could leave its stage is never left with nobody to look again
  (`NoSilentStall`). One whose client is gone, or that is being started for a
  client nobody has, is killed (`OrphanKilled`).
- A job whose kill timer was started ends, even if an I/O node never answers
  (`KilledJobEnds`). A job that ended during a failover is removed when the mux
  is back (`FailoverRemoved`).
- No core has two live jobs (`Exclusive`). Accepted ranks, corners and shapes fit
  the block (`RanksFit`). Every node of a job has its I/O node in the job
  (`NodesServed`). Full block and sub-block jobs do not get nodes of one that
  timed out (`FailedNodesNotGiven`).
- The three barriers implement `Barrier` and every call returns (`AllReturn`).
  That tickets of `L2_BarrierWithTicket` are unique in a round is proved
  (`L2BarrierTickets`).
- Until the first late interrupt, the futex table implements one queue per futex,
  first in first out (`ImplementsQueues`). Timeouts, signals and requeues that race with wakes lose
  no waiter (`NoWaiterLost`), and the comparison under the lock cannot miss a
  store and its wake (`NoMissedWake`). Sleeps with a timeout, and sleeps that a
  wake has counted, end (`SleepEnds`).
- A connection sends one message at a time, in order and once, whatever sessions
  come and go (`FrontInFlight`, `WrittenInOrder`), goes on reading (`NotDeaf`) and
  recovers (`Recovers`), unless the daemon refuses it or leaves an authentication
  without a timer unanswered.
- No callback of a stdio link is lost or runs twice (`CallbackHeld`), and output
  is complete and in order while nothing fails (`OutputComplete`).
- Sub-node jobs have one request at the I/O node at a time, the front of their
  queue (`PacedOneAtATime`). A heartbeat ends a job for want of tools only when each
  node has been without an active one at some time since it started, not
  necessarily all at the same time, and for want of an answer only while it has
  no count of some node (`EndedForCause`). It ends the job (`HeartbeatEnds`) unless
  a node that reported tools is lost, silent or has forgotten the job: that count
  stays in the sum.
- The agent's totals agree with its lists (`TotalsAgree`), sub-messages tile
  their message (`FragmentsTile`), no counter or item is reused early
  (`NoEarlyReuse`), related requests stay in order (`PeersInOrder`,
  `SameIDInOrder`), and the agent sleeps only when nothing waits for it
  (`SleepsOnlyWhenDone`). Slots of the request queue have one user at a time
  (`SlotOwned`) and requests are processed once each in order (`InOrderOnce`).

Seven runs end in a counterexample, each about something the repository says of
itself:

- A KILL that finds the job before it was started begins a cleanup without a kill
  timer, and the job may stay for ever; the client's documentation promises the
  timer.
- A kill timer handler that is queued when the timer is stopped marks the nodes
  of a job that ended cleanly. `job/Heartbeat.cc` guards against the same case.
- A mux lost while `CheckIoLinks` runs leaves the job in the container with
  nothing to end it.
- The node of a timed out core job stays available, and a core job gets a node
  that was marked.
- A job arbitrated before its block is removed may be added to the container
  afterwards and is not killed.
- A write to an I/O node that fails while other messages wait leaves them in the
  outbox, and later messages queue behind them although nothing is being sent.
- An unblocking interrupt for a sleep that a signal has ended meanwhile makes a
  thread runnable that waits again and is still in a queue.

More observations have no run. A start request that crosses a KILL takes a
job out of `Cleanup` (`job/Start.cc:70`), which `docs/html/Documentation.h:377`
describes as the job's last status. A KILL that is held back is not sent when the last node it waits for
is erased (`job/EndOfFile.cc:91`); the kill timer ends the job. A corner given by
coordinates loses its core (`block/Midplane.cc:516`). A sub-node job that a kill
timer removes, or a link that fails, may leave the front of the pacing queue
without an answer, so `PacedJobsEnd` excludes both. A direct put without bytes is
never processed, and `AllProcessed` excludes what waits behind one.

`rgetpacing.h:101` calls `COMMAGENT_REQUESTQUEUESIZE` "The size of the request
queue. This is the number of requests that can be in the queue before it fills",
but slots and mask stay at 64 (`commagent.c:1641`, `commagent_impl.h:523`). With a
larger setting two producers are given indexes of one slot; with a smaller one the
slots overlap the header (`commagent.c:1343`). `SlotOwned`, `InOrderOnce` and
`EveryRequestProcessed` hold where the setting is the number of slots.

`rgetpacing.c:186` says that "All work items with this same ID are processed
sequentially". `SameIDInOrder` checks it only where requests with the same peer
also have the same ID. In the first two workloads they do not. In the second
one a request that follows its peer with another ID leaves the chain of its own
ID, and the code then processes two requests of one ID side by side.

`PacedWithinMax` is about sizes that do not depend on the sub-regions. Where they
do, the limit may be lowered while counters are active, and the test for equality
at `rgetpacing.c:1087` then lets the active counters pass it.

### Bounds

- Two I/O nodes are enough for one to be done, failed or gone while the other is
  not; the handlers treat nodes alike, so `Symmetry` is sound. `job_ends` has one
  node and no symmetry, because it checks liveness.
- The scenarios of `MCJob` choose which signals and events can happen together;
  all of them at once are beyond TLC. The proofs have no such limit.
- `MaxPending` is 2: one request on its way and a repeated one.
- Three submissions let two jobs hold resources while a third is arbitrated. The
  scenario about ranks has two, `MaxRankJobs`, since a refusal depends on at most
  one other job. Requests lie on both sides of each limit.
- Three callers let one be a round ahead of another, with a third in between.
  Three rounds use all three patterns of the global interrupt barrier and wrap a
  generation number with two values. The global interrupt registers start with a
  different pattern on each node (`Mixed`), which initialization has to repair;
  the proofs start from any pattern.
- Futexes: two threads wait, with and without a timeout, and a third wakes,
  requeues, stores and exits. `MaxCalls` is 4: two sleeps, a requeue and a wake.
  One signal races with them. Behaviours are followed up to the first late
  interrupt.
- Three sessions of a connection: a write of the first may complete in the
  second, and the third is what the second recovers to. Two sub-node jobs, two
  stdio links and two mux connections let one wait or fail while the other goes
  on. Two nodes with a tool each, one of which becomes active again
  (`MaxStirred` is 1), give a sum of counts from different times.
- The workloads of the agent have the cases the code distinguishes: data with its
  completion message, one request behind two, messages between direct puts and
  before data, an empty direct put; with a fifo of two descriptors and two
  counters each of them runs full.
- Deadlock is not an error: jobs end and callers make their last call.

### Fairness

- `Job`: weak fairness of the server's own handlers, which `io_service` threads
  run once they are posted, and of the timer. Nothing is assumed of I/O nodes,
  the client or the mux.
- Barriers: some thread that can go on does (weak fairness of the next-state
  relation; the instances are finite, so all do), for the global interrupt
  barrier each node's own steps, since hardware threads keep running, and
  changes reach the status registers.
- `Futex`: a hardware thread in the kernel goes on unless it waits for its turn or
  for a slot; interrupts and timers arrive. The application may stop.
- `CiosConnection`: weak fairness of handlers and of timers that are armed, strong
  fairness of a connection attempt that is accepted: a daemon that is tried again
  and again accepts at last. It need not answer the authentication. `StdioPath`: the handlers run, and a mux reads or its socket
  fails. `SubNodePacing`: jobs go on and the I/O node answers. `JobHeartbeat`: the
  timer fires, tools fall quiet, and nodes that are not silent answer.
- Communication agent: the agent's hardware thread goes on, the Message Unit
  processes what it is given, stores take effect, and a thread that has a slot
  fills it.

Liveness is model-checked only.

## Proofs

For every value of the constants, from the `ASSUME`s of the modules: finite sets
of participants and nodes, distinct null values, every node connected to an I/O
node, and more than one generation.

- `JobProofs`: `JobInv` is inductive (`JobInvariant`); it gives the types,
  `StageOrder` and `CleanRelease`. `StageOrder` alone is not inductive: a start
  request on its way to a node relies on that node having been set up
  (`NodeInv`, `StageInv`). `CleanRelease` needs that nothing but cleanups was
  sent before `CheckIoLinks` is done (`CheckInv`) and that nothing is set up
  after `Job::remove` (`ReleaseInv`), and that only nodes whose connection ended
  were erased from the job (`LostNodes`). `OrphanInv` adds who has still to tell the
  job that its client is gone. The proof has one lemma
  per handler piece and one per action.
- `StallProofs`: `OutstandingAnswered`, `NoSilentStall` and, with `OrphanInv`,
  `OrphanKilled`, from the inductive invariant `EndInv`: what is outstanding at each node (`OutstandingInv`),
  which statuses allow it (`ClientInv`, `EndedInv`, `IoInv`), and who will look at
  the job next (`StallInv`).
- `ServerProofs`: `ArbInv` is inductive. Besides exclusion it says who may
  own a job in each phase (`Owned`), that a live accepted job is still named by
  every resource it was given (`Claims`), and that a job whose timer ran out
  keeps an owner until its nodes are marked (`FailedMarked`). It gives
  `Exclusive`, `FailedNodesNotGiven` and `NodesServed`. `RanksFit` adds the
  arithmetic of shapes and ranks. For the heartbeat (`EndedForCause`) the
  invariant is that a count of 0 on its way, or kept, is of a node that was once
  without an active tool (`IdleInv`), also where the node has forgotten the job.
- `BarrierProofs`: for the L2 and the kernel barrier the invariant is that the
  whole state belongs to one round r: each caller has yet to enter round r + 1,
  has entered it, or has not noticed the release of round r, and the shared count
  is the number of the second kind. Every step is then a step of `Barrier` or a
  stutter.
  For the global interrupt barrier the patterns on the wire from u to n are
  those of consecutive rounds, from one that n has not left to the one u is in
  (`Chain`). Nobody is more than one round ahead of a node that has entered, so a
  status register shows patterns of at most three rounds in a row, which differ.
  Hence a bit that is off means that all have entered.
- `QueueProofs`: `OutboxInv` is inductive. It relates the outbox of a connection,
  the write in flight with the session it was started in, and what was written; it
  gives `FrontInFlight` and `WrittenInOrder`. `NotDeaf` follows from where the
  chain of reads is. For sub-node pacing (`PacedOneAtATime`) the invariant adds
  that a job has a stage in the queue only while it waits for its acknowledgement,
  and one only (`StagePending`). For the agent, `QueueInv` is inductive: the
  numbers below the tail are allocated, processed or owned by one thread each, and
  the bound is at most one lap ahead of the agent. It gives `SlotOwned` and
  `InOrderOnce`. These theorems have `RequestQueueSize = QueueSize` as a premise.
- `StdioProofs`: `StdioInv` says where the callback of each link is (`Calls`), that
  what was delivered, what each connection still owes and what `StdioQueue` holds
  follow each other (`Ordered`, `InTurn`), and that nothing is missing before the
  first failure (`Complete`). A message that is held has no callback. It gives
  `CallbackHeld` and `OutputComplete`.
- `FutexLists` has the lemmas about the linked lists: what wakes, requeues, removals
  and the allocation and release of entries do to the queues read off the table
  (`Holds`), whatever the state of the threads. `FutexProofs` shows the ticket lock
  (`LockInv`) and then, one lemma per action, that `FutexInv` is kept: the table
  holds the queues, no entry is empty, a thread with an address is blocked and not
  yet woken, and one that is blocked without an address is on its way to be
  unblocked (`ThreadInv`). This gives `TableInv`, `QueuedIsBlocked`, `NoWaiterLost`,
  `TimeoutKeepsWake` and, since each action is then a step on the queues,
  `ImplementsQueues`. All but the lock say what holds until `used.late`;
  afterwards `QueuedIsBlocked` may be false, as `futex_late_unblock` shows.
  `NoMissedWake` also assumes `WakesAll`: the application wakes all waiters of a word that it changes.
  A program that wakes fewer may leave one asleep, which is its own choice.
  `Counting` collects the facts about finite sets that the lists need (a
  sequence without repetition is no longer than the number of threads, a table of
  `NUM_FUTEX` entries always has room); `FutexProofs` derives them from the size
  of the table.

Only model-checked:

- all liveness properties, which the prover does not reach;
- the invariants of `RgetPacing`: `TotalsAgree` and `BytesAccounted` are about sums
  over sequences of work items, and `PacedWithinMax` and `SleepsOnlyWhenDone` rest
  on them. A sum is defined by recursion over its data, and its laws need
  induction with an operator as a parameter, which none of the provers can
  instantiate. `NoEarlyReuse` and `RelatedInOrder` are not proved.

## Not modelled

- runjob server: the start and end of a tool and the shutdown pass requests on
  once; rank mapping and class
  routes are pure functions on five dimensional coordinates; exit status values,
  options, database and event texts.
- runjob mux and client: seen from the server only.
- mmcs, master, bgsched, realtime and the other parts of HLCS: hardware control
  through libraries whose behaviour is not in the repository, supervision by
  configuration files, API libraries.
- CNK: the scheduler, memory, signals and job control, which a core runs under
  its own locks; the locks of `cnk/src/lock.c` and `spi/include/l2/lock.h`.
- Firmware, hardware interface, database, web services, diagnostics and commands:
  register access, generated code, queries, input and output.
