---------------------------- MODULE StallProofs ----------------------------
(***************************************************************************)
(* Proofs, for every set of I/O nodes, that a job is not left waiting: a   *)
(* signal that holds others back is answered (OutstandingAnswered of Job), *)
(* and a job that could leave its stage is looked at again                 *)
(* (NoSilentStall).                                                        *)
(***************************************************************************)
EXTENDS JobProofs

USE ZenonT(8), SMTT(20)

\* A handler that neither starts the job nor settles its outstanding signal
Mild(j, k) ==
    /\ Keeps(j, k)
    /\ k.attached = j.attached /\ k.canStart = j.canStart /\ k.outstanding = j.outstanding
    /\ j.error # "none" => k.error # "none"
    /\ \A n \in IoNodes : "signalInFlight" \in j.node[n] => "signalInFlight" \in k.node[n]

LEMMA MildTrans ==
    ASSUME NEW j, NEW k, NEW l, Mild(j, k), Mild(k, l)
    PROVE  Mild(j, l)
<1>1. Keeps(j, l)
  BY KeepsTrans DEF Mild
<1> QED
  BY <1>1 DEF Mild

\* No node is told to clean up that was not before.
NoCleanup(j, k) == \A n \in IoNodes : "Cleanup" \in k.node[n] => "Cleanup" \in j.node[n]

\* Status::set
LEMMA MildSetStatus ==
    ASSUME NEW j \in JobType, NEW s \in Status
    PROVE  /\ Mild(j, SetStatus(j, s)) /\ NoCleanup(j, SetStatus(j, s))
           /\ SetStatus(j, s).status = s /\ SetStatus(j, s).error = j.error
           /\ SetStatus(j, s).pending = j.pending
<1>1. Keeps(j, SetStatus(j, s))
  BY KeepsSetStatus
<1>2. /\ SetStatus(j, s).attached = j.attached /\ SetStatus(j, s).canStart = j.canStart
      /\ SetStatus(j, s).outstanding = j.outstanding /\ SetStatus(j, s).error = j.error
      /\ SetStatus(j, s).node = j.node /\ SetStatus(j, s).pending = j.pending
      /\ SetStatus(j, s).status = s
  BY DEF SetStatus, JobType
<1> QED
  BY <1>1, <1>2 DEF Mild, NoCleanup

\* Job::setError
LEMMA MildSetError ==
    ASSUME NEW j \in JobType, NEW e \in Error \ {"none"}
    PROVE  /\ Mild(j, SetError(j, e)) /\ NoCleanup(j, SetError(j, e))
           /\ SetError(j, e).status = j.status /\ SetError(j, e).error = e
           /\ SetError(j, e).node = j.node /\ SetError(j, e).pending = j.pending
<1>1. Keeps(j, SetError(j, e))
  BY KeepsSetError
<1>2. /\ SetError(j, e).attached = j.attached /\ SetError(j, e).canStart = j.canStart
      /\ SetError(j, e).outstanding = j.outstanding /\ SetError(j, e).error = e
      /\ SetError(j, e).node = j.node /\ SetError(j, e).pending = j.pending
      /\ SetError(j, e).status = j.status
  BY DEF SetError, JobType
<1> QED
  BY <1>1, <1>2 DEF Mild, NoCleanup

\* A flag of some nodes
LEMMA MildSetFlag ==
    ASSUME NEW j \in JobType, NEW N \in SUBSET IoNodes, NEW f \in Requested \cup Reported
    PROVE  /\ Mild(j, SetFlag(j, N, f)) /\ (f # "Cleanup" => NoCleanup(j, SetFlag(j, N, f)))
           /\ SetFlag(j, N, f).status = j.status /\ SetFlag(j, N, f).error = j.error
           /\ SetFlag(j, N, f).pending = j.pending
<1>1. Keeps(j, SetFlag(j, N, f)) /\ Flagged(j, N, f, SetFlag(j, N, f))
  BY KeepsSetFlag, SetFlagFacts
<1>2. /\ SetFlag(j, N, f).attached = j.attached /\ SetFlag(j, N, f).canStart = j.canStart
      /\ SetFlag(j, N, f).outstanding = j.outstanding /\ SetFlag(j, N, f).error = j.error
      /\ SetFlag(j, N, f).pending = j.pending /\ SetFlag(j, N, f).status = j.status
  BY DEF SetFlag, JobType
<1>3. {"Cleanup", "signalInFlight"} \subseteq Requested \cup Reported
  BY DEF Requested, Reported
<1> QED
  BY <1>1, <1>2, <1>3 DEF Mild, NoCleanup, Flagged

\* A request to some nodes: one whose connection is up has it to answer.
LEMMA MildWrite ==
    ASSUME NEW j \in JobType, NEW N \in SUBSET IoNodes, NEW r \in Request
    PROVE  /\ Mild(j, Write(j, N, r)) /\ (r # "CleanupJob" => NoCleanup(j, Write(j, N, r)))
           /\ Write(j, N, r).status = j.status /\ Write(j, N, r).error = j.error
           /\ \A n \in N : link[n] = "up" => Write(j, N, r).pending[n][r] > 0
           /\ \A n \in N : link[n] # "gone" => FlagOf[r] \in Write(j, N, r).node[n]
           /\ \A n \in IoNodes, q \in Request : Write(j, N, r).pending[n][q] >= j.pending[n][q]
<1> DEFINE M == {n \in N : link[n] # "gone" \/ r = "StartStdio"}
           s == SetFlag(j, M, FlagOf[r])
           p == [n \in IoNodes |->
                    IF n \in N /\ link[n] = "up" /\ j.pending[n][r] < MaxPending
                    THEN [j.pending[n] EXCEPT ![r] = @ + 1]
                    ELSE j.pending[n]]
<1>0. M \in SUBSET IoNodes /\ FlagOf[r] \in Requested \cup Reported
  BY FlagOfFacts
<1>1. Write(j, N, r) = [s EXCEPT !.pending = p]
  BY DEF Write
<1>2. Write(j, N, r) \in JobType /\ Keeps(j, Write(j, N, r)) /\ Wrote(j, N, r, Write(j, N, r))
  BY KeepsWrite, WriteFacts, Zenon DEF Keeps
<1>3. /\ Mild(j, s) /\ (FlagOf[r] # "Cleanup" => NoCleanup(j, s)) /\ s.status = j.status
      /\ s.error = j.error
  BY <1>0, MildSetFlag
<1>4. s \in JobType
  BY <1>3 DEF Mild, Keeps
<1>5. \A n \in M : FlagOf[r] \in s.node[n]
  BY <1>0, SetFlagFacts DEF Flagged
<1> HIDE DEF s
<1>6. p \in [IoNodes -> [Request -> 0 .. MaxPending]] /\ Write(j, N, r).pending = p
  <2>1. Write(j, N, r).pending = p
    <3> HIDE DEF p
    <3> QED BY <1>1, <1>4 DEF JobType
  <2> QED
    BY <1>2, <2>1 DEF JobType
<1>7. j.pending \in [IoNodes -> [Request -> 0 .. MaxPending]]
  BY DEF JobType
<1>8. \A n \in N : link[n] = "up" => p[n][r] > 0
  <2> SUFFICES ASSUME NEW n \in N, link[n] = "up" PROVE p[n][r] > 0
    OBVIOUS
  <2>1. j.pending[n] \in [Request -> 0 .. MaxPending] /\ j.pending[n][r] \in 0 .. MaxPending
    BY <1>7
  <2>2. CASE j.pending[n][r] < MaxPending
    BY <2>1, <2>2, MaxPendingAssumption
  <2>3. CASE ~(j.pending[n][r] < MaxPending)
    BY <2>1, <2>3, MaxPendingAssumption
  <2> QED
    BY <2>2, <2>3
<1>9. \A n \in IoNodes, q \in Request : p[n][q] >= j.pending[n][q]
  <2> SUFFICES ASSUME NEW n \in IoNodes, NEW q \in Request PROVE p[n][q] >= j.pending[n][q]
    OBVIOUS
  <2>1. /\ j.pending[n] \in [Request -> 0 .. MaxPending] /\ j.pending[n][r] \in 0 .. MaxPending
        /\ j.pending[n][q] \in 0 .. MaxPending
    BY <1>7
  <2> QED
    BY <2>1, MaxPendingAssumption
<1> HIDE DEF p
<1>10. /\ Write(j, N, r).attached = s.attached /\ Write(j, N, r).canStart = s.canStart
       /\ Write(j, N, r).outstanding = s.outstanding /\ Write(j, N, r).error = s.error
       /\ Write(j, N, r).status = s.status /\ Write(j, N, r).node = s.node
  BY <1>1, <1>4 DEF JobType
<1>11. r # "CleanupJob" => FlagOf[r] # "Cleanup"
  BY DEF FlagOf, Request
<1>12. Mild(j, Write(j, N, r)) /\ (r # "CleanupJob" => NoCleanup(j, Write(j, N, r)))
  BY <1>2, <1>3, <1>10, <1>11 DEF Mild, NoCleanup
<1>13. \A n \in N : link[n] # "gone" => FlagOf[r] \in Write(j, N, r).node[n]
  BY <1>5, <1>10
<1> QED
  BY <1>3, <1>6, <1>8, <1>9, <1>10, <1>12, <1>13

\* The job is past CheckIoLinks, or can be started.
Active(j) == j.status \notin {"Invalid", "Terminating"} \/ j.canStart

\* The job is being started, or can be.
Starting(j) ==
    j.status \in {"Setup", "Loading", "ClientStarting", "Debug", "OutputStarting",
                  "ControlStarting"} \/ j.canStart

\* OutstandingAnswered, of a job
Answered(j) ==
    ~j.remove /\ j.outstanding # "none" =>
        \/ \E n \in j.io : "signalInFlight" \in j.node[n] \/ link[n] = "gone"
        \/ j.timer # "unset" \/ j.status = "Terminating"

\* What every handler but those of a start keeps
Tame(j, k) ==
    /\ Keeps(j, k) /\ k.attached = j.attached
    /\ j.error # "none" => k.error # "none"
    /\ j.status = "Terminating" => k.status = "Terminating"
    /\ Starting(k) => Starting(j)
    /\ Active(k) => Active(j)
    /\ Untouched(j) => Untouched(k)
    /\ StartedOnce(j) => StartedOnce(k)
    /\ StartedOnce(j) /\ Answered(j) => Answered(k)
    /\ StartedOnce(j) /\ EndedInv(j) => EndedInv(k)

LEMMA TameTrans ==
    ASSUME NEW j, NEW k, NEW l, Tame(j, k), Tame(k, l)
    PROVE  Tame(j, l)
<1>1. Keeps(j, l)
  BY KeepsTrans DEF Tame
<1> QED
  BY <1>1 DEF Tame

\* The stages in their order, an end, and a removal
Moves(j, k) ==
    \/ k.status = j.status \/ k.status = "Terminating"
    \/ k.status = "Cleanup" /\ j.status \notin {"Invalid", "Terminating"}
    \/ j.status = "Setup" /\ k.status = "Loading"
    \/ j.status = "Loading" /\ k.status = "ClientStarting"
    \/ j.status = "ClientStarting" /\ k.status = "Debug"
    \/ j.status = "OutputStarting" /\ k.status = "ControlStarting"
    \/ j.status = "ControlStarting" /\ k.status = "Running"

\* A mild handler that moves the job on is tame.
LEMMA MildTame ==
    ASSUME NEW j \in JobType, NEW k, Mild(j, k), Moves(j, k),
           \/ NoCleanup(j, k) \/ k.error # "none"
           \/ k.status = "Cleanup" /\ (StartedOnce(j) => ~k.canStart)
    PROVE  Tame(j, k)
<1>0. /\ k \in JobType /\ k.canStart = j.canStart /\ k.outstanding = j.outstanding
      /\ k.attached = j.attached /\ (j.error # "none" => k.error # "none")
      /\ Keeps(j, k) /\ k.io = j.io /\ j.io \subseteq IoNodes
      /\ (j.timer # "unset" => k.timer # "unset") /\ (j.remove => k.remove)
      /\ \A n \in IoNodes : "signalInFlight" \in j.node[n] => "signalInFlight" \in k.node[n]
  BY DEF Mild, Keeps, JobType
<1>1. /\ Starting(k) => Starting(j)
      /\ Active(k) => Active(j)
      /\ j.status = "Terminating" => k.status = "Terminating"
  BY <1>0 DEF Starting, Active, Moves
<1>2. StartedOnce(j) => StartedOnce(k)
  BY <1>0 DEF StartedOnce, Moves
<1>3. Answered(j) => Answered(k)
  BY <1>0, <1>1 DEF Answered
<1>4. StartedOnce(j) /\ EndedInv(j) => EndedInv(k)
  <2> SUFFICES ASSUME StartedOnce(j), EndedInv(j), NoCleanup(j, k) PROVE EndedInv(k)
    BY DEF EndedInv
  <2>1. j.status \in {"Cleanup", "Terminating"} /\ ~k.canStart
           => k.status \in {"Cleanup", "Terminating"}
    BY <1>0 DEF Moves
  <2> QED
    BY <1>0, <2>1 DEF EndedInv, NoCleanup
<1>5. Untouched(j) => Untouched(k)
  <2> SUFFICES ASSUME Untouched(j) PROVE Untouched(k)
    OBVIOUS
  <2>1. ~Active(k) /\ k.outstanding = "none" /\ k.status # "Cleanup"
    BY <1>0, <1>1 DEF Untouched, Active
  <2>2. NoCleanup(j, k) \/ k.error # "none"
    BY <2>1
  <2> QED
    BY <1>0, <2>1, <2>2 DEF Untouched, Active, NoCleanup
<1> QED
  BY <1>0, <1>1, <1>2, <1>3, <1>4, <1>5 DEF Tame

\* Transition::end, of a job that has an error or was started
LEMMA TameEnd ==
    ASSUME NEW j \in JobType, j.status \notin {"Invalid", "Terminating"},
           j.error # "none" \/ (StartedOnce(j) => ~j.canStart)
    PROVE  /\ Mild(j, End(j)) /\ Tame(j, End(j)) /\ End(j).status = "Cleanup"
           /\ \A n \in j.io : link[n] = "up" => End(j).pending[n]["CleanupJob"] > 0
<1> DEFINE s == SetStatus(j, "Cleanup")
           w == Write(s, j.io, "CleanupJob")
<1>1. Mild(j, s) /\ s.status = "Cleanup" /\ s.error = j.error
  BY MildSetStatus DEF Status
<1>2. End(j) = w /\ j.io \in SUBSET IoNodes
  BY DEF End, JobType
<1>3. s \in JobType /\ "CleanupJob" \in Request
  BY <1>1 DEF Mild, Keeps, Request
<1> HIDE DEF s
<1>4. /\ Mild(s, w) /\ w.status = "Cleanup" /\ w.error = j.error
      /\ \A n \in j.io : link[n] = "up" => w.pending[n]["CleanupJob"] > 0
  BY <1>1, <1>2, <1>3, MildWrite, Zenon
<1> HIDE DEF w
<1>5. Mild(j, w) /\ w.canStart = j.canStart
  BY <1>1, <1>4, MildTrans DEF Mild
<1>6. Moves(j, w)
  BY <1>4 DEF Moves
<1>7. Tame(j, w)
  BY <1>4, <1>5, <1>6, MildTame
<1> QED
  BY <1>2, <1>4, <1>5, <1>7

\* Signal::startTimer
LEMMA MildStartTimer ==
    ASSUME NEW j \in JobType, NEW sig, NEW shorter
    PROVE  LET k == StartTimer(j, sig, shorter)
           IN  /\ Mild(j, k) /\ Tame(j, k) /\ k.status = j.status /\ k.node = j.node
               /\ k.pending = j.pending /\ (sig = "KILL" => k.timer # "unset")
<1> DEFINE t == IF sig = "KILL" /\ (j.timer = "unset" \/ (j.timer = "stopped" /\ shorter))
                THEN "armed" ELSE j.timer
           h == j.hbStarted \/ sig = "HWFAIL"
           k == StartTimer(j, sig, shorter)
<1>1. Keeps(j, k) /\ k.status = j.status /\ (sig = "KILL" => k.timer # "unset")
  BY KeepsStartTimer
<1>2. k = [j EXCEPT !.timer = t, !.hbStarted = h]
  BY DEF StartTimer
<1> HIDE DEF t, h, k
<1>3. /\ k.attached = j.attached /\ k.canStart = j.canStart /\ k.outstanding = j.outstanding
      /\ k.error = j.error /\ k.node = j.node /\ k.pending = j.pending
  BY <1>2 DEF JobType
<1>4. Mild(j, k) /\ NoCleanup(j, k) /\ Moves(j, k)
  BY <1>1, <1>3 DEF Mild, NoCleanup, Moves
<1>5. Tame(j, k)
  BY <1>4, MildTame
<1> QED
  BY <1>1, <1>3, <1>4, <1>5 DEF k

\* A job stays noticed while nothing is reported and nothing is answered.
LEMMA NoticedKept ==
    ASSUME NEW j \in JobType, NEW k \in JobType, Noticed(j), k.io = j.io,
           k.status = j.status, j.remove => k.remove, j.timer # "unset" => k.timer # "unset",
           \/ k.node = j.node
           \/ /\ j.status = "Running"
              /\ \A n \in IoNodes, f \in {"drained", "exited"} : f \in k.node[n] => f \in j.node[n],
           \A n \in IoNodes, q \in Request \ {"SignalJob"} : k.pending[n][q] >= j.pending[n][q]
    PROVE  Noticed(k)
<1>1. j.io \subseteq IoNodes
  BY DEF JobType
<1>2. Ready(k) => Ready(j)
  <2>1. CASE k.node = j.node
    BY <2>1 DEF Ready, Done
  <2>2. CASE /\ j.status = "Running"
             /\ \A n \in IoNodes, f \in {"drained", "exited"} : f \in k.node[n] => f \in j.node[n]
    <3>1. ASSUME NEW n \in j.io, Done(k, n)
          PROVE  Done(j, n)
      <4>1. "drained" \in k.node[n] /\ \E m \in j.io : "exited" \in k.node[m]
        BY <2>2, <3>1 DEF Done
      <4>2. "drained" \in j.node[n] /\ \E m \in j.io : "exited" \in j.node[m]
        BY <1>1, <2>2, <4>1
      <4> QED
        BY <2>2, <4>2 DEF Done
    <3> QED
      BY <3>1 DEF Ready
  <2> QED
    BY <2>1, <2>2
<1>3. ASSUME NEW n \in j.io, NEW q \in Request \ {"SignalJob"}, j.pending[n][q] > 0
      PROVE  k.pending[n][q] > 0
  <2>1. j.pending[n][q] \in Nat /\ k.pending[n][q] \in Nat
    BY <1>1, MaxPendingAssumption DEF JobType
  <2> QED
    BY <1>1, <1>3, <2>1
<1> QED
  BY <1>2, <1>3 DEF Noticed

\* A job that was told to end has answers to wait for.
LEMMA NoticedWritten ==
    ASSUME NEW k \in JobType, NEW r \in Request \ {"SignalJob"}, NEW n \in k.io,
           link[n] # "down", link[n] = "up" => k.pending[n][r] > 0, TypeOK
    PROVE  Noticed(k)
<1>1. link[n] \in {"up", "eof", "gone"}
  BY ZenonT(30) DEF TypeOK, JobType
<1> QED
  BY <1>1 DEF Noticed

\* Signal::impl is tame, and a KILL has a timer or the job's end behind it.
LEMMA TameSignal ==
    ASSUME NEW j \in JobType, NEW sig \in {"TERM", "KILL", "HWFAIL"}, NEW shorter, TypeOK
    PROVE  LET k == Signal(j, sig, shorter)
           IN  /\ Tame(j, k)
               /\ sig = "KILL" /\ StartedOnce(j) => Answered(k)
               /\ /\ sig = "KILL" \/ Noticed(j)
                  /\ j.status \in {"ClientStarting", "Debug"} =>
                        j.remove \/ \E n \in j.io : link[n] # "down"
                  => Noticed(k)
               /\ j.status \notin {"ClientStarting", "Debug"} => k.status = j.status
<1> DEFINE k == Signal(j, sig, shorter)
<1>1. CASE j.status \in {"ClientStarting", "Debug"}
  <2> DEFINE e == SetError(j, "job_failed_to_start")
  <2>1. /\ Mild(j, e) /\ NoCleanup(j, e) /\ e.status = j.status /\ e.error # "none"
    BY MildSetError, ZenonT(30) DEF Error
  <2>2. k = End(e)
    BY <1>1 DEF Signal
  <2> HIDE DEF e
  <2>3. e \in JobType /\ e.io = j.io /\ e.outstanding = j.outstanding
    BY <2>1 DEF Mild, Keeps
  <2>4. Tame(j, e)
    BY <2>1, MildTame DEF Moves
  <2>5. /\ Mild(e, k) /\ Tame(e, k)
        /\ \A n \in e.io : link[n] = "up" => k.pending[n]["CleanupJob"] > 0
    BY <1>1, <2>1, <2>2, <2>3, TameEnd
  <2> HIDE DEF k
  <2>6. StartedOnce(j) => Answered(k)
    BY <1>1, <2>3, <2>5 DEF StartedOnce, Answered, Mild
  <2>7. (j.remove \/ \E n \in j.io : link[n] # "down") => Noticed(k)
    <3>1. k \in JobType /\ k.io = j.io /\ "CleanupJob" \in Request \ {"SignalJob"}
      BY <2>3, <2>5 DEF Mild, Keeps, Request
    <3>2. j.remove => k.remove
      BY <2>1, <2>5 DEF Mild, Keeps
    <3>3. ASSUME NEW n \in k.io, link[n] # "down"
          PROVE  Noticed(k)
      BY <2>3, <2>5, <3>1, <3>3, NoticedWritten
    <3> QED
      BY <3>1, <3>2, <3>3 DEF Noticed
  <2> QED
    BY <1>1, <2>4, <2>5, <2>6, <2>7, TameTrans DEF k
<1>2. CASE /\ j.status \notin {"ClientStarting", "Debug"}
           /\ j.status # "Running" \/ j.outstanding # "none"
  <2>1. k = StartTimer(j, sig, shorter)
    BY <1>2 DEF Signal
  <2>2. /\ Tame(j, k) /\ k.status = j.status /\ k.node = j.node
        /\ k.pending = j.pending /\ (sig = "KILL" => k.timer # "unset")
    BY <2>1, MildStartTimer
  <2> HIDE DEF k
  <2>3. sig = "KILL" => Answered(k) /\ Noticed(k)
    BY <2>2 DEF Answered, Noticed
  <2>4. Noticed(j) => Noticed(k)
    <3>1. /\ k \in JobType /\ k.io = j.io /\ (j.remove => k.remove)
          /\ (j.timer # "unset" => k.timer # "unset")
      BY <2>2 DEF Tame, Keeps
    <3>2. \A n \in IoNodes, q \in Request : k.pending[n][q] >= j.pending[n][q]
      BY <2>2, MaxPendingAssumption DEF JobType
    <3> QED
      BY <2>2, <3>1, <3>2, NoticedKept
  <2> QED
    BY <2>2, <2>3, <2>4 DEF k
<1>3. CASE j.status = "Running" /\ j.outstanding = "none"
  <2> DEFINE N == Targets(j, sig)
             m == Mark(j, N, sig)
             w == Write(m, N, "SignalJob")
             o == [w EXCEPT !.outstanding = IF N = {} THEN @ ELSE sig]
  <2>1. N \in SUBSET IoNodes /\ N \subseteq j.io
    BY DEF Targets, JobType
  <2>2. k = StartTimer(o, sig, shorter)
    BY <1>3 DEF Signal
  <2> HIDE DEF N
  <2>3. /\ Mild(j, m) /\ NoCleanup(j, m) /\ m.status = j.status /\ m.pending = j.pending
        /\ \A n \in IoNodes, f \in {"drained", "exited"} : f \in m.node[n] => f \in j.node[n]
    <3>1. \A f \in {"killed", "hardwareFailure", "drained", "exited"} :
             f \in Requested \cup Reported
      BY DEF Reported
    <3>2. ASSUME NEW f \in {"killed", "hardwareFailure"}
          PROVE  LET s == SetFlag(j, N, f)
                 IN  /\ Mild(j, s) /\ NoCleanup(j, s) /\ s.status = j.status
                     /\ s.pending = j.pending
                     /\ \A n \in IoNodes, g \in {"drained", "exited"} :
                           g \in s.node[n] => g \in j.node[n]
      BY <2>1, <3>1, MildSetFlag, SetFlagFacts DEF Flagged
    <3>3. Mild(j, j) /\ NoCleanup(j, j)
      BY DEF Mild, Keeps, NoCleanup
    <3> QED
      BY <3>2, <3>3 DEF Mark
  <2>4. m \in JobType /\ m.io = j.io
    BY <2>3 DEF Mild, Keeps
  <2> HIDE DEF m
  <2>5. /\ Mild(m, w) /\ NoCleanup(m, w) /\ w.status = m.status
        /\ \A n \in N : link[n] # "gone" => "signalInFlight" \in w.node[n]
        /\ \A n \in IoNodes, q \in Request : w.pending[n][q] >= m.pending[n][q]
    <3>1. FlagOf["SignalJob"] = "signalInFlight" /\ "SignalJob" \in Request
      BY DEF FlagOf, Request
    <3> QED
      BY <2>1, <2>4, <3>1, MildWrite, Zenon
  <2>6. \A n \in IoNodes, f \in {"drained", "exited"} : f \in w.node[n] => f \in m.node[n]
    <3>1. /\ FlagOf["SignalJob"] = "signalInFlight" /\ "SignalJob" \in Request
          /\ {"drained", "exited"} \subseteq Requested \cup Reported
      BY DEF FlagOf, Request, Reported
    <3>2. Wrote(m, N, "SignalJob", w)
      BY <2>1, <2>4, <3>1, WriteFacts
    <3> HIDE DEF w
    <3> QED
      BY <3>1, <3>2 DEF Wrote
  <2>7. Mild(j, w) /\ NoCleanup(j, w) /\ w.status = "Running"
    BY <1>3, <2>3, <2>5, MildTrans DEF NoCleanup
  <2>8. w \in JobType /\ w.outstanding = "none" /\ w.io = j.io /\ w.canStart = j.canStart
    BY <1>3, <2>7 DEF Mild, Keeps
  <2> HIDE DEF w
  <2>9. /\ o \in JobType /\ o.io = j.io /\ o.status = "Running" /\ o.canStart = j.canStart
        /\ o.node = w.node /\ o.timer = w.timer /\ o.remove = w.remove /\ o.error = w.error
        /\ o.pending = w.pending /\ o.attached = w.attached /\ o.disconnected = w.disconnected
        /\ o.outstanding = IF N = {} THEN "none" ELSE sig
    <3>1. (IF N = {} THEN w.outstanding ELSE sig) \in {"none", "TERM", "KILL", "HWFAIL"}
      BY <2>8
    <3> QED
      BY <2>7, <2>8, <3>1, ZenonT(30) DEF JobType
  <2> HIDE DEF o
  <2>10. Tame(j, w)
    BY <1>3, <2>7, MildTame DEF Moves
  <2>11. Tame(w, o) /\ Answered(o)
    <3>1. Answered(o)
      BY <2>1, <2>5, <2>9 DEF Answered
    <3>2. Keeps(w, o)
      BY <2>8, <2>9 DEF Keeps
    <3>3. StartedOnce(w) => StartedOnce(o)
      BY <2>7, <2>8, <2>9 DEF StartedOnce
    <3>4. EndedInv(w) => EndedInv(o)
      BY <2>7, <2>8, <2>9 DEF EndedInv
    <3>5. Active(w) /\ (Starting(o) => Starting(w)) /\ ~Untouched(w)
      BY <2>7, <2>8, <2>9 DEF Active, Starting, Untouched
    <3> QED
      BY <2>7, <2>9, <3>1, <3>2, <3>3, <3>4, <3>5 DEF Tame
  <2>12. Noticed(j) => Noticed(o)
    <3>1. /\ (j.remove => o.remove) /\ (j.timer # "unset" => o.timer # "unset")
      BY <2>7, <2>9 DEF Mild, Keeps
    <3>2. \A n \in IoNodes, f \in {"drained", "exited"} : f \in o.node[n] => f \in j.node[n]
      BY <2>3, <2>6, <2>9
    <3>3. \A n \in IoNodes, q \in Request : o.pending[n][q] >= j.pending[n][q]
      BY <2>3, <2>5, <2>9
    <3> QED
      BY <1>3, <2>9, <3>1, <3>2, <3>3, NoticedKept
  <2>13. /\ Tame(o, k) /\ k.status = o.status /\ k.node = o.node
         /\ k.pending = o.pending /\ (sig = "KILL" => k.timer # "unset")
    BY <2>2, <2>9, MildStartTimer
  <2> HIDE DEF k
  <2>14. sig = "KILL" => Answered(k) /\ Noticed(k)
    BY <2>13 DEF Answered, Noticed
  <2>15. Noticed(o) => Noticed(k)
    <3>1. /\ k \in JobType /\ k.io = o.io /\ (o.remove => k.remove)
          /\ (o.timer # "unset" => k.timer # "unset")
      BY <2>13 DEF Tame, Keeps
    <3>2. \A n \in IoNodes, q \in Request : k.pending[n][q] >= o.pending[n][q]
      BY <2>9, <2>13, MaxPendingAssumption DEF JobType
    <3> QED
      BY <2>9, <2>13, <3>1, <3>2, NoticedKept
  <2>16. Tame(j, k)
    BY <2>10, <2>11, <2>13, TameTrans
  <2> QED
    BY <1>3, <2>9, <2>12, <2>13, <2>14, <2>15, <2>16 DEF k
<1> QED
  BY <1>1, <1>2, <1>3

\* Job::remove
LEMMA TameRemove ==
    ASSUME NEW j \in JobType
    PROVE  Tame(j, Remove(j)) /\ Answered(Remove(j)) /\ Noticed(Remove(j))
<1> DEFINE o == IF j.attached \/ j.disconnected
                THEN [j EXCEPT !.remove = TRUE] ELSE SetStatus(j, "Terminating")
           f == o.softwareFailure \/ j.error = "kill_timeout"
           t == IF o.timer = "armed" THEN "stopped" ELSE o.timer
           k == Remove(j)
<1>1. o \in JobType
  <2>1. CASE j.attached \/ j.disconnected
    BY <2>1, Zenon DEF JobType
  <2>2. CASE ~(j.attached \/ j.disconnected)
    BY <2>2, SetStatusFacts DEF Status
  <2> QED
    BY <2>1, <2>2
<1>2. /\ o.attached = j.attached /\ o.canStart = j.canStart /\ o.outstanding = j.outstanding
      /\ o.error = j.error /\ o.node = j.node
  <2>1. CASE j.attached \/ j.disconnected
    BY <2>1 DEF JobType
  <2>2. CASE ~(j.attached \/ j.disconnected)
    BY <2>2 DEF SetStatus, JobType
  <2> QED
    BY <2>1, <2>2
<1>3. k = [o EXCEPT !.softwareFailure = f, !.timer = t, !.hbStopped = TRUE]
  BY DEF Remove
<1>4. Keeps(j, k) /\ (k.remove \/ k.status = "Terminating")
  BY KeepsRemove
<1>5. k.status \in {j.status, "Terminating"}
  BY RemoveFacts
<1> HIDE DEF o, f, t, k
<1>6. /\ k.attached = o.attached /\ k.canStart = o.canStart /\ k.outstanding = o.outstanding
      /\ k.error = o.error /\ k.node = o.node
  BY <1>1, <1>3 DEF JobType
<1>7. Mild(j, k) /\ NoCleanup(j, k) /\ Moves(j, k)
  BY <1>2, <1>4, <1>5, <1>6 DEF Mild, NoCleanup, Moves
<1>8. Tame(j, k)
  BY <1>7, MildTame
<1>9. Answered(k) /\ Noticed(k)
  BY <1>4 DEF Answered, Noticed
<1> QED
  BY <1>8, <1>9 DEF k

\* Transition::run, for a message of a node whose connection is up: only a job
\* without a mux is not looked at again.
LEMMA TameRun ==
    ASSUME NEW j \in JobType, NEW shorter, TypeOK, j.status = "ControlStarting",
           NEW n \in j.io, link[n] = "up"
    PROVE  Tame(j, Run(j, shorter)) /\ (j.attached => Noticed(Run(j, shorter)))
<1> DEFINE r == SetStatus(j, "Running")
           k == IF j.timer = "unset" THEN r ELSE Signal(r, "KILL", shorter)
<1>1. Mild(j, r) /\ NoCleanup(j, r) /\ r.status = "Running"
  BY MildSetStatus DEF Status
<1>2. Run(j, shorter) = IF ~j.attached THEN r ELSE IF Ready(k) THEN End(k) ELSE k
  BY DEF Run
<1>3. r \in JobType /\ r.io = j.io
  BY <1>1 DEF Mild, Keeps
<1>4. Tame(j, r)
  BY <1>1, MildTame DEF Moves
<1> HIDE DEF r
<1>5. Tame(r, r)
  BY <1>3 DEF Tame, Keeps
<1>6. Tame(r, k) /\ k.status = "Running"
  BY <1>1, <1>3, <1>5, TameSignal
<1>7. k \in JobType /\ k.io = j.io
  BY <1>3, <1>6 DEF Tame, Keeps
<1>8. StartedOnce(k) => ~k.canStart
  BY <1>6 DEF StartedOnce
<1> HIDE DEF k
<1>9. /\ Tame(k, End(k)) /\ Mild(k, End(k))
      /\ \A m \in k.io : link[m] = "up" => End(k).pending[m]["CleanupJob"] > 0
  BY <1>6, <1>7, <1>8, TameEnd
<1>10. Noticed(End(k))
  <2>1. End(k) \in JobType /\ End(k).io = j.io /\ "CleanupJob" \in Request \ {"SignalJob"}
    BY <1>7, <1>9 DEF Mild, Keeps, Request
  <2> QED
    BY <1>7, <1>9, <2>1, NoticedWritten
<1>11. ~Ready(k) => Noticed(k)
  BY DEF Noticed
<1>12. Tame(j, k) /\ Tame(j, End(k))
  BY <1>4, <1>6, <1>9, TameTrans
<1> QED
  BY <1>2, <1>4, <1>10, <1>11, <1>12

\* Transition::loaded
LEMMA TameLoaded ==
    ASSUME NEW j \in JobType, TypeOK, j.status = "Loading", NEW n \in j.io, link[n] = "up"
    PROVE  Tame(j, Loaded(j)) /\ Noticed(Loaded(j))
<1> DEFINE c == SetStatus(j, "ClientStarting")
           e == SetError(c, "job_failed_to_start")
           s == c.canStart \/ j.attached
           a == [c EXCEPT !.canStart = s]
<1>1. Mild(j, c) /\ NoCleanup(j, c) /\ c.status = "ClientStarting"
  BY MildSetStatus DEF Status
<1>2. Loaded(j) = IF j.disconnected THEN End(e) ELSE a
  BY DEF Loaded
<1>3. c \in JobType /\ c.io = j.io
  BY <1>1 DEF Mild, Keeps
<1>4. Tame(j, c)
  BY <1>1, MildTame DEF Moves
<1> HIDE DEF c
<1>5. CASE j.disconnected
  <2>1. Mild(c, e) /\ NoCleanup(c, e) /\ e.status = "ClientStarting" /\ e.error # "none"
    BY <1>1, <1>3, MildSetError DEF Error
  <2>2. e \in JobType /\ e.io = j.io
    BY <1>3, <2>1 DEF Mild, Keeps
  <2>3. Tame(c, e)
    BY <1>1, <1>3, <2>1, MildTame DEF Moves
  <2> HIDE DEF e
  <2>4. /\ Tame(e, End(e)) /\ Mild(e, End(e))
        /\ \A m \in e.io : link[m] = "up" => End(e).pending[m]["CleanupJob"] > 0
    BY <2>1, <2>2, TameEnd
  <2>5. Noticed(End(e))
    <3>1. End(e) \in JobType /\ End(e).io = j.io /\ "CleanupJob" \in Request \ {"SignalJob"}
      BY <2>2, <2>4 DEF Mild, Keeps, Request
    <3> QED
      BY <2>2, <2>4, <3>1, NoticedWritten
  <2> QED
    BY <1>2, <1>4, <1>5, <2>3, <2>4, <2>5, TameTrans
<1>6. CASE ~j.disconnected
  <2>1. s \in BOOLEAN
    OBVIOUS
  <2> HIDE DEF s
  <2>2. /\ a \in JobType /\ a.io = c.io /\ a.status = "ClientStarting" /\ a.node = c.node
        /\ a.outstanding = c.outstanding /\ a.error = c.error /\ a.timer = c.timer
        /\ a.remove = c.remove /\ a.attached = c.attached /\ a.disconnected = c.disconnected
    BY <1>1, <1>3, <2>1, Zenon DEF JobType
  <2> HIDE DEF a
  <2>3. Tame(c, a)
    <3>1. Keeps(c, a)
      BY <2>2 DEF Keeps
    <3>2. (StartedOnce(c) => StartedOnce(a)) /\ (Answered(c) => Answered(a))
      BY <1>1, <2>2 DEF StartedOnce, Answered
    <3>3. EndedInv(c) => EndedInv(a)
      BY <1>1, <2>2 DEF EndedInv
    <3>4. Active(c) /\ Starting(c) /\ ~Untouched(c)
      BY <1>1 DEF Active, Starting, Untouched
    <3> QED
      BY <1>1, <2>2, <3>1, <3>2, <3>3, <3>4 DEF Tame
  <2>4. ~Ready(a)
    BY <1>3, <2>2 DEF Ready, Done
  <2> QED
    BY <1>2, <1>4, <1>6, <2>3, <2>4, TameTrans DEF Noticed
<1> QED
  BY <1>5, <1>6

\* Load::create and the second Start::create, for a message of a node whose
\* connection is up
LEMMA TameStage ==
    ASSUME NEW j \in JobType, TypeOK, NEW n \in j.io, link[n] = "up",
           NEW s \in Status, NEW r \in {"LoadJob", "StartJob"},
           \/ j.status = "Setup" /\ s = "Loading"
           \/ j.status = "OutputStarting" /\ s = "ControlStarting"
    PROVE  LET k == Write(SetStatus(j, s), j.io, r) IN Tame(j, k) /\ Noticed(k)
<1> DEFINE c == SetStatus(j, s)
           k == Write(c, j.io, r)
<1>1. Mild(j, c) /\ NoCleanup(j, c) /\ c.status = s
  BY MildSetStatus
<1>2. /\ c \in JobType /\ c.io = j.io /\ j.io \in SUBSET IoNodes
      /\ r \in Request \ {"SignalJob", "CleanupJob"}
  BY <1>1 DEF Mild, Keeps, JobType, Request
<1> HIDE DEF c
<1>3. /\ Mild(c, k) /\ NoCleanup(c, k) /\ k.status = s
      /\ \A m \in j.io : link[m] = "up" => k.pending[m][r] > 0
  BY <1>1, <1>2, MildWrite, Zenon
<1> HIDE DEF k
<1>4. Mild(j, k) /\ NoCleanup(j, k)
  BY <1>1, <1>3, MildTrans DEF NoCleanup
<1>5. Tame(j, k)
  BY <1>3, <1>4, MildTame DEF Moves
<1>6. k \in JobType /\ k.io = j.io
  BY <1>4 DEF Mild, Keeps
<1>7. Noticed(k)
  BY <1>2, <1>3, <1>6, NoticedWritten
<1> QED
  BY <1>5, <1>7 DEF c, k

\* Handle::transition, for a message of a node whose connection is up
LEMMA TameTransition ==
    ASSUME NEW j \in JobType, NEW shorter, TypeOK, NEW n \in j.io, link[n] = "up"
    PROVE  /\ Tame(j, Transition(j, shorter))
           /\ \/ Noticed(Transition(j, shorter))
              \/ j.status = "ControlStarting" /\ j.error = "none" /\ ~j.attached
<1> DEFINE k == Transition(j, shorter)
<1>1. CASE ~Ready(j)
  <2>1. k = j /\ Noticed(j)
    BY <1>1 DEF Transition, Noticed
  <2>2. Tame(j, j)
    BY DEF Tame, Keeps
  <2> QED
    BY <2>1, <2>2
<1>2. ASSUME Ready(j), j.status \notin {"Invalid", "Terminating"},
             j.error # "none" \/ (StartedOnce(j) => ~j.canStart)
      PROVE  Tame(j, End(j)) /\ Noticed(End(j))
  <2>1. /\ Tame(j, End(j)) /\ Mild(j, End(j))
        /\ \A m \in j.io : link[m] = "up" => End(j).pending[m]["CleanupJob"] > 0
    BY <1>2, TameEnd
  <2>2. End(j) \in JobType /\ End(j).io = j.io /\ "CleanupJob" \in Request \ {"SignalJob"}
    BY <2>1 DEF Mild, Keeps, Request
  <2> QED
    BY <2>1, <2>2, NoticedWritten
<1>3. CASE /\ Ready(j) /\ j.error # "none"
           /\ j.status \in {"Setup", "Loading", "OutputStarting", "ControlStarting"}
  <2>1. k = End(j)
    BY <1>3 DEF Transition
  <2> QED
    BY <1>2, <1>3, <2>1
<1>4. CASE Ready(j) /\ j.error = "none" /\ j.status = "Setup"
  <2>1. k = Load(j)
    BY <1>4 DEF Transition
  <2> QED
    BY <1>4, <2>1, TameStage DEF Load, Status
<1>5. CASE Ready(j) /\ j.error = "none" /\ j.status = "Loading"
  <2>1. k = Loaded(j)
    BY <1>5 DEF Transition
  <2> QED
    BY <1>5, <2>1, TameLoaded
<1>6. CASE Ready(j) /\ j.error = "none" /\ j.status = "OutputStarting"
  <2>1. k = StartControl(j)
    BY <1>6 DEF Transition
  <2> QED
    BY <1>6, <2>1, TameStage DEF StartControl, Status
<1>7. CASE Ready(j) /\ j.error = "none" /\ j.status = "ControlStarting"
  <2>1. k = Run(j, shorter)
    BY <1>7 DEF Transition
  <2> QED
    BY <1>7, <2>1, TameRun
<1>8. CASE Ready(j) /\ j.status = "Running"
  <2>1. k = End(j) /\ (StartedOnce(j) => ~j.canStart)
    BY <1>8 DEF Transition, StartedOnce
  <2> QED
    BY <1>2, <1>8, <2>1
<1>9. CASE Ready(j) /\ j.status = "Cleanup"
  <2>1. k = Remove(j)
    BY <1>9 DEF Transition
  <2> QED
    BY <2>1, TameRemove
<1>10. CASE Ready(j) /\ j.status \in {"Invalid", "ClientStarting", "Debug", "Terminating"}
  BY <1>10 DEF Ready, Done
<1>11. j.status \in Status
  BY DEF JobType
<1> QED
  BY <1>1, <1>3, <1>4, <1>5, <1>6, <1>7, <1>8, <1>9, <1>10, <1>11, ZenonT(30) DEF Status

\* A flag other than Cleanup, and an error
LEMMA TameReport ==
    ASSUME NEW j \in JobType, NEW n \in IoNodes,
           NEW f \in (Requested \cup Reported) \ {"Cleanup"}, NEW e \in Error \ {"none"}
    PROVE  /\ Tame(j, SetFlag(j, {n}, f)) /\ SetFlag(j, {n}, f).status = j.status
           /\ Tame(j, SetError(j, e)) /\ SetError(j, e).status = j.status
           /\ Tame(j, Failure(j, n, e)) /\ Failure(j, n, e).status = j.status
<1>0. {n} \in SUBSET IoNodes /\ "error" \in (Requested \cup Reported) \ {"Cleanup"}
  BY DEF Reported
<1>1. ASSUME NEW i \in JobType, NEW x \in Error \ {"none"}
      PROVE  Tame(i, SetError(i, x)) /\ SetError(i, x).status = i.status
  <2>1. /\ Mild(i, SetError(i, x)) /\ NoCleanup(i, SetError(i, x))
        /\ SetError(i, x).status = i.status
    BY <1>1, MildSetError
  <2> QED
    BY <1>1, <2>1, MildTame DEF Moves
<1>2. ASSUME NEW g \in (Requested \cup Reported) \ {"Cleanup"}
      PROVE  Tame(j, SetFlag(j, {n}, g)) /\ SetFlag(j, {n}, g).status = j.status
  <2>1. /\ Mild(j, SetFlag(j, {n}, g)) /\ NoCleanup(j, SetFlag(j, {n}, g))
        /\ SetFlag(j, {n}, g).status = j.status
    BY <1>0, <1>2, MildSetFlag
  <2> QED
    BY <2>1, MildTame DEF Moves
<1> DEFINE s == SetFlag(j, {n}, "error")
<1>3. Tame(j, s) /\ s.status = j.status
  BY <1>0, <1>2
<1>4. s \in JobType /\ Failure(j, n, e) = SetError(s, e)
  BY <1>3 DEF Tame, Keeps, Failure
<1> HIDE DEF s
<1>5. Tame(j, Failure(j, n, e)) /\ Failure(j, n, e).status = j.status
  BY <1>1, <1>3, <1>4, TameTrans
<1> QED
  BY <1>1, <1>2, <1>5, Zenon

\* IoNode::startFailure
LEMMA TameStartFailure ==
    ASSUME NEW j \in JobType, NEW n \in IoNodes
    PROVE  Tame(j, StartFailure(j, n)) /\ StartFailure(j, n).status = j.status
<1> DEFINE f == Failure(j, n, "job_failed_to_start")
           N == {m \in j.io : "Running" \in j.node[m] /\ "killed" \notin j.node[m]}
           s == SetFlag(f, N, "killed")
           w == Write(s, N, "SignalJob")
<1>1. Tame(j, f) /\ f.status = j.status
  <2>1. "job_failed_to_start" \in Error \ {"none"} /\ "error" \in (Requested \cup Reported) \ {"Cleanup"}
    BY DEF Error, Reported
  <2> QED
    BY <2>1, TameReport, Zenon
<1>2. f \in JobType /\ N \in SUBSET IoNodes /\ StartFailure(j, n) = w
  BY <1>1 DEF Tame, Keeps, JobType, StartFailure
<1> HIDE DEF f, N
<1>3. Mild(f, s) /\ NoCleanup(f, s) /\ s.status = f.status
  <2>1. "killed" \in Requested \cup Reported
    BY DEF Reported
  <2> QED
    BY <1>2, <2>1, MildSetFlag
<1>4. s \in JobType
  BY <1>3 DEF Mild, Keeps
<1> HIDE DEF s
<1>5. Mild(s, w) /\ NoCleanup(s, w) /\ w.status = s.status
  BY <1>2, <1>4, MildWrite DEF Request
<1> HIDE DEF w
<1>6. Tame(f, s) /\ Tame(s, w)
  BY <1>2, <1>3, <1>4, <1>5, MildTame DEF Moves
<1> QED
  BY <1>1, <1>2, <1>3, <1>5, <1>6, TameTrans

-----------------------------------------------------------------------------
(* One lemma for each group of handlers.                                   *)

EndInv == OutstandingInv /\ StallInv

KillPosted == \E s \in posted : s.sig = "KILL"

\* The job but for a client that may be found to have left
Like(i, j) ==
    /\ j \in JobType
    /\ j.io = i.io /\ j.status = i.status /\ j.node = i.node /\ j.canStart = i.canStart
    /\ j.outstanding = i.outstanding /\ j.error = i.error /\ j.timer = i.timer
    /\ j.remove = i.remove /\ j.attached = i.attached
    /\ i.disconnected => j.disconnected

\* A tame step that leaves the connections alone keeps the invariants.
LEMMA StepEnd ==
    ASSUME JobInv, EndInv, NEW j, Like(job, j), Tame(j, job'),
           UNCHANGED <<mux, clients, inJobs, link>>,
           check' \in {check, "done", "failed"}, check' # "done" => check # "done",
           inJobs => Noticed(job') \/ KillPosted'
    PROVE  EndInv'
<1>0. /\ StartedOnce(j) /\ EndedInv(j) /\ (inJobs => Answered(j))
      /\ check # "done" => Untouched(j)
  <2>1. /\ StartedOnce(job) /\ EndedInv(job) /\ (inJobs => Answered(job))
        /\ check # "done" => Untouched(job)
    BY DEF EndInv, OutstandingInv, StallInv, OutstandingAnswered, Answered
  <2>2. StartedOnce(job) => StartedOnce(j)
    BY DEF Like, StartedOnce
  <2>3. (EndedInv(job) => EndedInv(j)) /\ (Untouched(job) => Untouched(j))
    BY DEF Like, EndedInv, Untouched
  <2>4. Answered(job) => Answered(j)
    BY DEF Like, Answered
  <2> QED
    BY <2>1, <2>2, <2>3, <2>4
<1>1. /\ StartedOnce(job') /\ EndedInv(job') /\ (inJobs => Answered(job'))
      /\ check # "done" => Untouched(job')
      /\ job'.io = job.io
  BY <1>0 DEF Tame, Keeps, Like
<1>2. OutstandingAnswered'
  BY <1>1 DEF Answered, OutstandingAnswered
<1>3. OutstandingInv'
  <2>1. StartedOnce(job)' /\ (check' # "done" => Untouched(job)')
    BY <1>1 DEF StartedOnce, Untouched
  <2> QED
    BY <1>2, <2>1 DEF OutstandingInv
<1>4. inJobs => ClientInv'
  <2> SUFFICES ASSUME inJobs PROVE ClientInv'
    OBVIOUS
  <2>1. /\ Starting(job) => job.disconnected \/ (job.attached /\ mux = "up" /\ clients = "job")
        /\ clients # "none" => mux = "up"
        /\ check = "update" => job.attached /\ mux = "up"
        /\ check = "ok" => job.disconnected \/ (job.attached /\ mux = "up" /\ clients = "job")
    BY DEF EndInv, StallInv, ClientInv, Starting
  <2>2. Starting(job') => Starting(job)
    BY DEF Tame, Like, Starting
  <2>3. (job.disconnected => job'.disconnected) /\ job'.attached = job.attached
    BY DEF Tame, Keeps, Like
  <2> QED
    BY <2>1, <2>2, <2>3 DEF ClientInv, Starting
<1>5. inJobs => IoInv'
  <2> SUFFICES ASSUME inJobs PROVE IoInv'
    OBVIOUS
  <2>1. /\ job.io = {} /\ ~job.remove =>
             job.status = "Terminating" /\ ~job.attached /\ ~job.canStart /\ check \notin {"update", "ok"}
        /\ (Active(job) \/ check \in {"update", "ok"}) => \A n \in job.io : link[n] # "down"
    BY DEF EndInv, StallInv, IoInv, Active
  <2>2. Active(job') => Active(job)
    BY DEF Tame, Like, Active
  <2>3. /\ job.status = "Terminating" => job'.status = "Terminating"
        /\ job'.attached = job.attached /\ (job.remove => job'.remove)
    BY DEF Tame, Keeps, Like
  <2>4. job.status = "Terminating" /\ ~job.canStart => ~job'.canStart
    BY <2>2 DEF Active
  <2> QED
    BY <1>1, <2>1, <2>2, <2>3, <2>4 DEF IoInv, Active
<1>6. inJobs => Noticed(job)' \/ KillPosted'
  <2>1. Noticed(job') => Noticed(job)'
    BY DEF Noticed
  <2> QED
    BY <2>1
<1>7. EndedInv(job)'
  BY <1>1 DEF EndedInv
<1> QED
  BY <1>3, <1>4, <1>5, <1>6, <1>7 DEF EndInv, StallInv, KillPosted

\* A handler on the job's strand
LEMMA HandledEnd ==
    ASSUME JobInv, EndInv, NEW j, JobStep(j), Tame(job, j),
           check' \in {check, "done"}, inJobs => Noticed(j) \/ KillPosted
    PROVE  EndInv'
<1>1. job' = j /\ UNCHANGED <<mux, clients, inJobs, link, posted>>
  BY DEF JobStep
<1>2. inJobs => Noticed(job') \/ KillPosted'
  BY <1>1 DEF KillPosted
<1>3. Like(job, job)
  BY DEF JobInv, TypeOK, Like
<1> QED
  BY <1>1, <1>2, <1>3, StepEnd

\* A message of an I/O node, which ends in Handle::transition.  A job that is Running
\* and has lost its mux is being killed, so what Transition::run skips is not missed.
LEMMA MessageEnd ==
    ASSUME JobInv, OrphanInv, EndInv, NEW n, Connected(n), NEW k, Tame(job, k), NEW shorter,
           k.status = "ControlStarting" => job.status = "ControlStarting",
           Handled(Transition(k, shorter))
    PROVE  EndInv'
<1> DEFINE l == Transition(k, shorter)
<1>0. TypeOK /\ inJobs /\ n \in job.io /\ link[n] = "up"
  BY DEF JobInv, Connected
<1>1. k \in JobType /\ k.io = job.io
  BY DEF Tame, Keeps
<1>2. /\ Tame(k, l)
      /\ Noticed(l) \/ (k.status = "ControlStarting" /\ k.error = "none" /\ ~k.attached)
  BY <1>0, <1>1, TameTransition
<1>3. JobStep(l) /\ check' = check
  BY DEF Handled
<1> HIDE DEF l
<1>4. Tame(job, l)
  BY <1>2, TameTrans
<1>5. CASE k.status = "ControlStarting" /\ k.error = "none" /\ ~k.attached
  <2>1. job.status = "ControlStarting" /\ job.error = "none" /\ ~job.attached
    BY <1>5 DEF Tame
  <2>2. job.disconnected
    BY <1>0, <2>1 DEF EndInv, StallInv, ClientInv
  <2>3. \/ job.remove \/ KillPosted \/ job.timer # "unset"
        \/ \E m \in job.io : "Cleanup" \in job.node[m] \/ link[m] = "gone"
    BY <1>0, <2>2 DEF OrphanInv, DisconnectedKilled, KillPosted
  <2>4. job.io \subseteq IoNodes
    BY <1>0 DEF TypeOK, JobType
  <2>5. \A m \in job.io : "Cleanup" \notin job.node[m]
    BY <2>1, <2>4 DEF EndInv, StallInv, EndedInv
  <2>6. Noticed(l) \/ KillPosted
    BY <1>4, <2>3, <2>5, Zenon DEF Tame, Keeps, Noticed
  <2> QED
    BY <1>3, <1>4, <2>6, HandledEnd
<1>6. CASE Noticed(l)
  BY <1>3, <1>4, <1>6, HandledEnd
<1> QED
  BY <1>2, <1>5, <1>6

\* An answer is taken from the pending ones.
LEMMA TameTaken ==
    ASSUME JobInv, NEW n, NEW r \in Request, Answers(n, r)
    PROVE  Tame(job, Taken(n, r)) /\ Taken(n, r).status = job.status /\ Taken(n, r) \in JobType
<1>1. /\ Keeps(job, Taken(n, r)) /\ Taken(n, r) \in JobType /\ job \in JobType /\ n \in IoNodes
  BY KeepsTaken, AnswerFacts
<1> DEFINE p == [job.pending EXCEPT ![n][r] = @ - 1]
<1>2. Taken(n, r) = [job EXCEPT !.pending = p]
  BY <1>1 DEF Taken, JobType
<1> HIDE DEF p
<1>3. /\ Taken(n, r).attached = job.attached /\ Taken(n, r).canStart = job.canStart
      /\ Taken(n, r).outstanding = job.outstanding /\ Taken(n, r).error = job.error
      /\ Taken(n, r).node = job.node /\ Taken(n, r).status = job.status
  BY <1>1, <1>2 DEF JobType
<1>4. Mild(job, Taken(n, r)) /\ NoCleanup(job, Taken(n, r))
  BY <1>1, <1>3 DEF Mild, NoCleanup
<1> QED
  BY <1>1, <1>3, <1>4, MildTame DEF Moves

\* The acknowledgements of setup, load, the two starts and the cleanup
LEMMA ReportsEnd ==
    ASSUME JobInv, OrphanInv, EndInv, NEW n, NEW ok, NEW epilog, NEW shorter,
           \/ SetupJobAck(n, ok, shorter) \/ LoadJobAck(n, ok, shorter)
           \/ StdioStartJobAck(n, ok, shorter) \/ StartJobAck(n, ok, shorter)
           \/ CleanupJobAck(n, ok, epilog, shorter)
    PROVE  EndInv'
<1>0. /\ \A f \in {"setup", "loaded", "output_started", "Running", "ended"} :
            f \in (Requested \cup Reported) \ {"Cleanup"}
      /\ {"job_failed_to_start", "job_failed_to_cleanup"} \subseteq Error \ {"none"}
      /\ \A r \in {"SetupJob", "LoadJob", "StartStdio", "StartJob", "CleanupJob"} : r \in Request
  BY DEF Requested, Reported, Error, Request
<1>1. CASE \/ SetupJobAck(n, ok, shorter) \/ LoadJobAck(n, ok, shorter)
           \/ StdioStartJobAck(n, ok, shorter) \/ StartJobAck(n, ok, shorter)
  <2>1. PICK r \in Request, f \in {"setup", "loaded", "output_started", "Running"} :
           /\ Answers(n, r)
           /\ LET t == Taken(n, r)
              IN  \E k \in {SetFlag(t, {n}, f), Failure(t, n, "job_failed_to_start"),
                            StartFailure(t, n)} : Handled(Transition(k, shorter))
    <3>1. CASE SetupJobAck(n, ok, shorter)
      BY <1>0, <3>1 DEF SetupJobAck
    <3>2. CASE LoadJobAck(n, ok, shorter)
      BY <1>0, <3>2 DEF LoadJobAck
    <3>3. CASE StdioStartJobAck(n, ok, shorter)
      BY <1>0, <3>3 DEF StdioStartJobAck
    <3>4. CASE StartJobAck(n, ok, shorter)
      BY <1>0, <3>4 DEF StartJobAck
    <3> QED
      BY <1>1, <3>1, <3>2, <3>3, <3>4
  <2> DEFINE t == Taken(n, r)
  <2>2. Tame(job, t) /\ t.status = job.status /\ t \in JobType /\ n \in IoNodes /\ Connected(n)
    BY <2>1, TameTaken, KeepsTaken, Zenon DEF Answers
  <2>3. PICK k \in {SetFlag(t, {n}, f), Failure(t, n, "job_failed_to_start"),
                    StartFailure(t, n)} : Handled(Transition(k, shorter))
    BY <2>1
  <2> HIDE DEF t
  <2>4. Tame(t, k) /\ k.status = t.status
    BY <1>0, <2>2, TameReport, TameStartFailure
  <2>5. Tame(job, k)
    BY <2>2, <2>4, TameTrans
  <2> QED
    BY <2>2, <2>3, <2>4, <2>5, MessageEnd
<1>2. CASE CleanupJobAck(n, ok, epilog, shorter)
  <2> DEFINE t == Taken(n, "CleanupJob")
             e == IF epilog \/ t.error # "none" THEN t ELSE SetError(t, "job_failed_to_cleanup")
             c == IF ok THEN e ELSE Failure(e, n, "job_failed_to_cleanup")
             k == SetFlag(c, {n}, "ended")
  <2>1. Handled(Transition(k, shorter)) /\ Answers(n, "CleanupJob")
    BY <1>2 DEF CleanupJobAck
  <2>2. Tame(job, t) /\ t.status = job.status /\ t \in JobType /\ n \in IoNodes /\ Connected(n)
    BY <1>0, <2>1, TameTaken, KeepsTaken, Zenon DEF Answers
  <2> HIDE DEF t
  <2>3. Tame(job, e) /\ e.status = job.status
    <3>1. Tame(t, SetError(t, "job_failed_to_cleanup"))
          /\ SetError(t, "job_failed_to_cleanup").status = t.status
      BY <1>0, <2>2, TameReport, Zenon
    <3> QED
      BY <2>2, <3>1, TameTrans
  <2>4. e \in JobType
    BY <2>3, Zenon DEF Tame, Keeps
  <2> HIDE DEF e
  <2>5. Tame(job, c) /\ c.status = job.status
    <3>0. /\ "job_failed_to_cleanup" \in Error \ {"none"}
          /\ "ended" \in (Requested \cup Reported) \ {"Cleanup"}
      BY <1>0
    <3>1. Tame(e, Failure(e, n, "job_failed_to_cleanup"))
          /\ Failure(e, n, "job_failed_to_cleanup").status = e.status
      BY <2>2, <2>4, <3>0, TameReport, Zenon
    <3> QED
      BY <2>3, <3>1, TameTrans
  <2>6. c \in JobType
    BY <2>5, Zenon DEF Tame, Keeps
  <2> HIDE DEF c
  <2>7. Tame(c, k) /\ k.status = c.status
    BY <1>0, <2>2, <2>6, TameReport
  <2>8. Tame(job, k)
    BY <2>5, <2>7, TameTrans
  <2> HIDE DEF k
  <2> QED
    BY <2>1, <2>2, <2>5, <2>7, <2>8, MessageEnd
<1> QED
  BY <1>1, <1>2

\* What the ranks report
LEMMA RanksEnd ==
    ASSUME JobInv, OrphanInv, EndInv, NEW n, NEW shorter, Ranks(n, shorter)
    PROVE  EndInv'
<1>0. /\ job \in JobType /\ TypeOK
      /\ \A f \in {"exited", "drained"} : f \in (Requested \cup Reported) \ {"Cleanup"}
      /\ "io_node_failure" \in Error \ {"none"}
  BY DEF JobInv, TypeOK, Reported, Error
<1>1. Connected(n) /\ n \in IoNodes
  BY <1>0 DEF Ranks, ExitJob, ExitProcess, CloseStdio, Connected, JobType
<1>2. PICK k : /\ Handled(Transition(k, shorter)) /\ Tame(job, k)
               /\ k.status = "ControlStarting" => job.status = "ControlStarting"
  <2>1. CASE ExitJob(n, shorter)
    BY <1>0, <1>1, <2>1, TameReport DEF ExitJob
  <2>2. CASE CloseStdio(n, shorter)
    BY <1>0, <1>1, <2>2, TameReport DEF CloseStdio
  <2>3. ASSUME NEW how \in {"exit0", "exit1", "signal"}, ExitProcess(n, how, shorter)
        PROVE  \E k : /\ Handled(Transition(k, shorter)) /\ Tame(job, k)
                      /\ k.status = "ControlStarting" => job.status = "ControlStarting"
    <3>1. PICK k \in {job, Signal(job, "TERM", shorter), Signal(job, "KILL", shorter)} :
             Handled(Transition(k, shorter))
      BY <2>3 DEF ExitProcess
    <3>2. Tame(job, job)
      BY <1>0 DEF Tame, Keeps
    <3>3. ASSUME NEW sig \in {"TERM", "KILL"}
          PROVE  LET s == Signal(job, sig, shorter)
                 IN  Tame(job, s) /\ s.status \in {job.status, "Cleanup"}
      BY <1>0, TameSignal, CalmSignal, SMTT(30) DEF Calm
    <3> QED
      BY <3>1, <3>2, <3>3
  <2> QED
    BY <2>1, <2>2, <2>3 DEF Ranks
<1> QED
  BY <1>1, <1>2, MessageEnd

\* The acknowledgement of a signal: the last one settles the outstanding signal.
LEMMA SignalAckEnd ==
    ASSUME JobInv, OrphanInv, EndInv, NEW n, NEW shorter, SignalJobAck(n, shorter)
    PROVE  EndInv'
<1> DEFINE t == Taken(n, "SignalJob")
           u == [t EXCEPT !.node[n] = @ \ {"signalInFlight"}]
           a == [u EXCEPT !.outstanding = "none"]
           l == SignalAcked(u, shorter)
<1>1. Handled(l) /\ Answers(n, "SignalJob") /\ "SignalJob" \in Request
  BY DEF SignalJobAck, Request
<1>2. /\ Tame(job, t) /\ t.status = job.status /\ t \in JobType /\ n \in IoNodes
      /\ n \in job.io /\ link[n] = "up" /\ inJobs /\ TypeOK /\ job \in JobType
  BY <1>1, TameTaken, KeepsTaken DEF Answers, Connected, JobInv, TypeOK
<1>3. /\ \A m \in IoNodes, q \in Request \ {"SignalJob"} : t.pending[m][q] = job.pending[m][q]
      /\ t.node = job.node
  <2> DEFINE p == [job.pending EXCEPT ![n]["SignalJob"] = @ - 1]
  <2>1. t = [job EXCEPT !.pending = p]
    BY <1>2 DEF Taken, JobType
  <2>2. \A m \in IoNodes, q \in Request \ {"SignalJob"} : p[m][q] = job.pending[m][q]
    BY <1>2 DEF JobType
  <2> HIDE DEF p
  <2>3. t.pending = p /\ t.node = job.node
    BY <1>2, <2>1 DEF JobType
  <2> QED
    BY <2>2, <2>3
<1> HIDE DEF t
<1>4. /\ u \in JobType /\ u.status = t.status /\ u.io = t.io /\ u.outstanding = t.outstanding
      /\ u.canStart = t.canStart /\ u.error = t.error /\ u.timer = t.timer
      /\ u.remove = t.remove /\ u.attached = t.attached /\ u.pending = t.pending
      /\ u.disconnected = t.disconnected
      /\ \A m \in IoNodes, f \in (Requested \cup Reported) \ {"signalInFlight"} :
            f \in u.node[m] <=> f \in t.node[m]
  <2> DEFINE w == [t.node EXCEPT ![n] = @ \ {"signalInFlight"}]
  <2>1. t.node \in [IoNodes -> SUBSET (Requested \cup Reported)]
    BY <1>2 DEF JobType
  <2>2. w \in [IoNodes -> SUBSET (Requested \cup Reported)]
    BY <2>1, Zenon
  <2>3. \A m \in IoNodes, f \in (Requested \cup Reported) \ {"signalInFlight"} :
           f \in w[m] <=> f \in t.node[m]
    BY <2>1
  <2>4. u = [t EXCEPT !.node = w]
    BY <1>2 DEF JobType
  <2> HIDE DEF w, u
  <2> QED
    BY <1>2, <2>2, <2>3, <2>4, Zenon DEF JobType
<1> HIDE DEF u
<1>5. \A m \in IoNodes, f \in Reported \ {"signalInFlight"} : f \in u.node[m] <=> f \in t.node[m]
  BY <1>4
<1>6. /\ a \in JobType /\ a.status = u.status /\ a.io = u.io /\ a.outstanding = "none"
      /\ a.canStart = u.canStart /\ a.error = u.error /\ a.timer = u.timer
      /\ a.remove = u.remove /\ a.attached = u.attached /\ a.pending = u.pending
      /\ a.disconnected = u.disconnected /\ a.node = u.node
  BY <1>4 DEF JobType
<1>7. l = IF \E m \in u.io : "signalInFlight" \in u.node[m] THEN u
          ELSE IF u.outstanding \in {"none", "TERM"} /\ u.timer # "unset"
          THEN Signal(a, "KILL", shorter) ELSE a
  BY DEF SignalAcked
<1> HIDE DEF a, l
<1>8. ASSUME NEW k \in {u, a}, (\E m \in u.io : "signalInFlight" \in u.node[m]) \/ k = a
      PROVE  Tame(t, k)
  <2>1. Keeps(t, k)
    <3>1. "Cleanup" \in (Requested \cup Reported) \ {"signalInFlight"}
      BY DEF Requested
    <3> QED
      BY <1>4, <1>6, <3>1 DEF Keeps
  <2>2. /\ k.status = t.status /\ k.canStart = t.canStart /\ k.attached = t.attached
        /\ k.outstanding \in {t.outstanding, "none"} /\ k.error = t.error
        /\ k.node = u.node /\ k.io = u.io
    BY <1>4, <1>6
  <2>3. StartedOnce(t) => StartedOnce(k)
    BY <2>2 DEF StartedOnce
  <2>4. Answered(k)
    BY <1>6, <1>8, <2>2 DEF Answered
  <2>5. (EndedInv(t) => EndedInv(k)) /\ (Untouched(t) => Untouched(k))
    <3>1. "Cleanup" \in (Requested \cup Reported) \ {"signalInFlight"}
      BY DEF Requested
    <3> QED
      BY <1>4, <2>2, <3>1 DEF EndedInv, Untouched
  <2>6. (Starting(k) => Starting(t)) /\ (Active(k) => Active(t))
    BY <2>2 DEF Starting, Active
  <2> QED
    BY <2>1, <2>2, <2>3, <2>4, <2>5, <2>6, ZenonT(30) DEF Tame
<1>9. ASSUME NEW k \in {u, a}
      PROVE  Noticed(job) => Noticed(k)
  <2>1. k.node = u.node /\ k.status = job.status /\ k.io = job.io /\ k.timer = t.timer
        /\ k.remove = t.remove /\ k.pending = t.pending
    BY <1>2, <1>4, <1>6, Zenon DEF Tame, Keeps
  <2>2. Ready(k) => Ready(job)
    <3>1. \A m \in job.io : Done(k, m) => Done(job, m)
      <4> SUFFICES ASSUME NEW m \in job.io, Done(k, m) PROVE Done(job, m)
        OBVIOUS
      <4>1. job.io \subseteq IoNodes
        BY <1>2 DEF JobType
      <4>2. \A i \in job.io, f \in {"setup", "loaded", "output_started", "drained", "exited",
                                     "ended", "error", "Running"} :
               f \in k.node[i] <=> f \in job.node[i]
        <5>1. \A f \in {"setup", "loaded", "output_started", "drained", "exited",
                        "ended", "error", "Running"} :
                 f \in (Requested \cup Reported) \ {"signalInFlight"}
          BY DEF Requested, Reported
        <5>2. \A i \in IoNodes, f \in (Requested \cup Reported) \ {"signalInFlight"} :
                 f \in k.node[i] <=> f \in job.node[i]
          BY <1>3, <1>4, <2>1
        <5> QED
          BY <4>1, <5>1, <5>2
      <4> QED
        BY <2>1, <4>2 DEF Done
    <3> QED
      BY <2>1, <3>1 DEF Ready
  <2>3. (job.remove => k.remove) /\ (job.timer # "unset" => k.timer # "unset")
    BY <1>2, <2>1 DEF Tame, Keeps
  <2>4. \A m \in job.io, q \in Request \ {"SignalJob"} : k.pending[m][q] = job.pending[m][q]
    BY <1>2, <1>3, <2>1 DEF JobType
  <2> QED
    BY <2>1, <2>2, <2>3, <2>4 DEF Noticed
<1>10. Tame(job, l) /\ (Noticed(job) => Noticed(l))
  <2>1. CASE \E m \in u.io : "signalInFlight" \in u.node[m]
    BY <1>2, <1>7, <1>8, <1>9, <2>1, TameTrans
  <2>2. CASE ~\E m \in u.io : "signalInFlight" \in u.node[m]
    <3>1. Tame(job, a) /\ (Noticed(job) => Noticed(a))
      BY <1>2, <1>8, <1>9, TameTrans
    <3>2. CASE l = a
      BY <3>1, <3>2
    <3>3. CASE l = Signal(a, "KILL", shorter)
      <4>1. a.status \in {"ClientStarting", "Debug"} => \E m \in a.io : link[m] # "down"
        BY <1>2, <1>4, <1>6, Zenon DEF Tame, Keeps
      <4>2. Tame(a, l) /\ Noticed(l)
        BY <1>2, <1>6, <3>3, <4>1, TameSignal
      <4> QED
        BY <3>1, <4>2, TameTrans
    <3> QED
      BY <1>7, <2>2, <3>2, <3>3
  <2> QED
    BY <2>1, <2>2
<1>11. Noticed(job) \/ KillPosted
  BY <1>2 DEF EndInv, StallInv, KillPosted
<1> QED
  BY <1>1, <1>10, <1>11, HandledEnd DEF Handled

\* An error, and the removal that follows it
LEMMA TameFailed ==
    ASSUME NEW j \in JobType, NEW e \in Error \ {"none"}
    PROVE  LET k == Remove(SetError(j, e))
           IN  Tame(j, k) /\ Answered(k) /\ Noticed(k) /\ k.error # "none"
<1> DEFINE s == SetError(j, e)
<1>1. Mild(j, s) /\ NoCleanup(j, s) /\ s.status = j.status /\ s.error # "none"
  BY MildSetError
<1>2. s \in JobType
  BY <1>1 DEF Mild, Keeps
<1>3. Tame(j, s)
  BY <1>1, MildTame DEF Moves
<1> HIDE DEF s
<1>4. Tame(s, Remove(s)) /\ Answered(Remove(s)) /\ Noticed(Remove(s))
  BY <1>2, TameRemove
<1>5. Remove(s).error # "none"
  BY <1>1, <1>4 DEF Tame
<1>6. Tame(j, Remove(s))
  BY <1>3, <1>4, TameTrans
<1> QED
  BY <1>4, <1>5, <1>6 DEF s

\* CheckIoLinks, or the client, lets the job go on.
LEMMA BeginEnd ==
    ASSUME JobInv, EndInv, NEW k, JobStep(k), Keeps(job, k), k.attached = job.attached,
           StartedOnce(k), EndedInv(k), inJobs => Answered(k) /\ Noticed(k),
           check = "ok" \/ job.canStart, check' = "done"
    PROVE  EndInv'
<1>1. job' = k /\ UNCHANGED <<mux, clients, inJobs, link, posted>>
  BY DEF JobStep
<1>2. OutstandingInv'
  <2>1. OutstandingAnswered'
    BY <1>1 DEF OutstandingAnswered, Answered
  <2>2. StartedOnce(job)'
    BY <1>1 DEF StartedOnce
  <2> QED
    BY <2>1, <2>2 DEF OutstandingInv
<1>3. inJobs => ClientInv'
  BY <1>1 DEF EndInv, StallInv, ClientInv, Keeps
<1>4. inJobs => IoInv'
  BY <1>1 DEF EndInv, StallInv, IoInv, Keeps
<1>5. inJobs => Noticed(job)'
  BY <1>1, Zenon DEF Noticed
<1>6. EndedInv(job)'
  BY <1>1 DEF EndedInv
<1> QED
  BY <1>1, <1>2, <1>3, <1>4, <1>5, <1>6 DEF EndInv, StallInv

\* CheckIoLinks and Setup::create
LEMMA CheckEnd ==
    ASSUME JobInv, EndInv,
           \/ LinkNotConnected \/ LinksWithoutMux \/ LastLinkConnected
           \/ ClientUpdate \/ ClientUpdateFailed \/ SetupCreate
    PROVE  EndInv'
<1>0. /\ job \in JobType /\ TypeOK /\ "job_failed_to_start" \in Error \ {"none"}
      /\ Like(job, job) /\ Tame(job, job) /\ (inJobs => Noticed(job) \/ KillPosted)
  BY Zenon DEF JobInv, TypeOK, Error, Like, Tame, Keeps, EndInv, StallInv, KillPosted
<1>1. CASE LinkNotConnected \/ ClientUpdateFailed
  <2> DEFINE k == Remove(SetError(job, "job_failed_to_start"))
  <2>1. JobStep(k) /\ check' = "done"
    BY <1>1 DEF LinkNotConnected, ClientUpdateFailed
  <2>2. Tame(job, k) /\ Noticed(k)
    BY <1>0, TameFailed
  <2> HIDE DEF k
  <2> QED
    BY <2>1, <2>2, HandledEnd
<1>2. CASE LinksWithoutMux
  BY <1>0, <1>2, HandledEnd DEF LinksWithoutMux
<1>3. CASE LastLinkConnected
  <2>1. /\ check = "links" /\ job.attached /\ \A n \in job.io : link[n] # "down"
        /\ UNCHANGED <<job, link, mux, clients, posted, inJobs>>
        /\ check' = IF clients = "none" THEN "failed" ELSE "update"
    BY <1>3 DEF LastLinkConnected, JobStep
  <2>2. OutstandingInv'
    BY <2>1 DEF EndInv, OutstandingInv, OutstandingAnswered, StartedOnce, Untouched
  <2>3. inJobs => ClientInv'
    BY <2>1 DEF EndInv, StallInv, ClientInv
  <2>4. inJobs => IoInv'
    BY <2>1 DEF EndInv, StallInv, IoInv
  <2>5. EndedInv(job)' /\ (inJobs => Noticed(job)' \/ KillPosted')
    BY <1>0, <2>1 DEF EndInv, StallInv, EndedInv, KillPosted, Noticed, Ready, Done
  <2> QED
    BY <2>1, <2>2, <2>3, <2>4, <2>5 DEF EndInv, StallInv, KillPosted
<1>4. CASE ClientUpdate
  <2>1. /\ check = "update" /\ UNCHANGED <<job, link, mux, posted, inJobs>>
        /\ check' = IF clients = "none" THEN "failed" ELSE "ok"
        /\ clients' = IF clients = "none" THEN "none" ELSE "job"
    BY <1>4 DEF ClientUpdate
  <2>2. OutstandingInv'
    BY <2>1 DEF EndInv, OutstandingInv, OutstandingAnswered, StartedOnce, Untouched
  <2>3. inJobs => ClientInv'
    BY <2>1 DEF EndInv, StallInv, ClientInv
  <2>4. inJobs => IoInv'
    BY <2>1 DEF EndInv, StallInv, IoInv
  <2>5. EndedInv(job)' /\ (inJobs => Noticed(job)' \/ KillPosted')
    BY <1>0, <2>1 DEF EndInv, StallInv, EndedInv, KillPosted, Noticed, Ready, Done
  <2> QED
    BY <2>1, <2>2, <2>3, <2>4, <2>5 DEF EndInv, StallInv, KillPosted
<1>5. CASE SetupCreate
  <2> DEFINE s == SetStatus(job, "Setup")
             w == Write(s, job.io, "SetupJob")
             r == Remove(SetError(s, "job_failed_to_start"))
  <2>1. /\ check = "ok" /\ check' = "done" /\ (JobStep(w) \/ JobStep(r))
        /\ Untouched(job)
    BY <1>5 DEF SetupCreate, EndInv, OutstandingInv
  <2>2. Mild(job, s) /\ NoCleanup(job, s) /\ s.status = "Setup"
    BY <1>0, MildSetStatus DEF Status
  <2>3. s \in JobType /\ job.io \in SUBSET IoNodes /\ "SetupJob" \in Request \ {"SignalJob"}
    BY <1>0, <2>2 DEF Mild, Keeps, JobType, Request
  <2>4. StartedOnce(s) /\ EndedInv(s)
    BY <2>1, <2>2 DEF StartedOnce, EndedInv, Untouched, Mild, NoCleanup
  <2>5. ASSUME JobStep(r) PROVE EndInv'
    <3> HIDE DEF s
    <3>1. Tame(s, r) /\ Answered(r) /\ Noticed(r)
      BY <1>0, <2>3, TameFailed
    <3> HIDE DEF r
    <3>2. Keeps(job, r) /\ r.attached = job.attached /\ StartedOnce(r) /\ EndedInv(r)
      BY <2>2, <2>4, <3>1, KeepsTrans, Zenon DEF Mild, Tame
    <3> QED
      BY <2>1, <2>5, <3>1, <3>2, BeginEnd, Zenon
  <2>6. ASSUME JobStep(w) PROVE EndInv'
    <3> HIDE DEF s
    <3>1. /\ Mild(s, w) /\ NoCleanup(s, w) /\ w.status = "Setup" /\ w.error = s.error
          /\ \A n \in job.io : link[n] = "up" => w.pending[n]["SetupJob"] > 0
      BY <2>2, <2>3, MildWrite, Zenon
    <3> HIDE DEF w
    <3>2. Mild(job, w) /\ NoCleanup(job, w)
      BY <2>2, <3>1, MildTrans DEF NoCleanup
    <3>3. /\ Keeps(job, w) /\ w.attached = job.attached /\ w.outstanding = "none"
          /\ ~w.canStart /\ w \in JobType /\ w.io = job.io
      BY <2>1, <3>2 DEF Mild, Keeps, Untouched
    <3>4. StartedOnce(w) /\ Answered(w)
      BY <3>1, <3>3 DEF StartedOnce, Answered
    <3>5. EndedInv(w)
      BY <2>1, <3>2 DEF EndedInv, Untouched, Mild, NoCleanup
    <3>6. inJobs => Noticed(w)
      <4>1. CASE w.remove
        BY <4>1 DEF Noticed
      <4>2. CASE inJobs /\ ~w.remove
        <5>1. ~job.remove
          BY <3>3, <4>2 DEF Keeps
        <5>2. PICK n \in job.io : link[n] # "down"
          BY <2>1, <4>2, <5>1 DEF EndInv, StallInv, IoInv
        <5> QED
          BY <1>0, <2>3, <3>1, <3>3, <5>2, NoticedWritten
      <4> QED
        BY <4>1, <4>2
    <3> QED
      BY <2>1, <2>6, <3>3, <3>4, <3>5, <3>6, BeginEnd, Zenon
  <2> QED
    BY <2>1, <2>5, <2>6
<1> QED
  BY <1>1, <1>2, <1>3, <1>4, <1>5

\* The client's start request and a tool that starts the job in the debugger
LEMMA StartEnd ==
    ASSUME JobInv, EndInv, StartJob \/ Debug \/ DebugFailed
    PROVE  EndInv'
<1>0. job \in JobType /\ TypeOK
  BY DEF JobInv, TypeOK
<1>1. ASSUME inJobs, job.canStart \/ job.status \in {"ClientStarting", "Debug"}
      PROVE  job.remove \/ \E n \in job.io : link[n] # "down"
  BY <1>1 DEF EndInv, StallInv, IoInv
<1>2. CASE StartJob
  <2> DEFINE c == [job EXCEPT !.canStart = FALSE]
             s == SetStatus(c, "OutputStarting")
             w == Write(s, c.io, "StartStdio")
  <2>1. /\ inJobs /\ job.canStart /\ check' = check /\ JobStep(w)
    BY <1>2 DEF StartJob, Handled, StartOutput
  <2>2. check = "done" /\ job.outstanding = "none"
    BY <2>1 DEF JobInv, CheckInv, EndInv, OutstandingInv, StartedOnce
  <2>3. /\ c \in JobType /\ Keeps(job, c) /\ c.attached = job.attached /\ c.error = job.error
        /\ c.node = job.node /\ ~c.canStart /\ c.outstanding = "none" /\ c.io = job.io
    BY <1>0, <2>2, Zenon DEF Keeps, JobType
  <2> HIDE DEF c
  <2>4. Mild(c, s) /\ NoCleanup(c, s) /\ s.status = "OutputStarting"
    BY <2>3, MildSetStatus DEF Status
  <2>5. s \in JobType /\ c.io \in SUBSET IoNodes /\ "StartStdio" \in Request \ {"SignalJob"}
    BY <2>3, <2>4, Zenon DEF Mild, Keeps, JobType, Request
  <2> HIDE DEF s
  <2>6. /\ Mild(s, w) /\ NoCleanup(s, w) /\ w.status = "OutputStarting"
        /\ \A n \in c.io : link[n] = "up" => w.pending[n]["StartStdio"] > 0
    BY <2>4, <2>5, MildWrite, Zenon
  <2> HIDE DEF w
  <2>7. Mild(c, w) /\ NoCleanup(c, w)
    BY <2>4, <2>6, MildTrans DEF NoCleanup
  <2>8. /\ Keeps(job, w) /\ w.attached = job.attached /\ w.outstanding = "none"
        /\ ~w.canStart /\ w \in JobType /\ w.io = job.io /\ (job.remove => w.remove)
    BY <2>3, <2>7, KeepsTrans DEF Mild, Keeps
  <2>9. StartedOnce(w) /\ Answered(w)
    BY <2>6, <2>8 DEF StartedOnce, Answered
  <2>10. EndedInv(w)
    BY <2>1, <2>3, <2>7 DEF EndInv, StallInv, EndedInv, Mild, NoCleanup
  <2>11. Noticed(w)
    <3>1. ASSUME NEW n \in job.io, link[n] # "down" PROVE Noticed(w)
      BY <1>0, <2>3, <2>5, <2>6, <2>8, <3>1, NoticedWritten, ZenonT(30)
    <3>2. CASE w.remove
      BY <3>2 DEF Noticed
    <3> QED
      BY <1>1, <2>1, <2>8, <3>1, <3>2
  <2> QED
    BY <2>1, <2>2, <2>8, <2>9, <2>10, <2>11, BeginEnd
<1>3. CASE Debug
  <2> DEFINE d == SetStatus(job, "Debug")
  <2>1. inJobs /\ job.status = "ClientStarting" /\ JobStep(d) /\ check' = check
    BY <1>3 DEF Debug, Handled
  <2>2. Mild(job, d) /\ NoCleanup(job, d) /\ d.status = "Debug"
    BY <1>0, MildSetStatus DEF Status
  <2> HIDE DEF d
  <2>3. Tame(job, d)
    BY <1>0, <2>1, <2>2, MildTame DEF Moves
  <2>4. Noticed(d)
    <3>1. d.remove \/ \E n \in d.io : TRUE
      BY <1>1, <2>1, <2>2 DEF Mild, Keeps
    <3>2. \A n \in d.io : ~Done(d, n)
      BY <2>2 DEF Done
    <3> QED
      BY <3>1, <3>2 DEF Noticed, Ready
  <2> QED
    BY <2>1, <2>3, <2>4, HandledEnd
<1>4. CASE DebugFailed
  <2> DEFINE e == SetError(job, "job_failed_to_start")
  <2>1. job.status = "Debug" /\ JobStep(End(e)) /\ check' = check
    BY <1>4 DEF DebugFailed, Handled
  <2>2. Mild(job, e) /\ NoCleanup(job, e) /\ e.status = job.status /\ e.error # "none"
    BY <1>0, MildSetError DEF Error
  <2>3. e \in JobType /\ Tame(job, e) /\ e.io = job.io
    BY <1>0, <2>2, MildTame, Zenon DEF Mild, Keeps, Moves
  <2> HIDE DEF e
  <2>4. /\ Mild(e, End(e)) /\ Tame(e, End(e))
        /\ \A n \in e.io : link[n] = "up" => End(e).pending[n]["CleanupJob"] > 0
    BY <2>1, <2>2, <2>3, TameEnd, Zenon
  <2>5. Tame(job, End(e)) /\ End(e) \in JobType /\ End(e).io = job.io
    BY <2>3, <2>4, TameTrans DEF Mild, Keeps
  <2>6. inJobs => Noticed(End(e))
    <3>1. ASSUME NEW n \in job.io, link[n] # "down" PROVE Noticed(End(e))
      BY <1>0, <2>3, <2>4, <2>5, <3>1, NoticedWritten DEF Request
    <3>2. CASE job.remove
      BY <2>5, <3>2, Zenon DEF Noticed, Tame, Keeps
    <3> QED
      BY <1>1, <2>1, <3>1, <3>2
  <2> QED
    BY <2>1, <2>5, <2>6, HandledEnd
<1> QED
  BY <1>2, <1>3, <1>4

\* Signals are posted: by kill_job, the client, or the end of the block.
LEMMA PostsEnd ==
    ASSUME JobInv, EndInv,
           \/ \E sig \in Signals : KillJob(sig)
           \/ ClientKill("TERM", FALSE) \/ ClientKill("KILL", TRUE) \/ BlockEof
    PROVE  EndInv'
<1>0. /\ job \in JobType /\ Like(job, job) /\ Tame(job, job)
      /\ inJobs => Noticed(job) \/ KillPosted
  BY Zenon DEF JobInv, TypeOK, Like, Tame, Keeps, EndInv, StallInv, KillPosted
<1>1. CASE BlockEof
  <2>1. /\ job' = SetError(job, "block_invalid") /\ UNCHANGED <<link, mux, clients, check, inJobs>>
        /\ posted' = posted \cup {[sig |-> "KILL", disconnected |-> FALSE]}
    BY <1>1 DEF BlockEof, Post
  <2>2. Mild(job, job') /\ NoCleanup(job, job') /\ job'.status = job.status
    BY <1>0, <2>1, MildSetError DEF Error
  <2>3. Tame(job, job')
    BY <1>0, <2>2, MildTame DEF Moves
  <2>4. KillPosted'
    <3>1. [sig |-> "KILL", disconnected |-> FALSE] \in posted'
      BY <2>1
    <3> QED
      BY <3>1 DEF KillPosted
  <2> QED
    BY <1>0, <2>1, <2>3, <2>4, StepEnd
<1>2. CASE /\ UNCHANGED <<job, link, mux, clients, check, inJobs>>
           /\ posted \subseteq posted'
  <2>1. inJobs => Noticed(job') \/ KillPosted'
    BY <1>0, <1>2 DEF KillPosted
  <2> QED
    BY <1>0, <1>2, <2>1, StepEnd
<1>3. CASE /\ clients = "placeholder" /\ clients' = "none"
           /\ UNCHANGED <<job, link, mux, check, posted, inJobs>>
  <2>1. OutstandingInv'
    BY <1>3 DEF EndInv, OutstandingInv, OutstandingAnswered, StartedOnce, Untouched
  <2>2. inJobs => ClientInv' /\ IoInv'
    BY <1>3 DEF EndInv, StallInv, ClientInv, IoInv
  <2>3. EndedInv(job)' /\ (inJobs => Noticed(job)' \/ KillPosted')
    BY <1>0, <1>3 DEF EndInv, StallInv, EndedInv, KillPosted, Noticed, Ready, Done
  <2> QED
    BY <1>3, <2>1, <2>2, <2>3 DEF EndInv, StallInv, KillPosted
<1>4. BlockEof \/ (\E sig \in Signals : KillJob(sig)) \/ \E sig, d : ClientKill(sig, d)
  BY Zenon
<1> QED
  BY <1>1, <1>2, <1>3, <1>4, ZenonT(30) DEF KillJob, ClientKill, Post

\* A posted signal runs: before a KILL is forgotten the job is noticed.
LEMMA RunSignalEnd ==
    ASSUME JobInv, EndInv, NEW s \in posted, NEW shorter, RunSignal(s, shorter)
    PROVE  EndInv'
<1> DEFINE d == job.disconnected \/ s.disconnected
           j == [job EXCEPT !.disconnected = d]
           k == Signal(j, s.sig, shorter)
<1>0. /\ job \in JobType /\ TypeOK
      /\ s \in [sig : {"TERM", "KILL", "HWFAIL"}, disconnected : BOOLEAN]
  BY DEF JobInv, TypeOK
<1>1. s.sig \in {"TERM", "KILL", "HWFAIL"} /\ d \in BOOLEAN /\ (job.disconnected => d)
  BY <1>0 DEF JobType
<1>2. /\ job' = k /\ posted' = posted \ {s}
      /\ UNCHANGED <<link, mux, clients, check, inJobs>>
  BY DEF RunSignal
<1> HIDE DEF d
<1>3. Like(job, j) /\ j.pending = job.pending
  BY <1>0, <1>1 DEF JobType, Like
<1>4. j \in JobType /\ j.io = job.io /\ j.status = job.status /\ j.remove = job.remove
  BY <1>3 DEF Like
<1> HIDE DEF j
<1>5. /\ Tame(j, k)
      /\ /\ s.sig = "KILL" \/ Noticed(j)
         /\ j.status \in {"ClientStarting", "Debug"} =>
               j.remove \/ \E n \in j.io : link[n] # "down"
         => Noticed(k)
  BY <1>0, <1>1, <1>4, TameSignal, ZenonT(30)
<1> HIDE DEF k
<1>6. Noticed(job) => Noticed(j)
  BY <1>3, ZenonT(30) DEF Like, Noticed, Ready, Done
<1>7. inJobs => Noticed(job') \/ KillPosted'
  <2> SUFFICES ASSUME inJobs PROVE Noticed(k) \/ KillPosted'
    BY <1>2
  <2>1. j.status \in {"ClientStarting", "Debug"} =>
           j.remove \/ \E n \in j.io : link[n] # "down"
    BY <1>4 DEF EndInv, StallInv, IoInv
  <2>2. CASE s.sig = "KILL" \/ Noticed(job)
    BY <1>5, <1>6, <2>1, <2>2
  <2>3. CASE s.sig # "KILL" /\ ~Noticed(job)
    BY <1>2, <2>3 DEF EndInv, StallInv, KillPosted
  <2> QED
    BY <2>2, <2>3
<1> QED
  BY <1>2, <1>3, <1>5, <1>7, StepEnd, Zenon

\* The mux connection ends, is destroyed, and comes back.
LEMMA MuxEnd ==
    ASSUME JobInv, EndInv, MuxEof \/ MuxGone \/ MuxReconnect \/ SetConnection
    PROVE  EndInv'
<1> DEFINE Same == /\ job'.io = job.io /\ job'.status = job.status /\ job'.node = job.node
                   /\ job'.canStart = job.canStart /\ job'.outstanding = job.outstanding
                   /\ job'.error = job.error /\ job'.timer = job.timer
                   /\ job'.pending = job.pending /\ (job.remove => job'.remove)
                   /\ UNCHANGED <<link, inJobs>> /\ posted \subseteq posted'
                   /\ check' # "done" => check # "done"
<1>0. job \in JobType
  BY DEF JobInv, TypeOK
<1>1. ASSUME Same, inJobs => ClientInv' /\ IoInv'
      PROVE  EndInv'
  <2>1. OutstandingInv'
    <3>1. OutstandingAnswered'
      BY <1>1, ZenonT(30) DEF EndInv, OutstandingInv, OutstandingAnswered
    <3>2. StartedOnce(job)' /\ (check' # "done" => Untouched(job)')
      BY <1>1 DEF EndInv, OutstandingInv, StartedOnce, Untouched
    <3> QED
      BY <3>1, <3>2 DEF OutstandingInv
  <2>2. EndedInv(job)'
    BY <1>1 DEF EndInv, StallInv, EndedInv
  <2>3. Noticed(job) => Noticed(job)'
    BY <1>1 DEF Noticed, Ready, Done
  <2>4. inJobs => Noticed(job)' \/ KillPosted'
    BY <1>1, <2>3 DEF EndInv, StallInv, KillPosted
  <2> QED
    BY <1>1, <2>1, <2>2, <2>4 DEF EndInv, StallInv, KillPosted
<1>2. CASE MuxEof
  <2>1. /\ Same /\ mux = "up" /\ mux' = "closing" /\ clients' = "none"
        /\ job'.remove = job.remove /\ job'.attached = job.attached
        /\ job'.disconnected \/ (clients # "job" /\ job'.disconnected = job.disconnected)
        /\ check' = IF check = "update" THEN "failed" ELSE check
    <3>1. CASE clients = "job"
      BY <1>0, <1>2, <3>1, ZenonT(30) DEF MuxEof, JobType
    <3>2. CASE clients # "job"
      BY <1>2, <3>2 DEF MuxEof
    <3> QED
      BY <3>1, <3>2
  <2>2. inJobs => ClientInv' /\ IoInv'
    BY <2>1 DEF EndInv, StallInv, ClientInv, IoInv
  <2> QED
    BY <1>1, <2>1, <2>2
<1>3. CASE MuxGone
  <2>1. /\ Same /\ mux = "closing" /\ mux' = "down" /\ UNCHANGED <<clients, check>>
        /\ job'.remove = job.remove /\ job'.attached = FALSE
        /\ job'.disconnected = job.disconnected
    BY <1>0, <1>3 DEF MuxGone, JobType
  <2>2. inJobs => ClientInv' /\ IoInv'
    BY <2>1 DEF EndInv, StallInv, ClientInv, IoInv
  <2> QED
    BY <1>1, <2>1, <2>2
<1>4. CASE MuxReconnect
  <2>1. /\ Same /\ mux = "down" /\ mux' = "up" /\ UNCHANGED <<job, check>>
        /\ inJobs => clients' = "job"
    BY <1>4 DEF MuxReconnect
  <2>2. inJobs => ClientInv' /\ IoInv'
    BY <2>1 DEF EndInv, StallInv, ClientInv, IoInv
  <2> QED
    BY <1>1, <2>1, <2>2
<1>5. CASE SetConnection
  <2> DEFINE r == job.remove \/ job.status = "Terminating"
  <2>1. /\ job' = [job EXCEPT !.attached = TRUE, !.remove = r]
        /\ UNCHANGED <<link, mux, clients, check, posted, inJobs>>
    BY <1>5 DEF SetConnection
  <2>2. (job.remove => r) /\ (job.status = "Terminating" => r)
    OBVIOUS
  <2> HIDE DEF r
  <2>3. /\ Same /\ job'.remove = r /\ job'.attached = TRUE
        /\ job'.disconnected = job.disconnected
    BY <1>0, <2>1, <2>2, ZenonT(30) DEF JobType
  <2>4. inJobs => ClientInv' /\ IoInv'
    <3> HIDE DEF Same
    <3>1. job'.io = job.io /\ job'.status = job.status /\ job'.canStart = job.canStart
      BY <2>3 DEF Same
    <3>2. inJobs => ClientInv'
      BY <2>1, <2>3, <3>1 DEF EndInv, StallInv, ClientInv
    <3>3. inJobs => IoInv'
      BY <2>1, <2>2, <2>3, <3>1 DEF EndInv, StallInv, IoInv
    <3> QED
      BY <3>2, <3>3
  <2> QED
    BY <1>1, <2>3, <2>4
<1> QED
  BY <1>2, <1>3, <1>4, <1>5

\* A connection to an I/O node is lost.
LEMMA LinkLostEnd ==
    ASSUME JobInv, EndInv, NEW n \in IoNodes, NEW how, LinkLost(n, how)
    PROVE  EndInv'
<1>0. job \in JobType /\ link \in [IoNodes -> {"up", "eof", "gone", "down"}]
  BY DEF JobInv, TypeOK
<1> DEFINE p == [job.pending EXCEPT ![n] = [r \in Request |-> 0]]
<1>1. /\ link[n] = "up" /\ link' = [link EXCEPT ![n] = how] /\ how \in {"eof", "gone"}
      /\ job' = [job EXCEPT !.pending[n] = [r \in Request |-> 0]]
      /\ UNCHANGED <<mux, clients, check, posted, inJobs>>
  BY DEF LinkLost
<1>2. /\ job' = [job EXCEPT !.pending = p] /\ job.io \subseteq IoNodes
      /\ \A m \in IoNodes : m # n => p[m] = job.pending[m]
  BY <1>0, <1>1 DEF JobType
<1> HIDE DEF p
<1>3. /\ job'.io = job.io /\ job'.status = job.status /\ job'.node = job.node
      /\ job'.canStart = job.canStart /\ job'.outstanding = job.outstanding
      /\ job'.error = job.error /\ job'.timer = job.timer /\ job'.pending = p
      /\ job'.remove = job.remove /\ job'.attached = job.attached
      /\ job'.disconnected = job.disconnected
  BY <1>0, <1>2 DEF JobType
<1>4. /\ link'[n] = how
      /\ \A m \in IoNodes : m # n => link'[m] = link[m]
  BY <1>0, <1>1
<1>5. OutstandingInv'
  <2>1. OutstandingAnswered'
    <3>1. \A m \in job.io : link[m] = "gone" => link'[m] = "gone"
      BY <1>1, <1>2, <1>4
    <3> QED
      BY <1>1, <1>3, <3>1, ZenonT(30) DEF EndInv, OutstandingInv, OutstandingAnswered
  <2>2. StartedOnce(job)' /\ (check' # "done" => Untouched(job)')
    BY <1>1, <1>3 DEF EndInv, OutstandingInv, StartedOnce, Untouched
  <2> QED
    BY <2>1, <2>2 DEF OutstandingInv
<1>6. EndedInv(job)'
  BY <1>3 DEF EndInv, StallInv, EndedInv
<1>7. inJobs => ClientInv'
  BY <1>1, <1>3 DEF EndInv, StallInv, ClientInv
<1>8. inJobs => IoInv'
  <2>1. \A m \in job.io : link[m] # "down" => link'[m] # "down"
    BY <1>1, <1>2, <1>4
  <2> QED
    BY <1>1, <1>3, <2>1 DEF EndInv, StallInv, IoInv
<1>9. Noticed(job) => Noticed(job)'
  <2>1. CASE n \in job.io
    BY <1>1, <1>3, <1>4, <2>1, ZenonT(30) DEF Noticed
  <2>2. CASE n \notin job.io
    <3>1. \A m \in job.io : link'[m] = link[m] /\ job'.pending[m] = job.pending[m]
      BY <1>2, <1>3, <1>4, <2>2
    <3>2. Ready(job)' <=> Ready(job)
      BY <1>3, ZenonT(30) DEF Ready, Done
    <3> QED
      BY <1>3, <3>1, <3>2 DEF Noticed
  <2> QED
    BY <2>1, <2>2
<1> QED
  BY <1>1, <1>5, <1>6, <1>7, <1>8, <1>9, ZenonT(30) DEF EndInv, StallInv

\* EndOfFile::impl: the last node's end removes the job, another's is followed by a
\* KILL to the nodes that are left, whose timer makes up for the node not done.
LEMMA EndOfFileEnd ==
    ASSUME JobInv, EndInv, NEW n \in IoNodes, NEW shorter, EndOfFile(n, shorter)
    PROVE  EndInv'
<1> DEFINE i == [job EXCEPT !.io = @ \ {n}]
           e == SetError(i, "io_node_failure")
<1>0. /\ job \in JobType /\ TypeOK /\ link \in [IoNodes -> {"up", "eof", "gone", "down"}]
      /\ job.io \subseteq IoNodes
  BY DEF JobInv, TypeOK, JobType
<1>1. /\ link' = [link EXCEPT ![n] = "down"] /\ UNCHANGED <<mux, clients, check, posted, inJobs>>
      /\ job' = IF ~inJobs \/ n \notin job.io THEN job
                ELSE IF e.io = {} THEN Remove(e) ELSE Signal(e, "KILL", shorter)
  BY DEF EndOfFile
<1>2. \A m \in IoNodes : m # n => link'[m] = link[m]
  BY <1>0, <1>1
<1>3. ASSUME StartedOnce(job'), EndedInv(job'), check # "done" => Untouched(job'),
             inJobs => Answered(job') /\ ClientInv' /\ IoInv' /\ (Noticed(job') \/ KillPosted),
             inJobs => \A m \in job'.io : link'[m] = link[m]
      PROVE  EndInv'
  <2>1. OutstandingAnswered'
    BY <1>1, <1>3, Zenon DEF OutstandingAnswered, Answered
  <2>2. StartedOnce(job)' /\ EndedInv(job)' /\ (check' # "done" => Untouched(job)')
    BY <1>1, <1>3, Zenon DEF StartedOnce, EndedInv, Untouched
  <2>3. inJobs => Noticed(job)' \/ KillPosted'
    <3>1. inJobs /\ Noticed(job') => Noticed(job)'
      BY <1>3, Zenon DEF Noticed
    <3> QED
      BY <1>1, <1>3, <3>1, Zenon DEF KillPosted
  <2> QED
    BY <1>1, <1>3, <2>1, <2>2, <2>3, Zenon DEF EndInv, OutstandingInv, StallInv, KillPosted
<1>4. CASE ~inJobs \/ n \notin job.io
  <2>1. job' = job /\ (inJobs => \A m \in job.io : link'[m] = link[m])
    BY <1>0, <1>1, <1>2, <1>4
  <2>2. /\ StartedOnce(job) /\ EndedInv(job) /\ (check # "done" => Untouched(job))
        /\ inJobs => Answered(job) /\ (Noticed(job) \/ KillPosted)
    BY DEF EndInv, OutstandingInv, StallInv, OutstandingAnswered, Answered, KillPosted
  <2>3. inJobs => ClientInv' /\ IoInv'
    BY <1>1, <2>1, Zenon DEF EndInv, StallInv, ClientInv, IoInv
  <2> QED
    BY <1>3, <2>1, <2>2, <2>3
<1>5. CASE inJobs /\ n \in job.io
  <2>1. /\ i \in JobType /\ i.io = job.io \ {n} /\ i.status = job.status /\ i.node = job.node
        /\ i.canStart = job.canStart /\ i.outstanding = job.outstanding /\ i.timer = job.timer
        /\ i.remove = job.remove /\ i.attached = job.attached
        /\ i.disconnected = job.disconnected
    BY <1>0, Zenon DEF JobType
  <2> HIDE DEF i
  <2>2. Mild(i, e) /\ e.status = job.status /\ e.node = job.node /\ e.error # "none"
    BY <2>1, MildSetError, SMTT(30) DEF Error
  <2>3. /\ e \in JobType /\ e.io = job.io \ {n} /\ e.canStart = job.canStart
        /\ e.outstanding = job.outstanding /\ e.attached = job.attached
        /\ e.disconnected = job.disconnected
    BY <2>1, <2>2, Zenon DEF Mild, Keeps
  <2> HIDE DEF e
  <2>4. StartedOnce(e) /\ EndedInv(e) /\ (check # "done" => Untouched(e))
    BY <2>2, <2>3 DEF EndInv, OutstandingInv, StartedOnce, EndedInv, Untouched
  <2>5. (Starting(e) <=> Starting(job)) /\ (Active(e) <=> Active(job))
    BY <2>2, <2>3 DEF Starting, Active
  <2>6. ASSUME NEW k, Tame(e, k), job' = k, Answered(k), Noticed(k), IoInv'
        PROVE  EndInv'
    <3>1. /\ StartedOnce(k) /\ EndedInv(k) /\ (check # "done" => Untouched(k))
          /\ k.io = job.io \ {n} /\ (Starting(k) => Starting(job))
          /\ k.attached = job.attached /\ k.disconnected = job.disconnected
      BY <2>3, <2>4, <2>5, <2>6, Zenon DEF Tame, Keeps
    <3>2. ClientInv'
      BY <1>1, <1>5, <2>6, <3>1, Zenon DEF EndInv, StallInv, ClientInv, Starting
    <3>3. \A m \in k.io : link'[m] = link[m]
      BY <1>0, <1>2, <3>1
    <3> QED
      BY <1>3, <2>6, <3>1, <3>2, <3>3
  <2>7. CASE e.io = {}
    <3> DEFINE k == Remove(e)
    <3>1. job' = k
      BY <1>1, <1>5, <2>7
    <3>2. /\ Tame(e, k) /\ Answered(k) /\ Noticed(k) /\ (k.remove \/ k.status = "Terminating")
          /\ (~k.remove => ~job.attached /\ ~job.disconnected)
      BY <2>3, TameRemove, KeepsRemove
    <3> HIDE DEF k
    <3>3. IoInv'
      <4>1. /\ k.io = {} /\ k.attached = job.attached /\ (Starting(k) => Starting(job))
        BY <2>3, <2>5, <2>7, <3>2, Zenon DEF Tame, Keeps
      <4>2. ASSUME ~k.remove PROVE ~Starting(job) /\ check \notin {"update", "ok"}
        BY <1>5, <3>2, <4>2 DEF EndInv, StallInv, ClientInv, Starting
      <4>3. ~k.remove => ~k.canStart
        BY <4>1, <4>2 DEF Starting
      <4> QED
        BY <1>1, <3>1, <3>2, <4>1, <4>2, <4>3, Zenon DEF IoInv
    <3> QED
      BY <2>6, <3>1, <3>2, <3>3
  <2>8. CASE e.io # {}
    <3> DEFINE k == Signal(e, "KILL", shorter)
    <3>1. job' = k
      BY <1>1, <1>5, <2>8
    <3>2. ASSUME Active(job) \/ check \in {"update", "ok"}
          PROVE  \A m \in job.io : link[m] # "down"
      BY <1>5, <3>2 DEF EndInv, StallInv, IoInv, Active
    <3>3. e.status \in {"ClientStarting", "Debug"} => \E m \in e.io : link[m] # "down"
      BY <2>2, <2>3, <2>8, <3>2 DEF Active
    <3>4. Tame(e, k) /\ Answered(k) /\ Noticed(k)
      BY <1>0, <2>3, <2>4, <3>3, TameSignal, Zenon
    <3> HIDE DEF k
    <3>5. k.io = job.io \ {n} /\ k.io # {} /\ (Active(k) => Active(job))
      BY <2>3, <2>5, <2>8, <3>4, Zenon DEF Tame, Keeps
    <3>6. IoInv'
      <4>1. \A m \in k.io : link'[m] = link[m]
        BY <1>0, <1>2, <3>5, Zenon
      <4> QED
        BY <1>1, <3>1, <3>2, <3>5, <4>1, Zenon DEF IoInv, Active
    <3> QED
      BY <2>6, <3>1, <3>4, <3>6
  <2> QED
    BY <2>7, <2>8
<1> QED
  BY <1>4, <1>5

\* The kill timer and the heartbeat
LEMMA TimersEnd ==
    ASSUME JobInv, OrphanInv, EndInv,
           \/ KillTimerExpires \/ KillTimerHandler \/ HeartbeatHandler
           \/ \E n \in IoNodes : \E shorter : HeartbeatPulse(n, shorter)
    PROVE  EndInv'
<1>0. job \in JobType /\ TypeOK /\ "kill_timeout" \in Error \ {"none"}
  BY DEF JobInv, TypeOK, Error
<1>1. ASSUME NEW x \in JobType, Keeps(job, x), x.status = job.status, x.node = job.node,
             x.attached = job.attached, x.canStart = job.canStart, x.error = job.error,
             x.outstanding = job.outstanding
      PROVE  Tame(job, x)
  <2>1. Mild(job, x) /\ NoCleanup(job, x)
    BY <1>1, ZenonT(30) DEF Mild, NoCleanup
  <2> QED
    BY <1>0, <1>1, <2>1, MildTame DEF Moves
<1>2. CASE KillTimerExpires
  <2> DEFINE x == [job EXCEPT !.timer = "expired"]
  <2>1. JobStep(x) /\ check' = check
    BY <1>2 DEF KillTimerExpires, Handled
  <2>2. /\ x \in JobType /\ Keeps(job, x) /\ x.status = job.status /\ x.node = job.node
        /\ x.attached = job.attached /\ x.canStart = job.canStart /\ x.error = job.error
        /\ x.outstanding = job.outstanding /\ x.timer = "expired"
    BY <1>0 DEF Keeps, JobType, Timer
  <2> HIDE DEF x
  <2>3. Tame(job, x)
    BY <1>1, <2>2
  <2>4. Noticed(x)
    BY <2>2 DEF Noticed
  <2> QED
    BY <2>1, <2>3, <2>4, HandledEnd
<1>3. CASE KillTimerHandler
  <2> DEFINE x == [job EXCEPT !.timer = "done", !.unavailable = TRUE]
             r == Remove(SetError(x, "kill_timeout"))
             N == {n \in r.io : "Cleanup" \notin r.node[n]}
             w == Write(r, N, "CleanupJob")
  <2>1. JobStep(w) /\ check' = check
    BY <1>3 DEF KillTimerHandler, Handled
  <2>2. /\ x \in JobType /\ Keeps(job, x) /\ x.status = job.status /\ x.node = job.node
        /\ x.attached = job.attached /\ x.canStart = job.canStart /\ x.error = job.error
        /\ x.outstanding = job.outstanding
    BY <1>0, Zenon DEF Keeps, JobType, Timer
  <2> HIDE DEF x
  <2>3. Tame(job, x)
    BY <1>1, <2>2
  <2>4. Tame(x, r) /\ r.error # "none"
    BY <1>0, <2>2, TameFailed
  <2>5. r.remove \/ r.status = "Terminating"
    <3>1. SetError(x, "kill_timeout") \in JobType
      BY <1>0, <2>2, SetErrorFacts
    <3> QED
      BY <3>1, KeepsRemove
  <2>6. r \in JobType /\ N \in SUBSET IoNodes
    BY <2>4, ZenonT(30) DEF Tame, Keeps, JobType
  <2> HIDE DEF r, N
  <2>7. Mild(r, w) /\ w.status = r.status /\ w.error = r.error
    BY <2>6, MildWrite, Zenon DEF Request
  <2> HIDE DEF w
  <2>8. Tame(r, w)
    BY <2>4, <2>6, <2>7, MildTame DEF Moves
  <2>9. Tame(job, w)
    BY <2>3, <2>4, <2>8, TameTrans
  <2>10. Noticed(w)
    BY <2>5, <2>7 DEF Noticed, Mild, Keeps
  <2> QED
    BY <2>1, <2>9, <2>10, HandledEnd
<1>4. /\ Tame(job, HeartbeatTimeout) /\ Noticed(HeartbeatTimeout)
      /\ HeartbeatTimeout.status \in {job.status, "Terminating"}
  <2> DEFINE x == [job EXCEPT !.unavailable = TRUE]
             s == SetError(x, "kill_timeout")
  <2>1. /\ x \in JobType /\ Keeps(job, x) /\ x.status = job.status /\ x.node = job.node
        /\ x.attached = job.attached /\ x.canStart = job.canStart /\ x.error = job.error
        /\ x.outstanding = job.outstanding
    BY <1>0, Zenon DEF Keeps, JobType
  <2>2. HeartbeatTimeout = Remove(s)
    BY DEF HeartbeatTimeout
  <2> HIDE DEF x
  <2>3. Tame(job, x)
    BY <1>1, <2>1
  <2>4. Tame(x, Remove(s)) /\ Noticed(Remove(s))
    BY <1>0, <2>1, TameFailed
  <2>5. s \in JobType /\ s.status = job.status
    BY <1>0, <2>1, SetErrorFacts
  <2>6. Remove(s).status \in {job.status, "Terminating"}
    BY <2>5, RemoveFacts
  <2> QED
    BY <2>2, <2>3, <2>4, <2>6, TameTrans, ZenonT(30)
<1>5. CASE HeartbeatHandler
  BY <1>4, <1>5, HandledEnd DEF HeartbeatHandler, Handled
<1>6. ASSUME NEW n \in IoNodes, NEW shorter, HeartbeatPulse(n, shorter)
      PROVE  EndInv'
  BY <1>4, <1>6, MessageEnd DEF HeartbeatPulse
<1> QED
  BY <1>2, <1>3, <1>5, <1>6

\* The job leaves the container and is destroyed.
LEMMA ContainerEnd ==
    ASSUME JobInv, EndInv, ContainerRemove \/ Destroy \/ UNCHANGED vars
    PROVE  EndInv'
<1>0. job \in JobType
  BY DEF JobInv, TypeOK
<1>1. CASE ContainerRemove \/ Destroy
  <2>1. /\ ~inJobs' /\ check' = check /\ job'.status = job.status /\ job'.node = job.node
        /\ job'.canStart = job.canStart /\ job'.outstanding = job.outstanding
        /\ job'.error = job.error
    <3>1. CASE ContainerRemove
      BY <1>0, <3>1 DEF ContainerRemove, JobType
    <3>2. CASE Destroy
      BY <3>2 DEF Destroy
    <3> QED
      BY <1>1, <3>1, <3>2
  <2>2. OutstandingInv'
    BY <2>1 DEF EndInv, OutstandingInv, OutstandingAnswered, StartedOnce, Untouched
  <2>3. EndedInv(job)'
    BY <2>1 DEF EndInv, StallInv, EndedInv
  <2> QED
    BY <2>1, <2>2, <2>3 DEF EndInv, StallInv
<1>2. CASE UNCHANGED vars
  <2>1. OutstandingInv'
    BY <1>2 DEF vars, EndInv, OutstandingInv, OutstandingAnswered, StartedOnce, Untouched
  <2>2. EndedInv(job)' /\ (inJobs => ClientInv' /\ IoInv')
    BY <1>2 DEF vars, EndInv, StallInv, EndedInv, ClientInv, IoInv
  <2>3. inJobs => Noticed(job)' \/ KillPosted'
    BY <1>2 DEF vars, EndInv, StallInv, Noticed, Ready, Done, KillPosted
  <2> QED
    BY <1>2, <2>1, <2>2, <2>3 DEF vars, EndInv, StallInv, KillPosted
<1> QED
  BY <1>1, <1>2

\* A new job waits for CheckIoLinks; one found Running by a restarted server has not
\* exited yet.
LEMMA InitEnd == Init => EndInv
<1> SUFFICES ASSUME Init PROVE EndInv
  OBVIOUS
<1>1. /\ job.io = IoNodes /\ job.outstanding = "none" /\ ~job.canStart
      /\ \A n \in IoNodes : {"Cleanup", "exited"} \cap job.node[n] = {}
      /\ \/ /\ job.status = "Invalid" /\ job.attached /\ mux = "up" /\ check = "links"
         \/ /\ job.status = "Running" /\ clients = "none" /\ check = "done"
            /\ \A n \in IoNodes : link[n] = "up"
  <2>1. CASE InitSubmitted
    BY <2>1 DEF InitSubmitted, NewJob
  <2>2. CASE InitReconnected
    <3> DEFINE f == [n \in IoNodes |-> {"Running", "drained"}]
    <3>1. /\ job = SetStatus([NewJob EXCEPT !.node = f, !.attached = FALSE], "Running")
          /\ clients = "none" /\ check = "done" /\ \A n \in IoNodes : link[n] = "up"
      BY <2>2 DEF InitReconnected
    <3>2. \A n \in IoNodes : {"Cleanup", "exited"} \cap f[n] = {}
      OBVIOUS
    <3> HIDE DEF f
    <3>3. /\ job.status = "Running" /\ job.node = f /\ job.io = IoNodes
          /\ job.outstanding = "none" /\ job.canStart = FALSE
      BY <3>1 DEF SetStatus, NewJob
    <3> QED
      BY <3>1, <3>2, <3>3
  <2> QED
    BY <2>1, <2>2 DEF Init
<1>2. OutstandingInv /\ EndedInv(job)
  BY <1>1 DEF OutstandingInv, OutstandingAnswered, StartedOnce, Untouched, EndedInv
<1>3. ClientInv
  BY <1>1 DEF ClientInv
<1>4. IoInv
  BY <1>1, IoNodesAssumption DEF IoInv
<1>5. Noticed(job)
  <2>1. ~Ready(job)
    BY <1>1, IoNodesAssumption DEF Ready, Done
  <2> QED
    BY <2>1 DEF Noticed
<1> QED
  BY <1>2, <1>3, <1>4, <1>5 DEF EndInv, StallInv

\* Every step keeps EndInv.
LEMMA NextEnd == JobInv /\ OrphanInv /\ EndInv /\ [Next]_vars => EndInv'
<1> SUFFICES ASSUME JobInv, OrphanInv, EndInv, [Next]_vars PROVE EndInv'
  OBVIOUS
<1>1. CASE Environment
  BY <1>1, StartEnd, PostsEnd, MuxEnd, LinkLostEnd, Zenon DEF Environment
<1>2. ASSUME NEW shorter \in BOOLEAN, Server(shorter)
      PROVE  EndInv'
  BY <1>2, CheckEnd, MuxEnd, RunSignalEnd, EndOfFileEnd, TimersEnd, ContainerEnd DEF Server
<1>3. ASSUME NEW shorter \in BOOLEAN, NEW n \in IoNodes, Answer(n, shorter)
      PROVE  EndInv'
  BY <1>3, ReportsEnd, SignalAckEnd DEF Answer
<1>4. ASSUME NEW shorter \in BOOLEAN, NEW n \in IoNodes, Ranks(n, shorter)
      PROVE  EndInv'
  BY <1>4, RanksEnd
<1>5. CASE UNCHANGED vars
  BY <1>5, ContainerEnd
<1> QED
  BY <1>1, <1>2, <1>3, <1>4, <1>5 DEF Next

\* The invariants behind OutstandingAnswered and NoSilentStall hold of every job,
\* whatever I/O nodes it has and whatever is lost or fails.
THEOREM EndInvariant == Spec => []EndInv
BY InitEnd, NextEnd, JobInvariant, OrphanInvariant, PTL DEF Spec

\* A signal that holds others back has an answer or the kill timer to wait for
\* (Signal::impl, EndOfFile::impl, IoNode::writeControl).
THEOREM JobOutstandingAnswered == Spec => []OutstandingAnswered
<1>1. EndInv => OutstandingAnswered
  BY DEF EndInv, OutstandingInv
<1> QED
  BY <1>1, EndInvariant, PTL

\* A job that could leave its stage is looked at again: by an answer of a node, the
\* end of a connection, the kill timer or a KILL (EndOfFile::impl, Transition::run).
THEOREM JobNoSilentStall == Spec => []NoSilentStall
<1>1. EndInv => NoSilentStall
  BY DEF EndInv, StallInv, Noticed, NoSilentStall
<1> QED
  BY <1>1, EndInvariant, PTL

\* A job whose client is gone is being killed, or was ended, and no job is being
\* started for a client that nobody has (ClientContainer::eofImpl, killImpl and
\* signalImpl, CheckIoLinks, Signal::impl, Transition::loaded, EndOfFile::impl).
THEOREM JobOrphanKilled == Spec => []OrphanKilled
<1>1. ASSUME OrphanInv, EndInv PROVE OrphanKilled
  <2>1. inJobs /\ Orphan => job.disconnected
    BY <1>1 DEF EndInv, StallInv, ClientInv, Orphan
  <2> QED
    BY <1>1, <2>1 DEF OrphanInv, DisconnectedKilled, BeingKilled, OrphanKilled
<1> QED
  BY <1>1, OrphanInvariant, EndInvariant, PTL

=============================================================================
