----------------------------- MODULE JobProofs -----------------------------
(***************************************************************************)
(* Proofs about Job for every set of I/O nodes: types, StageOrder,         *)
(* CleanRelease and DisconnectedKilled.  The functions the handlers are composed *)
(* of are treated one by one; the proof for a handler cites theirs.        *)
(***************************************************************************)
EXTENDS Job, TLAPS

USE ZenonT(8), SMTT(20)

\* The flags and the requests that the invariant speaks of
Watched == {"Setup", "setup", "loaded", "output_started", "Running", "error", "ended"}

\* k differs from j in nothing the invariant speaks of, status and removal aside
Quiet(j, k) ==
    /\ k.io = j.io /\ k.canStart = j.canStart
    /\ j.unavailable => k.unavailable
    /\ j.error # "none" => k.error # "none"
    /\ \A n \in IoNodes, f \in Watched : f \in k.node[n] <=> f \in j.node[n]
    /\ \A n \in IoNodes, r \in {"SetupJob", "StartJob"} :
          k.pending[n][r] > 0 => j.pending[n][r] > 0

\* Quiet steps compose.
LEMMA QuietTrans ==
    ASSUME NEW j, NEW k, NEW l, Quiet(j, k), Quiet(k, l)
    PROVE  Quiet(j, l)
BY DEF Quiet

\* Status::set changes the status and remembers that the job started.
LEMMA SetStatusFacts ==
    ASSUME NEW j \in JobType, NEW s \in Status
    PROVE  /\ SetStatus(j, s) \in JobType /\ Quiet(j, SetStatus(j, s))
           /\ SetStatus(j, s).status = s /\ SetStatus(j, s).remove = j.remove
           /\ SetStatus(j, s).unavailable = j.unavailable
           /\ SetStatus(j, s).error = j.error
           /\ SetStatus(j, s).node = j.node
           /\ SetStatus(j, s).timer = j.timer
BY ZenonT(30) DEF SetStatus, JobType, Quiet

\* ExitStatus::set leaves everything but the error alone.
LEMMA SetErrorFacts ==
    ASSUME NEW j \in JobType, NEW e \in Error \ {"none"}
    PROVE  /\ SetError(j, e) \in JobType /\ Quiet(j, SetError(j, e))
           /\ SetError(j, e).status = j.status /\ SetError(j, e).remove = j.remove
           /\ SetError(j, e).node = j.node /\ SetError(j, e).error = e
           /\ SetError(j, e).pending = j.pending
BY DEF SetError, JobType, Quiet

\* A flag is set for the given nodes and for no others, and nothing else changes.
Flagged(j, N, f, k) ==
    /\ k \in JobType
    /\ k.status = j.status /\ k.io = j.io /\ k.canStart = j.canStart
    /\ k.remove = j.remove /\ k.unavailable = j.unavailable
    /\ k.error = j.error /\ k.timer = j.timer /\ k.pending = j.pending
    /\ \A n \in IoNodes, g \in Requested \cup Reported :
          g \in k.node[n] <=> g \in j.node[n] \/ (g = f /\ n \in N)

\* SetFlag does what Flagged says.
LEMMA SetFlagFacts ==
    ASSUME NEW j \in JobType, NEW N \in SUBSET IoNodes, NEW f \in Requested \cup Reported
    PROVE  Flagged(j, N, f, SetFlag(j, N, f))
<1>1. \A n \in IoNodes : (IF n \in N THEN j.node[n] \cup {f} ELSE j.node[n])
                            \in SUBSET (Requested \cup Reported)
  BY DEF JobType
<1>2. SetFlag(j, N, f) \in JobType
  BY <1>1 DEF SetFlag, JobType
<1>3. \A n \in IoNodes, g \in Requested \cup Reported :
         g \in SetFlag(j, N, f).node[n] <=> g \in j.node[n] \/ (g = f /\ n \in N)
  BY <1>1 DEF SetFlag, JobType
<1>4. QED
  BY <1>2, <1>3, ZenonT(30) DEF SetFlag, JobType, Flagged

\* Setting a flag the invariant does not speak of is quiet.
LEMMA QuietSetFlag ==
    ASSUME NEW j, NEW N, NEW f \in (Requested \cup Reported) \ Watched,
           NEW k, Flagged(j, N, f, k)
    PROVE  Quiet(j, k)
<1>1. \A g \in Watched : g # f /\ g \in Requested \cup Reported
  BY DEF Watched, Requested, Reported
<1>2. QED
  BY <1>1 DEF Quiet, Flagged

\* Each request has its own flag.
LEMMA FlagOfFacts ==
    /\ FlagOf \in [Request -> Requested \cup Reported]
    /\ FlagOf["SetupJob"] = "Setup"
    /\ \A r \in Request \ {"SetupJob"} : FlagOf[r] \notin Watched
BY DEF FlagOf, Request, Requested, Reported, Watched

\* writeControl and writeData touch a node's request flag and what it has to
\* answer, and nothing else.
Wrote(j, N, r, w) ==
    /\ w \in JobType
    /\ w.status = j.status /\ w.io = j.io /\ w.canStart = j.canStart
    /\ w.remove = j.remove /\ w.unavailable = j.unavailable
    /\ w.error = j.error /\ w.timer = j.timer
    /\ \A n \in IoNodes, g \in Requested \cup Reported : g \in w.node[n] <=>
          \/ g \in j.node[n]
          \/ g = FlagOf[r] /\ n \in N /\ (link[n] # "gone" \/ r = "StartStdio")
    /\ \A n \in IoNodes, q \in Request : w.pending[n][q] > 0 =>
          j.pending[n][q] > 0 \/ (q = r /\ n \in N /\ link[n] = "up")

\* Write does what Wrote says.
LEMMA WriteFacts ==
    ASSUME NEW j \in JobType, NEW N \in SUBSET IoNodes, NEW r \in Request
    PROVE  Wrote(j, N, r, Write(j, N, r))
<1> DEFINE M == {n \in N : link[n] # "gone" \/ r = "StartStdio"}
           f == FlagOf[r]
           s == SetFlag(j, M, f)
           p == [n \in IoNodes |->
                    IF n \in N /\ link[n] = "up" /\ j.pending[n][r] < MaxPending
                    THEN [j.pending[n] EXCEPT ![r] = @ + 1]
                    ELSE j.pending[n]]
           w == Write(j, N, r)
<1>1. f \in Requested \cup Reported /\ M \in SUBSET IoNodes
  BY FlagOfFacts
<1>2. /\ s \in JobType
      /\ s.status = j.status /\ s.io = j.io /\ s.canStart = j.canStart
      /\ s.remove = j.remove /\ s.unavailable = j.unavailable
      /\ s.error = j.error /\ s.timer = j.timer
      /\ \A n \in IoNodes, g \in Requested \cup Reported :
             g \in s.node[n] <=> g \in j.node[n] \/ (g = f /\ n \in M)
  <2> HIDE DEF M, f
  <2>1. Flagged(j, M, f, s)
    BY <1>1, SetFlagFacts
  <2> HIDE DEF s
  <2>2. QED
    BY <2>1 DEF Flagged
<1>3. j.pending \in [IoNodes -> [Request -> 0 .. MaxPending]]
  BY DEF JobType
<1>4. p \in [IoNodes -> [Request -> 0 .. MaxPending]]
  <2>1. ASSUME NEW n \in IoNodes
        PROVE  p[n] \in [Request -> 0 .. MaxPending]
    BY <1>3, MaxPendingAssumption
  <2>2. QED
    BY <2>1
<1>5. \A n \in IoNodes, q \in Request : p[n][q] > 0 =>
         j.pending[n][q] > 0 \/ (q = r /\ n \in N /\ link[n] = "up")
  BY <1>3, MaxPendingAssumption
<1>6. w = [s EXCEPT !.pending = p]
  BY DEF Write
<1>7. \A n \in M : n \in N /\ (link[n] # "gone" \/ r = "StartStdio")
  OBVIOUS
<1>8. \A n \in N : (link[n] # "gone" \/ r = "StartStdio") => n \in M
  OBVIOUS
<1> HIDE DEF s, p, M, w, f
<1>9. /\ w \in JobType /\ w.node = s.node /\ w.pending = p
      /\ w.status = s.status /\ w.io = s.io /\ w.canStart = s.canStart
      /\ w.remove = s.remove /\ w.unavailable = s.unavailable
      /\ w.error = s.error /\ w.timer = s.timer
  <2>1. s \in JobType
    BY <1>2
  <2>2. QED
    BY <2>1, <1>4, <1>6, ZenonT(30) DEF JobType
<1>10. QED
  <2>1. Wrote(j, N, r, w)
    BY <1>2, <1>5, <1>7, <1>8, <1>9 DEF f, Wrote
  <2>2. QED
    BY <2>1 DEF w

\* Only a SetupJob or a StartJob is a request the invariant watches.
LEMMA QuietWrite ==
    ASSUME NEW j, NEW N, NEW r \in Request, r # "SetupJob", r # "StartJob",
           NEW w, Wrote(j, N, r, w)
    PROVE  Quiet(j, w)
<1>1. \A n \in IoNodes, g \in Watched : g \in w.node[n] <=> g \in j.node[n]
  <2>1. \A g \in Watched : g # FlagOf[r] /\ g \in Requested \cup Reported
    BY FlagOfFacts DEF Watched, Requested, Reported
  <2>2. QED
    BY <2>1 DEF Wrote
<1>2. \A n \in IoNodes, q \in {"SetupJob", "StartJob"} :
          w.pending[n][q] > 0 => j.pending[n][q] > 0
  BY DEF Request, Wrote
<1>3. QED
  BY <1>1, <1>2 DEF Quiet, Wrote

\* Transition::end
LEMMA EndFacts ==
    ASSUME NEW j \in JobType
    PROVE  /\ End(j) \in JobType /\ Quiet(j, End(j))
           /\ End(j).status = "Cleanup" /\ End(j).remove = j.remove
<1> DEFINE c == SetStatus(j, "Cleanup")
           e == Write(c, j.io, "CleanupJob")
<1>1. c \in JobType /\ Quiet(j, c) /\ c.status = "Cleanup" /\ c.remove = j.remove
  BY SetStatusFacts DEF Status
<1>2. j.io \in SUBSET IoNodes
  BY DEF JobType
<1>3. End(j) = e
  BY DEF End
<1> HIDE DEF c
<1>4. Wrote(c, j.io, "CleanupJob", e)
  BY <1>1, <1>2, WriteFacts DEF Request
<1> HIDE DEF e
<1>5. Quiet(c, e)
  BY <1>4, QuietWrite DEF Request
<1>6. e \in JobType /\ e.status = "Cleanup" /\ e.remove = j.remove
  BY <1>1, <1>4 DEF Wrote
<1>7. QED
  BY <1>1, <1>3, <1>5, <1>6, QuietTrans

\* The job is as quiet as before, and neither removed nor in a new stage unless
\* it was ended on the way.
Calm(j, k) ==
    /\ k \in JobType /\ Quiet(j, k) /\ k.remove = j.remove
    /\ k.status # j.status =>
          k.status = "Cleanup" /\ j.status \notin {"Invalid", "Terminating"}

\* Calm steps compose.
LEMMA CalmTrans ==
    ASSUME NEW j, NEW k, NEW l, Calm(j, k), Calm(k, l)
    PROVE  Calm(j, l)
BY QuietTrans DEF Calm

\* Signal::startTimer
LEMMA StartTimerFacts ==
    ASSUME NEW j \in JobType, NEW sig, NEW shorter
    PROVE  Calm(j, StartTimer(j, sig, shorter))
<1> DEFINE t == IF sig = "KILL" /\ (j.timer = "unset" \/ (j.timer = "stopped" /\ shorter))
                THEN "armed" ELSE j.timer
           h == j.hbStarted \/ sig = "HWFAIL"
<1>1. t \in Timer /\ h \in BOOLEAN
  BY DEF JobType, Timer
<1>2. StartTimer(j, sig, shorter) = [j EXCEPT !.timer = t, !.hbStarted = h]
  BY DEF StartTimer
<1> HIDE DEF t, h
<1>3. QED
  BY <1>1, <1>2, ZenonT(30) DEF Calm, Quiet, JobType

\* The flags that remember which signals a node was sent
LEMMA MarkFacts ==
    ASSUME NEW j \in JobType, NEW N \in SUBSET IoNodes, NEW sig
    PROVE  Calm(j, Mark(j, N, sig)) /\ Mark(j, N, sig).status = j.status
<1>1. \A f \in {"killed", "hardwareFailure"} : f \in (Requested \cup Reported) \ Watched
  BY DEF Requested, Reported, Watched
<1>2. ASSUME NEW f \in (Requested \cup Reported) \ Watched
      PROVE  /\ SetFlag(j, N, f) \in JobType /\ Quiet(j, SetFlag(j, N, f))
             /\ SetFlag(j, N, f).status = j.status /\ SetFlag(j, N, f).remove = j.remove
  <2>1. f \in Requested \cup Reported
    OBVIOUS
  <2>2. Flagged(j, N, f, SetFlag(j, N, f))
    BY <2>1, SetFlagFacts
  <2>3. Quiet(j, SetFlag(j, N, f))
    BY <2>2, QuietSetFlag
  <2>4. QED
    BY <2>2, <2>3 DEF Flagged
<1>3. Quiet(j, j)
  BY DEF Quiet
<1>4. QED
  BY <1>1, <1>2, <1>3 DEF Mark, Calm

\* A request other than SetupJob and StartJob leaves the job calm.
LEMMA CalmWrite ==
    ASSUME NEW j \in JobType, NEW N \in SUBSET IoNodes,
           NEW r \in Request, r # "SetupJob", r # "StartJob"
    PROVE  Calm(j, Write(j, N, r)) /\ Write(j, N, r).status = j.status
<1> DEFINE w == Write(j, N, r)
<1>1. Wrote(j, N, r, w)
  BY WriteFacts
<1> HIDE DEF w
<1>2. Quiet(j, w)
  BY <1>1, QuietWrite
<1>3. Calm(j, w) /\ w.status = j.status
  BY <1>1, <1>2 DEF Wrote, Calm
<1>4. QED
  BY <1>3 DEF w

\* Transition::end is calm unless the job is not in a stage that can end.
LEMMA CalmEnd ==
    ASSUME NEW j \in JobType, j.status \notin {"Invalid", "Terminating"}
    PROVE  Calm(j, End(j))
BY EndFacts DEF Calm

\* Job::setError
LEMMA CalmSetError ==
    ASSUME NEW j \in JobType, NEW e \in Error \ {"none"}
    PROVE  Calm(j, SetError(j, e)) /\ SetError(j, e).status = j.status
BY SetErrorFacts DEF Calm

\* Signal::impl, in whatever state it finds the job
LEMMA CalmSignal ==
    ASSUME NEW j \in JobType, NEW sig \in {"TERM", "KILL", "HWFAIL"}, NEW shorter
    PROVE  Calm(j, Signal(j, sig, shorter))
<1>1. CASE j.status \in {"ClientStarting", "Debug"}
  <2> DEFINE e == SetError(j, "job_failed_to_start")
  <2>1. Calm(j, e) /\ e.status = j.status
    BY CalmSetError DEF Error
  <2> HIDE DEF e
  <2>2. Calm(e, End(e))
    BY <1>1, <2>1, CalmEnd DEF Calm
  <2>3. Signal(j, sig, shorter) = End(e)
    BY <1>1 DEF Signal, e
  <2>4. QED
    BY <2>1, <2>2, <2>3, CalmTrans
<1>2. CASE /\ j.status \notin {"ClientStarting", "Debug"}
           /\ j.status # "Running" \/ j.outstanding # "none"
  BY <1>2, StartTimerFacts DEF Signal
<1>3. CASE j.status = "Running" /\ j.outstanding = "none"
  <2> DEFINE N == Targets(j, sig)
             m == Mark(j, N, sig)
             w == Write(m, N, "SignalJob")
             o == [w EXCEPT !.outstanding = IF N = {} THEN @ ELSE sig]
  <2>1. N \in SUBSET IoNodes
    BY DEF Targets, JobType
  <2>2. Signal(j, sig, shorter) = StartTimer(o, sig, shorter)
    BY <1>3 DEF Signal
  <2> HIDE DEF N
  <2>3. Calm(j, m)
    BY <2>1, MarkFacts
  <2>4. m \in JobType
    BY <2>3 DEF Calm
  <2> HIDE DEF m
  <2>5. Calm(m, w)
    BY <2>1, <2>4, CalmWrite DEF Request
  <2>6. w \in JobType
    BY <2>5 DEF Calm
  <2> HIDE DEF w
  <2>7. Calm(w, o)
    <3>1. (IF N = {} THEN w.outstanding ELSE sig) \in {"none", "TERM", "KILL", "HWFAIL"}
      BY <2>6 DEF JobType
    <3>2. QED
      BY <2>6, <3>1, ZenonT(30) DEF Calm, Quiet, JobType
  <2>8. o \in JobType
    BY <2>7 DEF Calm
  <2> HIDE DEF o
  <2>9. Calm(o, StartTimer(o, sig, shorter))
    BY <2>8, StartTimerFacts
  <2>10. QED
    BY <2>2, <2>3, <2>5, <2>7, <2>9, CalmTrans
<1>4. QED
  BY <1>1, <1>2, <1>3

-----------------------------------------------------------------------------
(* What every handler guarantees.                                          *)

\* The job was neither set up nor started.
Idle(j) ==
    /\ j.status \in {"Invalid", "Terminating"} /\ ~j.canStart
    /\ \A n \in IoNodes : j.node[n] \cap {"Setup", "Running"} = {}

\* The job is on its way out of the container.
Leaving(j) == j.remove \/ j.status = "Terminating"

\* There is no I/O node left on which the job could be set up for others to trip over.
Void(j) == j.io = {} \/ j.unavailable

\* The handler keeps the parts of the invariant that speak of the job alone,
\* takes back no release, and starts to remove only a job that is released.
Good(j, k) ==
    /\ k \in JobType /\ NodeInv(k) /\ StageInv(k)
    /\ Idle(j) => Idle(k)
    /\ Void(j) => Void(k)
    /\ Cleaned(j) => Cleaned(k)
    /\ Leaving(k) => Leaving(j) \/ (Cleaned(k) /\ (Idle(j) => Void(k)))

\* Handlers' parts compose.
LEMMA GoodTrans ==
    ASSUME NEW j, NEW k, NEW l, Good(j, k), Good(k, l)
    PROVE  Good(j, l)
BY DEF Good

\* Quiet changes keep what the invariant says of the nodes.
LEMMA QuietInv ==
    ASSUME NEW j \in JobType, NEW k \in JobType, Quiet(j, k), NodeInv(j), StageInv(j),
           k.status \in {j.status, "Cleanup", "Terminating", "Setup"}
    PROVE  NodeInv(k) /\ StageInv(k)
<1>1. NodeInv(k)
  BY DEF NodeInv, Quiet, Watched
<1>2. j.io \subseteq IoNodes
  BY DEF JobType
<1>3. StageInv(k)
  BY <1>2 DEF StageInv, Quiet, Watched
<1>4. QED
  BY <1>1, <1>3

\* Quiet changes keep a release, and a job that is void.
LEMMA QuietRelease ==
    ASSUME NEW j \in JobType, NEW k \in JobType, Quiet(j, k)
    PROVE  (Cleaned(j) => Cleaned(k)) /\ (Void(j) => Void(k))
<1>1. j.io \subseteq IoNodes
  BY DEF JobType
<1>2. Cleaned(j) => Cleaned(k)
  BY <1>1 DEF Cleaned, Quiet, Watched
<1>3. QED
  BY <1>2 DEF Void, Quiet

\* Quiet changes keep a job idle that stays in its stage or waits for the mux.
LEMMA QuietIdle ==
    ASSUME NEW j \in JobType, NEW k \in JobType, Quiet(j, k), Idle(j),
           k.status \in {j.status, "Terminating"}
    PROVE  Idle(k)
BY DEF Idle, Quiet, Watched

\* A calm handler is good.
LEMMA CalmGood ==
    ASSUME NEW j \in JobType, NEW k, Calm(j, k), NodeInv(j), StageInv(j)
    PROVE  Good(j, k)
<1>1. /\ k \in JobType /\ Quiet(j, k) /\ k.status \in {j.status, "Cleanup"}
      /\ k.remove = j.remove
  BY DEF Calm
<1>2. NodeInv(k) /\ StageInv(k) /\ (Cleaned(j) => Cleaned(k)) /\ (Void(j) => Void(k))
  BY <1>1, QuietInv, QuietRelease
<1>3. Idle(j) => Idle(k)
  <2>1. Idle(j) => k.status = j.status
    BY DEF Calm, Idle
  <2>2. QED
    BY <1>1, <2>1, QuietIdle
<1>4. Leaving(k) => Leaving(j)
  BY <1>1 DEF Leaving
<1>5. QED
  BY <1>1, <1>2, <1>3, <1>4 DEF Good

\* Job::remove is quiet and leaves the job on its way out.
LEMMA RemoveFacts ==
    ASSUME NEW j \in JobType
    PROVE  /\ Remove(j) \in JobType /\ Quiet(j, Remove(j)) /\ Leaving(Remove(j))
           /\ Remove(j).status \in {j.status, "Terminating"}
<1> DEFINE o == IF j.attached \/ j.disconnected
                THEN [j EXCEPT !.remove = TRUE] ELSE SetStatus(j, "Terminating")
           f == o.softwareFailure \/ j.error = "kill_timeout"
           t == IF o.timer = "armed" THEN "stopped" ELSE o.timer
<1>1. /\ o \in JobType /\ Quiet(j, o) /\ o.status \in {j.status, "Terminating"}
      /\ Leaving(o)
  <2>1. CASE j.attached \/ j.disconnected
    BY <2>1, ZenonT(30) DEF JobType, Quiet, Leaving
  <2>2. CASE ~(j.attached \/ j.disconnected)
    BY <2>2, SetStatusFacts DEF Status, Leaving
  <2>3. QED
    BY <2>1, <2>2
<1>2. Remove(j) = [o EXCEPT !.softwareFailure = f, !.timer = t, !.hbStopped = TRUE]
  BY DEF Remove
<1> HIDE DEF o
<1>3. f \in BOOLEAN /\ t \in Timer
  BY <1>1 DEF JobType, Timer
<1> HIDE DEF f, t
<1>4. /\ Remove(j) \in JobType /\ Quiet(o, Remove(j))
      /\ Remove(j).status = o.status /\ Remove(j).remove = o.remove
  <2>1. Remove(j) \in JobType
    BY <1>1, <1>2, <1>3, ZenonT(30) DEF JobType
  <2>2. Quiet(o, Remove(j))
    BY <1>1, <1>2, <1>3, ZenonT(30) DEF JobType, Quiet
  <2>3. Remove(j).status = o.status /\ Remove(j).remove = o.remove
    BY <1>1, <1>2 DEF JobType
  <2>4. QED
    BY <2>1, <2>2, <2>3
<1>5. QED
  BY <1>1, <1>4, QuietTrans DEF Leaving

\* Job::remove is good when the job is released.
LEMMA RemoveGood ==
    ASSUME NEW j \in JobType, NodeInv(j), StageInv(j), Cleaned(j), Idle(j) => Void(j)
    PROVE  Good(j, Remove(j))
<1> DEFINE k == Remove(j)
<1>1. k \in JobType /\ Quiet(j, k) /\ k.status \in {j.status, "Terminating"}
  BY RemoveFacts
<1> HIDE DEF k
<1>2. NodeInv(k) /\ StageInv(k)
  BY <1>1, QuietInv
<1>3. (Cleaned(j) => Cleaned(k)) /\ (Void(j) => Void(k))
  BY <1>1, QuietRelease
<1>4. Idle(j) => Idle(k)
  BY <1>1, QuietIdle
<1>5. Good(j, k)
  BY <1>1, <1>2, <1>3, <1>4 DEF Good
<1>6. QED
  BY <1>5 DEF k

\* A node's report is recorded: a node reports its setup, or that it runs,
\* only when the job was set up on it.
LEMMA FlagGood ==
    ASSUME NEW j \in JobType, NodeInv(j), StageInv(j), NEW n \in IoNodes,
           NEW f \in (Requested \cup Reported) \ {"Setup", "error"},
           f \in {"setup", "Running"} => "Setup" \in j.node[n]
    PROVE  Good(j, SetFlag(j, {n}, f)) /\ SetFlag(j, {n}, f).status = j.status
<1> DEFINE k == SetFlag(j, {n}, f)
<1>0. f \in Requested \cup Reported /\ {n} \in SUBSET IoNodes
  OBVIOUS
<1>1. /\ k \in JobType /\ k.status = j.status /\ k.io = j.io /\ k.canStart = j.canStart
      /\ k.remove = j.remove /\ k.unavailable = j.unavailable /\ k.error = j.error
      /\ k.pending = j.pending
      /\ \A m \in IoNodes, g \in Requested \cup Reported :
            g \in k.node[m] <=> g \in j.node[m] \/ (g = f /\ m \in {n})
  <2>1. Flagged(j, {n}, f, k)
    BY <1>0, SetFlagFacts
  <2> HIDE DEF k
  <2>2. QED
    BY <2>1 DEF Flagged
<1> HIDE DEF k
<1>2. /\ \A g \in Watched : g \in Requested \cup Reported
      /\ f # "Setup" /\ f # "error"
      /\ j.io \subseteq IoNodes
  BY DEF JobType, Watched, Requested, Reported
<1>3. /\ \A m \in IoNodes, g \in Watched : g \in j.node[m] => g \in k.node[m]
      /\ \A m \in IoNodes : "Setup" \in k.node[m] <=> "Setup" \in j.node[m]
      /\ \A m \in IoNodes : "error" \in k.node[m] <=> "error" \in j.node[m]
      /\ \A m \in IoNodes : "setup" \in k.node[m] => "setup" \in j.node[m] \/ "Setup" \in j.node[m]
      /\ \A m \in IoNodes : "Running" \in k.node[m] =>
            "Running" \in j.node[m] \/ "Setup" \in j.node[m]
  BY <1>1, <1>2 DEF Watched
<1>4. NodeInv(k)
  BY <1>1, <1>3 DEF NodeInv
<1>5. StageInv(k)
  BY <1>1, <1>2, <1>3, ZenonT(30) DEF StageInv, Watched
<1>6. Idle(j) => Idle(k)
  BY <1>1, <1>3 DEF Idle
<1>7. Cleaned(j) => Cleaned(k)
  BY <1>1, <1>2, <1>3, ZenonT(30) DEF Cleaned, Watched
<1>8. (Void(j) => Void(k)) /\ (Leaving(k) => Leaving(j))
  BY <1>1 DEF Void, Leaving
<1>9. Good(j, k) /\ k.status = j.status
  BY <1>1, <1>4, <1>5, <1>6, <1>7, <1>8 DEF Good
<1>10. QED
  BY <1>9 DEF k

\* IoNode::setupFailure, loadFailure, cleanupFailure
LEMMA FailureGood ==
    ASSUME NEW j \in JobType, NodeInv(j), StageInv(j), NEW n \in IoNodes,
           NEW e \in Error \ {"none"}
    PROVE  Good(j, Failure(j, n, e)) /\ Failure(j, n, e).status = j.status
<1> DEFINE s == SetFlag(j, {n}, "error")
           k == SetError(s, e)
<1>0. "error" \in Requested \cup Reported /\ {n} \in SUBSET IoNodes
  BY DEF Reported
<1>1. /\ s \in JobType /\ s.status = j.status /\ s.io = j.io /\ s.canStart = j.canStart
      /\ s.remove = j.remove /\ s.unavailable = j.unavailable
      /\ s.pending = j.pending
      /\ \A m \in IoNodes, g \in Requested \cup Reported :
            g \in s.node[m] <=> g \in j.node[m] \/ (g = "error" /\ m \in {n})
  <2>1. Flagged(j, {n}, "error", s)
    BY <1>0, SetFlagFacts
  <2> HIDE DEF s
  <2>2. QED
    BY <2>1 DEF Flagged
<1> HIDE DEF s
<1>2. /\ k \in JobType /\ k.status = s.status /\ k.io = s.io /\ k.canStart = s.canStart
      /\ k.remove = s.remove /\ k.unavailable = s.unavailable
      /\ k.error = e /\ k.node = s.node /\ k.pending = s.pending
  BY <1>1, ZenonT(30) DEF SetError, JobType
<1>3. Failure(j, n, e) = k
  BY DEF Failure, s
<1> HIDE DEF k
<1>4. /\ \A g \in Watched : g \in Requested \cup Reported
      /\ j.io \subseteq IoNodes /\ e # "none"
  BY DEF JobType, Watched, Requested, Reported
<1>5. \A m \in IoNodes, g \in Watched \ {"error"} : g \in k.node[m] <=> g \in j.node[m]
  BY <1>1, <1>2, <1>4
<1>6. NodeInv(k)
  BY <1>1, <1>2, <1>4, <1>5 DEF NodeInv, Watched
<1>7. StageInv(k)
  BY <1>1, <1>2, <1>4, <1>5 DEF StageInv, Watched
<1>8. Idle(j) => Idle(k)
  BY <1>1, <1>2, <1>5 DEF Idle, Watched
<1>9. Cleaned(j) => Cleaned(k)
  BY <1>1, <1>2, <1>4, <1>5 DEF Cleaned, Watched
<1>10. (Void(j) => Void(k)) /\ (Leaving(k) => Leaving(j))
  BY <1>1, <1>2 DEF Void, Leaving
<1>11. Good(j, k) /\ k.status = j.status
  BY <1>1, <1>2, <1>6, <1>7, <1>8, <1>9, <1>10 DEF Good
<1>12. QED
  BY <1>3, <1>11

\* IoNode::startFailure
LEMMA StartFailureGood ==
    ASSUME NEW j \in JobType, NodeInv(j), StageInv(j), NEW n \in IoNodes
    PROVE  Good(j, StartFailure(j, n)) /\ StartFailure(j, n).status = j.status
<1> DEFINE f == Failure(j, n, "job_failed_to_start")
           N == {m \in j.io : "Running" \in j.node[m] /\ "killed" \notin j.node[m]}
           s == SetFlag(f, N, "killed")
           w == Write(s, N, "SignalJob")
<1>1. Good(j, f) /\ f.status = j.status
  BY FailureGood DEF Error
<1>2. f \in JobType /\ NodeInv(f) /\ StageInv(f)
  BY <1>1 DEF Good
<1>3. N \in SUBSET IoNodes
  BY DEF JobType
<1>4. StartFailure(j, n) = w
  BY DEF StartFailure
<1> HIDE DEF f, N
<1>5. Calm(f, s) /\ s.status = f.status
  <2>1. "killed" \in (Requested \cup Reported) \ Watched /\ "killed" \in Requested \cup Reported
    BY DEF Requested, Reported, Watched
  <2>2. Flagged(f, N, "killed", s)
    BY <1>2, <1>3, <2>1, SetFlagFacts
  <2> HIDE DEF s
  <2>3. Quiet(f, s)
    BY <2>1, <2>2, QuietSetFlag
  <2>4. QED
    BY <2>2, <2>3 DEF Calm, Flagged
<1>6. s \in JobType
  BY <1>5 DEF Calm
<1> HIDE DEF s
<1>7. Calm(s, w) /\ w.status = s.status
  BY <1>3, <1>6, CalmWrite DEF Request
<1> HIDE DEF w
<1>8. Calm(f, w)
  BY <1>5, <1>7, CalmTrans
<1>9. Good(f, w)
  BY <1>2, <1>8, CalmGood
<1>10. QED
  BY <1>1, <1>4, <1>5, <1>7, <1>9, GoodTrans

-----------------------------------------------------------------------------
(* Transitions between the stages.                                         *)

\* A job enters a stage whose nodes are ready for it.
LEMMA StageGood ==
    ASSUME NEW j \in JobType, NodeInv(j), StageInv(j), ~Idle(j),
           NEW s \in Status \ {"Terminating"}, StageInv(SetStatus(j, s))
    PROVE  Good(j, SetStatus(j, s))
<1> DEFINE k == SetStatus(j, s)
<1>1. k \in JobType /\ Quiet(j, k) /\ k.status = s /\ k.remove = j.remove
  BY SetStatusFacts
<1>2. StageInv(k) /\ s # "Terminating"
  OBVIOUS
<1> HIDE DEF k
<1>3. NodeInv(k)
  BY <1>1 DEF NodeInv, Quiet, Watched
<1>4. (Cleaned(j) => Cleaned(k)) /\ (Void(j) => Void(k))
  BY <1>1, QuietRelease
<1>5. Good(j, k)
  BY <1>1, <1>2, <1>3, <1>4 DEF Good, Leaving
<1>6. QED
  BY <1>5 DEF k

\* StartJob is only written to nodes on which the job is set up.
LEMMA StartJobGood ==
    ASSUME NEW j \in JobType, NodeInv(j), StageInv(j),
           \A n \in j.io : "Setup" \in j.node[n]
    PROVE  Good(j, Write(j, j.io, "StartJob"))
<1> DEFINE w == Write(j, j.io, "StartJob")
<1>1. j.io \in SUBSET IoNodes
  BY DEF JobType
<1>2. Wrote(j, j.io, "StartJob", w)
  BY <1>1, WriteFacts DEF Request
<1> HIDE DEF w
<1>3. \A n \in IoNodes, g \in Watched : g \in w.node[n] <=> g \in j.node[n]
  <2>1. \A g \in Watched : g # FlagOf["StartJob"] /\ g \in Requested \cup Reported
    BY DEF FlagOf, Watched, Requested, Reported
  <2>2. QED
    BY <1>2, <2>1 DEF Wrote
<1>4. /\ w \in JobType /\ w.status = j.status /\ w.io = j.io /\ w.canStart = j.canStart
      /\ w.remove = j.remove /\ w.unavailable = j.unavailable /\ w.error = j.error
      /\ \A n \in IoNodes : w.pending[n]["SetupJob"] > 0 => j.pending[n]["SetupJob"] > 0
      /\ \A n \in IoNodes : w.pending[n]["StartJob"] > 0 =>
            j.pending[n]["StartJob"] > 0 \/ n \in j.io
  BY <1>2 DEF Wrote, Request
<1>5. NodeInv(w)
  BY <1>3, <1>4 DEF NodeInv, Watched
<1>6. StageInv(w)
  BY <1>1, <1>3, <1>4 DEF StageInv, Watched
<1>7. Idle(j) => Idle(w)
  BY <1>3, <1>4 DEF Idle, Watched
<1>8. Cleaned(j) => Cleaned(w)
  BY <1>1, <1>3, <1>4 DEF Cleaned, Watched
<1>9. (Void(j) => Void(w)) /\ (Leaving(w) => Leaving(j))
  BY <1>4 DEF Void, Leaving
<1>10. Good(j, w)
  BY <1>4, <1>5, <1>6, <1>7, <1>8, <1>9 DEF Good
<1>11. QED
  BY <1>10 DEF w

\* Load and the output half of Start: a stage is entered, its request written.
LEMMA StageWriteGood ==
    ASSUME NEW j \in JobType, NodeInv(j), StageInv(j), ~Idle(j),
           NEW s \in Status \ {"Terminating"}, StageInv(SetStatus(j, s)),
           NEW r \in Request, r # "SetupJob", r # "StartJob"
    PROVE  Good(j, Write(SetStatus(j, s), j.io, r))
<1> DEFINE k == SetStatus(j, s)
           w == Write(k, j.io, r)
<1>1. Good(j, k)
  BY StageGood
<1>2. k \in JobType /\ NodeInv(k) /\ StageInv(k)
  BY <1>1 DEF Good
<1>3. j.io \in SUBSET IoNodes
  BY DEF JobType
<1> HIDE DEF k
<1>4. Calm(k, w)
  BY <1>2, <1>3, CalmWrite
<1> HIDE DEF w
<1>5. Good(k, w)
  BY <1>2, <1>4, CalmGood
<1>6. Good(j, w)
  BY <1>1, <1>5, GoodTrans
<1>7. QED
  BY <1>6 DEF w, k

\* Transition::end, from every stage
LEMMA EndGood ==
    ASSUME NEW j \in JobType, NodeInv(j), StageInv(j),
           j.status \notin {"Invalid", "Terminating"}
    PROVE  Good(j, End(j))
BY CalmEnd, CalmGood

\* A job whose stage is done has, without an error, what the next stage needs.
LEMMA ReadyFacts ==
    ASSUME NEW j \in JobType, NodeInv(j), StageInv(j), Ready(j), NEW n \in j.io
    PROVE  /\ j.status = "Setup" /\ j.error = "none" => "setup" \in j.node[n]
           /\ j.status = "Loading" /\ j.error = "none" => {"setup", "loaded"} \subseteq j.node[n]
           /\ j.status = "OutputStarting" /\ j.error = "none" =>
                 {"Setup", "setup", "output_started"} \subseteq j.node[n]
           /\ j.status = "ControlStarting" /\ j.error = "none" => "Running" \in j.node[n]
           /\ j.status = "Cleanup" => "ended" \in j.node[n]
<1>1. n \in IoNodes
  BY DEF JobType
<1>2. Done(j, n)
  BY DEF Ready
<1>3. "error" \in j.node[n] => j.error # "none"
  BY <1>1 DEF NodeInv
<1>4. "setup" \in j.node[n] => "Setup" \in j.node[n]
  BY <1>1 DEF NodeInv
<1>5. /\ j.status = "Loading" => "setup" \in j.node[n]
      /\ j.status = "OutputStarting" => "setup" \in j.node[n]
  BY DEF StageInv
<1>6. CASE j.status = "Setup"
  BY <1>2, <1>3, <1>6 DEF Done
<1>7. CASE j.status = "Loading"
  BY <1>2, <1>3, <1>5, <1>7 DEF Done
<1>8. CASE j.status = "OutputStarting"
  BY <1>2, <1>3, <1>4, <1>5, <1>8 DEF Done
<1>9. CASE j.status = "ControlStarting"
  BY <1>2, <1>3, <1>9 DEF Done
<1>10. CASE j.status = "Cleanup"
  BY <1>2, <1>10 DEF Done
<1>11. QED
  BY <1>6, <1>7, <1>8, <1>9, <1>10

\* Transition::run: the job is Running where every node started it, whatever a
\* waiting KILL or an early exit then makes of it.
LEMMA RunGood ==
    ASSUME NEW j \in JobType, NodeInv(j), StageInv(j), j.status = "ControlStarting",
           \A n \in j.io : "Running" \in j.node[n], NEW shorter
    PROVE  Good(j, Run(j, shorter))
<1> DEFINE r == SetStatus(j, "Running")
           k == IF j.timer = "unset" THEN r ELSE Signal(r, "KILL", shorter)
<1>1. /\ r \in JobType /\ Quiet(j, r) /\ r.status = "Running" /\ r.node = j.node
  BY SetStatusFacts DEF Status
<1>2. Run(j, shorter) = IF ~j.attached THEN r ELSE IF Ready(k) THEN End(k) ELSE k
  BY DEF Run
<1>3. StageInv(r)
  <2> HIDE DEF r
  <2>1. r.io = j.io /\ r.canStart = j.canStart
    BY <1>1 DEF Quiet
  <2>2. QED
    BY <1>1, <2>1 DEF StageInv
<1>4. Good(j, r)
  BY <1>3, StageGood DEF Status, Idle
<1>5. NodeInv(r)
  BY <1>4 DEF Good
<1> HIDE DEF r
<1>6. Calm(r, k)
  <2>1. Calm(r, r)
    BY <1>1 DEF Calm, Quiet
  <2>2. Calm(r, Signal(r, "KILL", shorter))
    BY <1>1, CalmSignal
  <2>3. QED
    BY <2>1, <2>2
<1> HIDE DEF k
<1>7. Good(r, k) /\ k \in JobType /\ k.status \in {"Running", "Cleanup"}
  BY <1>1, <1>3, <1>5, <1>6, CalmGood DEF Calm
<1>8. NodeInv(k) /\ StageInv(k)
  BY <1>7 DEF Good
<1>9. Good(k, End(k))
  BY <1>7, <1>8, EndGood
<1>10. QED
  BY <1>2, <1>4, <1>7, <1>9, GoodTrans

\* Transition::loaded: the client may start the job, or has gone.
LEMMA LoadedGood ==
    ASSUME NEW j \in JobType, NodeInv(j), StageInv(j), j.status = "Loading",
           \A n \in j.io : {"setup", "loaded"} \subseteq j.node[n]
    PROVE  Good(j, Loaded(j))
<1> DEFINE c == SetStatus(j, "ClientStarting")
           e == SetError(c, "job_failed_to_start")
           s == c.canStart \/ j.attached
           a == [c EXCEPT !.canStart = s]
<1>1. /\ c \in JobType /\ Quiet(j, c) /\ c.status = "ClientStarting" /\ c.node = j.node
  BY SetStatusFacts, ZenonT(30) DEF Status
<1>2. Loaded(j) = IF j.disconnected THEN End(e) ELSE a
  BY DEF Loaded
<1>3. \A n \in c.io : {"setup", "loaded"} \subseteq c.node[n]
  <2> HIDE DEF c
  <2>1. c.io = j.io
    BY <1>1 DEF Quiet
  <2>2. QED
    BY <1>1, <2>1
<1>4. StageInv(c)
  <2> HIDE DEF c
  <2>1. QED
    BY <1>1, <1>3 DEF StageInv
<1>5. Good(j, c)
  BY <1>4, StageGood DEF Status, Idle
<1>6. NodeInv(c)
  BY <1>5 DEF Good
<1>7. s \in BOOLEAN
  BY <1>1 DEF JobType
<1> HIDE DEF c, s
<1>8. Good(c, End(e))
  <2>1. Calm(c, e) /\ e.status = c.status
    BY <1>1, CalmSetError DEF Error
  <2> HIDE DEF e
  <2>2. Calm(e, End(e))
    BY <1>1, <2>1, CalmEnd DEF Calm
  <2>3. Calm(c, End(e))
    BY <2>1, <2>2, CalmTrans
  <2>4. QED
    BY <1>1, <1>4, <1>6, <2>3, CalmGood
<1>9. Good(c, a)
  <2>1. /\ a \in JobType /\ a.status = "ClientStarting" /\ a.io = c.io /\ a.node = c.node
        /\ a.pending = c.pending /\ a.error = c.error /\ a.remove = c.remove
        /\ a.unavailable = c.unavailable
    BY <1>1, <1>7, ZenonT(30) DEF JobType
  <2> HIDE DEF a
  <2>2. NodeInv(a)
    BY <1>6, <2>1 DEF NodeInv
  <2>3. StageInv(a)
    BY <1>3, <2>1 DEF StageInv
  <2>4. QED
    BY <1>1, <2>1, <2>2, <2>3 DEF Good, Idle, Void, Cleaned, Leaving
<1>10. QED
  BY <1>2, <1>5, <1>8, <1>9, GoodTrans

\* Handle::transition
LEMMA TransitionGood ==
    ASSUME NEW j \in JobType, NodeInv(j), StageInv(j), NEW shorter
    PROVE  Good(j, Transition(j, shorter))
<1> DEFINE t == Transition(j, shorter)
<1>0. Good(j, j)
  BY DEF Good
<1>1. CASE ~Ready(j)
  BY <1>0, <1>1 DEF Transition
<1>2. CASE /\ Ready(j) /\ j.error # "none"
           /\ j.status \in {"Setup", "Loading", "OutputStarting", "ControlStarting"}
  <2>1. t = End(j)
    BY <1>2 DEF Transition
  <2>2. QED
    BY <1>2, <2>1, EndGood
<1>3. CASE Ready(j) /\ j.status = "Setup" /\ j.error = "none"
  <2>1. t = Load(j)
    BY <1>3 DEF Transition
  <2>2. \A n \in j.io : "setup" \in j.node[n]
    BY <1>3, ReadyFacts
  <2>3. StageInv(SetStatus(j, "Loading"))
    BY <1>3, <2>2, ZenonT(30) DEF StageInv, SetStatus, JobType
  <2>4. Good(j, Load(j))
    BY <1>3, <2>3, StageWriteGood DEF Load, Status, Request, Idle
  <2>5. QED
    BY <2>1, <2>4
<1>4. CASE Ready(j) /\ j.status = "Loading" /\ j.error = "none"
  <2>1. t = Loaded(j)
    BY <1>4 DEF Transition
  <2>2. \A n \in j.io : {"setup", "loaded"} \subseteq j.node[n]
    BY <1>4, ReadyFacts
  <2>3. QED
    BY <1>4, <2>1, <2>2, LoadedGood
<1>5. CASE Ready(j) /\ j.status = "OutputStarting" /\ j.error = "none"
  <2> DEFINE k == SetStatus(j, "ControlStarting")
  <2>1. t = Write(k, j.io, "StartJob")
    BY <1>5 DEF Transition, StartControl
  <2>2. \A n \in j.io : {"Setup", "setup", "output_started"} \subseteq j.node[n]
    BY <1>5, ReadyFacts
  <2>3. StageInv(k)
    BY <1>5, <2>2 DEF StageInv, SetStatus, JobType
  <2>4. Good(j, k)
    BY <1>5, <2>3, StageGood DEF Status, Idle
  <2>5. k \in JobType /\ NodeInv(k) /\ k.node = j.node /\ k.io = j.io
    BY <2>4, SetStatusFacts DEF Good, Status, Quiet
  <2> HIDE DEF k
  <2>6. Good(k, Write(k, k.io, "StartJob"))
    BY <2>2, <2>3, <2>5, StartJobGood
  <2>7. QED
    BY <2>1, <2>4, <2>5, <2>6, GoodTrans
<1>6. CASE Ready(j) /\ j.status = "ControlStarting" /\ j.error = "none"
  <2>1. t = Run(j, shorter)
    BY <1>6 DEF Transition
  <2>2. \A n \in j.io : "Running" \in j.node[n]
    BY <1>6, ReadyFacts
  <2>3. QED
    BY <1>6, <2>1, <2>2, RunGood
<1>7. CASE Ready(j) /\ j.status = "Running"
  <2>1. t = End(j)
    BY <1>7 DEF Transition
  <2>2. QED
    BY <1>7, <2>1, EndGood
<1>8. CASE Ready(j) /\ j.status = "Cleanup"
  <2>1. t = Remove(j)
    BY <1>8 DEF Transition
  <2>2. Cleaned(j)
    BY <1>8, ReadyFacts DEF Cleaned
  <2>3. ~Idle(j)
    BY <1>8 DEF Idle
  <2>4. QED
    BY <2>1, <2>2, <2>3, RemoveGood
<1>9. CASE Ready(j) /\ j.status \in {"Invalid", "ClientStarting", "Debug", "Terminating"}
  <2>1. t = j
    BY <1>9 DEF Transition
  <2>2. QED
    BY <1>0, <2>1
<1>10. QED
  <2>1. j.status \in Status
    BY DEF JobType
  <2>2. QED
    BY <1>1, <1>2, <1>3, <1>4, <1>5, <1>6, <1>7, <1>8, <1>9, <2>1 DEF Status

-----------------------------------------------------------------------------
(* Every step preserves the invariant.                                     *)

\* A good step that neither reopens CheckIoLinks nor empties the container
LEMMA StepInv ==
    ASSUME JobInv, Good(job, job'), TypeOK',
           check' # "done" => check # "done", inJobs' = inJobs
    PROVE  JobInv'
<1>1. NodeInv(job') /\ StageInv(job')
  BY DEF Good
<1>2. CheckInv'
  BY DEF JobInv, CheckInv, Good, Idle
<1>3. ReleaseInv'
  <2>1. ReleaseInv /\ CheckInv
    BY DEF JobInv
  <2>2. ASSUME job'.remove \/ ~inJobs' \/ job'.status = "Terminating"
        PROVE  Cleaned(job')
    BY <2>1, <2>2 DEF ReleaseInv, Good, Leaving
  <2>3. ASSUME job'.remove \/ ~inJobs' \/ job'.status = "Terminating", check' # "done"
        PROVE  job'.io = {} \/ job'.unavailable
    BY <2>1, <2>3 DEF ReleaseInv, CheckInv, Good, Leaving, Idle, Void
  <2>4. QED
    BY <2>2, <2>3 DEF ReleaseInv
<1>4. QED
  BY <1>1, <1>2, <1>3 DEF JobInv

\* Handlers that run on the job's strand and touch nothing else
LEMMA HandledInv ==
    ASSUME JobInv, NEW j, Good(job, j), Handled(j)
    PROVE  JobInv'
<1>1. job' = j /\ UNCHANGED <<link, mux, clients, posted, setConn, inJobs, final, check>>
  BY DEF Handled, JobStep
<1>2. TypeOK'
  BY <1>1, ZenonT(30) DEF JobInv, TypeOK, Good
<1>3. QED
  BY <1>1, <1>2, StepInv

\* An answer is taken from the pending ones.
LEMMA TakenFacts ==
    ASSUME job \in JobType, NEW n \in IoNodes, NEW r \in Request, job.pending[n][r] > 0
    PROVE  /\ Calm(job, Taken(n, r)) /\ Taken(n, r).status = job.status
           /\ Taken(n, r).node = job.node /\ Taken(n, r).error = job.error
<1> DEFINE p == [job.pending EXCEPT ![n][r] = @ - 1]
           t == [job EXCEPT !.pending = p]
<1>1. job.pending \in [IoNodes -> [Request -> 0 .. MaxPending]]
  BY DEF JobType
<1>2. p \in [IoNodes -> [Request -> 0 .. MaxPending]]
  BY <1>1, MaxPendingAssumption
<1>3. \A m \in IoNodes, q \in Request : p[m][q] > 0 => job.pending[m][q] > 0
  BY <1>1, MaxPendingAssumption
<1>4. Taken(n, r) = t
  BY DEF Taken
<1> HIDE DEF p
<1>5. /\ t \in JobType /\ t.pending = p /\ t.io = job.io /\ t.canStart = job.canStart
      /\ t.unavailable = job.unavailable /\ t.error = job.error /\ t.node = job.node
      /\ t.status = job.status /\ t.remove = job.remove
  BY <1>2, ZenonT(30) DEF JobType
<1> HIDE DEF t
<1>6. Quiet(job, t)
  BY <1>3, <1>5 DEF Quiet, Request
<1>7. QED
  BY <1>4, <1>5, <1>6 DEF Calm

\* A message whose report is good is followed by Handle::transition.
LEMMA ReportInv ==
    ASSUME JobInv, NEW t, Calm(job, t), NEW k, Good(t, k), NEW shorter,
           Handled(Transition(k, shorter))
    PROVE  JobInv'
<1>1. job \in JobType /\ NodeInv(job) /\ StageInv(job)
  BY DEF JobInv, TypeOK
<1>2. Good(job, t)
  BY <1>1, CalmGood
<1>3. k \in JobType /\ NodeInv(k) /\ StageInv(k)
  BY DEF Good
<1>4. Good(k, Transition(k, shorter))
  BY <1>3, TransitionGood
<1>5. Good(job, Transition(k, shorter))
  BY <1>2, <1>4, GoodTrans
<1>6. QED
  BY <1>5, HandledInv

\* What a message finds: the job of the invariant and a node it uses.
LEMMA AnswerFacts ==
    ASSUME JobInv, NEW n, NEW r \in Request, Answers(n, r)
    PROVE  /\ job \in JobType /\ n \in IoNodes
           /\ Calm(job, Taken(n, r)) /\ Taken(n, r) \in JobType
           /\ NodeInv(Taken(n, r)) /\ StageInv(Taken(n, r))
           /\ Taken(n, r).node = job.node /\ Taken(n, r).error = job.error
           /\ r \in {"SetupJob", "StartJob"} => "Setup" \in job.node[n]
<1>1. job \in JobType /\ NodeInv(job) /\ StageInv(job)
  BY DEF JobInv, TypeOK
<1>2. n \in IoNodes /\ job.pending[n][r] > 0
  BY <1>1 DEF Answers, Connected, JobType
<1> DEFINE t == Taken(n, r)
<1>3. Calm(job, t) /\ t.node = job.node /\ t.error = job.error
  BY <1>1, <1>2, TakenFacts
<1>4. r \in {"SetupJob", "StartJob"} => "Setup" \in job.node[n]
  BY <1>1, <1>2 DEF NodeInv
<1> HIDE DEF t
<1>5. Good(job, t)
  BY <1>1, <1>3, CalmGood
<1>6. t \in JobType /\ NodeInv(t) /\ StageInv(t)
  BY <1>5 DEF Good
<1>7. QED
  BY <1>1, <1>2, <1>3, <1>4, <1>6 DEF t

\* IoNode::handleControl and handleData
LEMMA ReportsInv ==
    ASSUME JobInv, NEW n \in IoNodes, NEW ok, NEW shorter,
           \/ SetupJobAck(n, ok, shorter) \/ LoadJobAck(n, ok, shorter)
           \/ StdioStartJobAck(n, ok, shorter) \/ StartJobAck(n, ok, shorter)
    PROVE  JobInv'
<1>0. /\ \A f \in {"setup", "loaded", "output_started", "Running"} :
             f \in (Requested \cup Reported) \ {"Setup", "error"}
      /\ "job_failed_to_start" \in Error \ {"none"}
  BY DEF Requested, Reported, Error
<1>1. CASE SetupJobAck(n, ok, shorter)
  <2> DEFINE t == Taken(n, "SetupJob")
             k == IF ok THEN SetFlag(t, {n}, "setup") ELSE Failure(t, n, "job_failed_to_start")
  <2>1. Handled(Transition(k, shorter)) /\ Answers(n, "SetupJob")
    BY <1>1 DEF SetupJobAck
  <2>2. /\ Calm(job, t) /\ t \in JobType /\ NodeInv(t) /\ StageInv(t)
        /\ "Setup" \in t.node[n]
    BY <2>1, AnswerFacts DEF Request
  <2> HIDE DEF t
  <2>3. Good(t, SetFlag(t, {n}, "setup"))
    BY <1>0, <2>2, FlagGood
  <2>4. Good(t, Failure(t, n, "job_failed_to_start"))
    BY <1>0, <2>2, FailureGood
  <2>5. Good(t, k)
    BY <2>3, <2>4
  <2> HIDE DEF k
  <2>6. QED
    BY <2>1, <2>2, <2>5, ReportInv
<1>2. CASE LoadJobAck(n, ok, shorter)
  <2> DEFINE t == Taken(n, "LoadJob")
             k == IF ok THEN SetFlag(t, {n}, "loaded") ELSE Failure(t, n, "job_failed_to_start")
  <2>1. Handled(Transition(k, shorter)) /\ Answers(n, "LoadJob")
    BY <1>2 DEF LoadJobAck
  <2>2. Calm(job, t) /\ t \in JobType /\ NodeInv(t) /\ StageInv(t)
    BY <2>1, AnswerFacts DEF Request
  <2> HIDE DEF t
  <2>3. Good(t, SetFlag(t, {n}, "loaded"))
    BY <1>0, <2>2, FlagGood
  <2>4. Good(t, Failure(t, n, "job_failed_to_start"))
    BY <1>0, <2>2, FailureGood
  <2>5. Good(t, k)
    BY <2>3, <2>4
  <2> HIDE DEF k
  <2>6. QED
    BY <2>1, <2>2, <2>5, ReportInv
<1>3. CASE StdioStartJobAck(n, ok, shorter)
  <2> DEFINE t == Taken(n, "StartStdio")
             k == IF ok THEN SetFlag(t, {n}, "output_started") ELSE StartFailure(t, n)
  <2>1. Handled(Transition(k, shorter)) /\ Answers(n, "StartStdio")
    BY <1>3 DEF StdioStartJobAck
  <2>2. Calm(job, t) /\ t \in JobType /\ NodeInv(t) /\ StageInv(t)
    BY <2>1, AnswerFacts DEF Request
  <2> HIDE DEF t
  <2>3. Good(t, SetFlag(t, {n}, "output_started"))
    BY <1>0, <2>2, FlagGood
  <2>4. Good(t, StartFailure(t, n))
    BY <2>2, StartFailureGood
  <2>5. Good(t, k)
    BY <2>3, <2>4
  <2> HIDE DEF k
  <2>6. QED
    BY <2>1, <2>2, <2>5, ReportInv
<1>4. CASE StartJobAck(n, ok, shorter)
  <2> DEFINE t == Taken(n, "StartJob")
             k == IF ok THEN SetFlag(t, {n}, "Running") ELSE StartFailure(t, n)
  <2>1. Handled(Transition(k, shorter)) /\ Answers(n, "StartJob")
    BY <1>4 DEF StartJobAck
  <2>2. /\ Calm(job, t) /\ t \in JobType /\ NodeInv(t) /\ StageInv(t)
        /\ "Setup" \in t.node[n]
    BY <2>1, AnswerFacts DEF Request
  <2> HIDE DEF t
  <2>3. Good(t, SetFlag(t, {n}, "Running"))
    BY <1>0, <2>2, FlagGood
  <2>4. Good(t, StartFailure(t, n))
    BY <2>2, StartFailureGood
  <2>5. Good(t, k)
    BY <2>3, <2>4
  <2> HIDE DEF k
  <2>6. QED
    BY <2>1, <2>2, <2>5, ReportInv
<1>5. QED
  BY <1>1, <1>2, <1>3, <1>4

\* CleanupJobAck: whatever the return codes, the node has ended.
LEMMA CleanupJobAckInv ==
    ASSUME JobInv, NEW n \in IoNodes, NEW ok, NEW epilog, NEW shorter,
           CleanupJobAck(n, ok, epilog, shorter)
    PROVE  JobInv'
<1> DEFINE t == Taken(n, "CleanupJob")
           e == IF epilog \/ t.error # "none" THEN t ELSE SetError(t, "job_failed_to_cleanup")
           c == IF ok THEN e ELSE Failure(e, n, "job_failed_to_cleanup")
           k == SetFlag(c, {n}, "ended")
<1>1. Handled(Transition(k, shorter)) /\ Answers(n, "CleanupJob")
  BY DEF CleanupJobAck
<1>2. Calm(job, t) /\ t \in JobType /\ NodeInv(t) /\ StageInv(t)
  BY <1>1, AnswerFacts DEF Request
<1> HIDE DEF t
<1>3. Good(t, t)
  BY <1>2 DEF Good
<1>4. Good(t, SetError(t, "job_failed_to_cleanup"))
  BY <1>2, CalmSetError, CalmGood DEF Error
<1>5. Good(t, e)
  BY <1>3, <1>4
<1>6. e \in JobType /\ NodeInv(e) /\ StageInv(e)
  BY <1>5 DEF Good
<1> HIDE DEF e
<1>7. Good(e, e)
  BY <1>6 DEF Good
<1>8. Good(e, Failure(e, n, "job_failed_to_cleanup"))
  BY <1>6, FailureGood DEF Error
<1>9. Good(e, c)
  BY <1>7, <1>8
<1>10. c \in JobType /\ NodeInv(c) /\ StageInv(c)
  BY <1>9 DEF Good
<1> HIDE DEF c
<1>11. Good(c, k)
  <2>1. "ended" \in (Requested \cup Reported) \ {"Setup", "error"}
    BY DEF Reported
  <2>2. QED
    BY <1>10, <2>1, FlagGood
<1> HIDE DEF k
<1>12. QED
  BY <1>1, <1>2, <1>5, <1>9, <1>11, GoodTrans, ReportInv

\* Handle::transition for a SignalJobAck is calm.
LEMMA CalmSignalAcked ==
    ASSUME NEW j \in JobType, NEW shorter
    PROVE  Calm(j, SignalAcked(j, shorter))
<1> DEFINE a == [j EXCEPT !.outstanding = "none"]
<1>1. Calm(j, j) /\ Calm(j, a) /\ a \in JobType
  BY DEF Calm, Quiet, JobType
<1>2. SignalAcked(j, shorter) \in {j, a, Signal(a, "KILL", shorter)}
  BY DEF SignalAcked
<1> HIDE DEF a
<1>3. Calm(j, Signal(a, "KILL", shorter))
  BY <1>1, CalmSignal, CalmTrans
<1>4. QED
  BY <1>1, <1>2, <1>3

\* SignalJobAck
LEMMA SignalJobAckInv ==
    ASSUME JobInv, NEW n \in IoNodes, NEW shorter, SignalJobAck(n, shorter)
    PROVE  JobInv'
<1> DEFINE t == Taken(n, "SignalJob")
           m == [t.node EXCEPT ![n] = @ \ {"signalInFlight"}]
           k == [t EXCEPT !.node = m]
<1>1. Handled(SignalAcked(k, shorter)) /\ Answers(n, "SignalJob")
  BY DEF SignalJobAck
<1>2. /\ Calm(job, t) /\ t \in JobType /\ job \in JobType
      /\ NodeInv(job) /\ StageInv(job)
  BY <1>1, AnswerFacts DEF Request, JobInv
<1> HIDE DEF t
<1>3. /\ m \in [IoNodes -> SUBSET (Requested \cup Reported)]
      /\ \A i \in IoNodes, g \in Watched : g \in m[i] <=> g \in t.node[i]
  <2>1. t.node \in [IoNodes -> SUBSET (Requested \cup Reported)]
    BY <1>2 DEF JobType
  <2>2. "signalInFlight" \notin Watched
    BY DEF Watched
  <2>3. QED
    BY <2>1, <2>2
<1> HIDE DEF m
<1>4. Calm(t, k)
  BY <1>2, <1>3, ZenonT(30) DEF Calm, Quiet, JobType
<1>5. k \in JobType
  BY <1>4 DEF Calm
<1> HIDE DEF k
<1>6. Calm(job, SignalAcked(k, shorter))
  BY <1>2, <1>4, <1>5, CalmSignalAcked, CalmTrans
<1>7. QED
  BY <1>1, <1>2, <1>6, CalmGood, HandledInv

\* What the invariant says of the job itself
LEMMA JobFacts ==
    ASSUME JobInv
    PROVE  /\ job \in JobType /\ NodeInv(job) /\ StageInv(job)
           /\ Good(job, job) /\ Calm(job, job)
BY DEF JobInv, TypeOK, Good, Calm, Quiet

\* What happens on the compute nodes is reported.
LEMMA RanksInv ==
    ASSUME JobInv, NEW n \in IoNodes, NEW shorter, Ranks(n, shorter)
    PROVE  JobInv'
<1>1. CASE ExitJob(n, shorter)
  <2>1. "exited" \in (Requested \cup Reported) \ {"Setup", "error"}
    BY DEF Reported
  <2>2. Good(job, SetFlag(job, {n}, "exited"))
    BY <2>1, JobFacts, FlagGood
  <2>3. Handled(Transition(SetFlag(job, {n}, "exited"), shorter))
    BY <1>1 DEF ExitJob
  <2>4. QED
    BY <2>2, <2>3, JobFacts, ReportInv
<1>2. CASE CloseStdio(n, shorter)
  <2>1. "drained" \in (Requested \cup Reported) \ {"Setup", "error"}
    BY DEF Reported
  <2>2. Good(job, SetFlag(job, {n}, "drained"))
    BY <2>1, JobFacts, FlagGood
  <2>3. Handled(Transition(SetFlag(job, {n}, "drained"), shorter))
    BY <1>2 DEF CloseStdio
  <2>4. QED
    BY <2>2, <2>3, JobFacts, ReportInv
<1>3. ASSUME NEW how, ExitProcess(n, how, shorter)
      PROVE  JobInv'
  <2> DEFINE k == CASE how = "exit1"  -> Signal(job, "TERM", shorter)
                    [] how = "signal" -> Signal(job, "KILL", shorter)
                    [] OTHER          -> job
  <2>1. Calm(job, Signal(job, "TERM", shorter)) /\ Calm(job, Signal(job, "KILL", shorter))
    BY JobFacts, CalmSignal
  <2>2. k \in {Signal(job, "TERM", shorter), Signal(job, "KILL", shorter), job}
    OBVIOUS
  <2>3. Handled(Transition(k, shorter))
    BY <1>3 DEF ExitProcess
  <2> HIDE DEF k
  <2>4. Calm(job, k)
    BY <2>1, <2>2, JobFacts
  <2>5. QED
    BY <2>3, <2>4, JobFacts, CalmGood, ReportInv
<1>4. QED
  BY <1>1, <1>2, <1>3 DEF Ranks

\* mux::StartJob: the request may find the job in any stage, but only after
\* the nodes were set up and loaded.
LEMMA StartJobInv ==
    ASSUME JobInv, StartJob
    PROVE  JobInv'
<1> DEFINE c == [job EXCEPT !.canStart = FALSE]
           s == SetStatus(c, "OutputStarting")
           w == Write(s, c.io, "StartStdio")
<1>1. Handled(w) /\ job.canStart
  BY DEF StartJob, StartOutput
<1>2. job \in JobType /\ NodeInv(job) /\ StageInv(job)
  BY JobFacts
<1>3. /\ c \in JobType /\ c.io = job.io /\ c.node = job.node /\ c.status = job.status
      /\ c.pending = job.pending /\ c.error = job.error /\ c.remove = job.remove
      /\ c.unavailable = job.unavailable /\ c.canStart = FALSE
  BY <1>2, ZenonT(30) DEF JobType
<1> HIDE DEF c
<1>4. \A n \in c.io : {"setup", "loaded"} \subseteq c.node[n]
  BY <1>1, <1>2, <1>3 DEF StageInv
<1>5. /\ s \in JobType /\ Quiet(c, s) /\ s.status = "OutputStarting" /\ s.node = c.node
      /\ s.remove = c.remove
  BY <1>3, SetStatusFacts, ZenonT(30) DEF Status
<1> HIDE DEF s
<1>6. NodeInv(c)
  BY <1>2, <1>3 DEF NodeInv
<1>7. NodeInv(s)
  BY <1>5, <1>6 DEF NodeInv, Quiet, Watched
<1>8. StageInv(s)
  BY <1>3, <1>4, <1>5 DEF StageInv, Quiet
<1>9. (Cleaned(c) => Cleaned(s)) /\ (Void(c) => Void(s))
  BY <1>3, <1>5, QuietRelease
<1>10. ~Idle(job)
  BY <1>1 DEF Idle
<1>11. Good(job, s)
  BY <1>3, <1>5, <1>7, <1>8, <1>9, <1>10 DEF Good, Cleaned, Void, Leaving
<1>12. c.io \in SUBSET IoNodes
  BY <1>3 DEF JobType
<1>13. Calm(s, w)
  BY <1>5, <1>12, CalmWrite DEF Request
<1> HIDE DEF w
<1>14. QED
  BY <1>1, <1>5, <1>7, <1>8, <1>11, <1>13, CalmGood, GoodTrans, HandledInv

\* job::Debug: a tool is started before the job, or could not be.
LEMMA DebugInv ==
    ASSUME JobInv, Debug \/ DebugFailed
    PROVE  JobInv'
<1>1. CASE Debug
  <2>1. Handled(SetStatus(job, "Debug")) /\ job.status = "ClientStarting"
    BY <1>1 DEF Debug
  <2>2. StageInv(SetStatus(job, "Debug"))
    BY <2>1, JobFacts, ZenonT(30) DEF StageInv, SetStatus, JobType
  <2>3. Good(job, SetStatus(job, "Debug"))
    BY <2>1, <2>2, JobFacts, StageGood DEF Status, Idle
  <2>4. QED
    BY <2>1, <2>3, HandledInv
<1>2. CASE DebugFailed
  <2> DEFINE e == SetError(job, "job_failed_to_start")
  <2>1. Handled(End(e)) /\ job.status = "Debug"
    BY <1>2 DEF DebugFailed
  <2>2. Calm(job, e) /\ e.status = job.status
    BY JobFacts, CalmSetError DEF Error
  <2> HIDE DEF e
  <2>3. Calm(e, End(e))
    BY <2>1, <2>2, CalmEnd DEF Calm
  <2>4. Good(job, End(e))
    BY <2>2, <2>3, CalmTrans, CalmGood, JobFacts
  <2>5. QED
    BY <2>1, <2>4, HandledInv
<1>3. QED
  BY <1>1, <1>2

\* Calm changes by handlers on other strands
LEMMA CalmInv ==
    ASSUME JobInv, Calm(job, job'), check' # "done" => check # "done", inJobs' = inJobs,
           check' \in {"links", "update", "ok", "failed", "done"},
           link' \in [IoNodes -> {"up", "eof", "gone", "down"}],
           mux' \in {"up", "closing", "down"}, clients' \in {"none", "placeholder", "job"},
           posted' \subseteq [sig : {"TERM", "KILL", "HWFAIL"}, disconnected : BOOLEAN],
           setConn' \in BOOLEAN, final' \in {"none", "ExitJob", "Result", "undelivered"}
    PROVE  JobInv'
<1>1. Good(job, job')
  BY JobFacts, CalmGood
<1>2. TypeOK'
  BY <1>1 DEF TypeOK, Good, JobInv
<1>3. QED
  BY <1>1, <1>2, StepInv

\* A signal posted to the job's strand is one of the known ones.
LEMMA PostedFacts ==
    ASSUME TypeOK, NEW sig \in {"TERM", "KILL", "HWFAIL"}, NEW d \in BOOLEAN,
           posted' = posted \cup {[sig |-> sig, disconnected |-> d]}
    PROVE  posted' \subseteq [sig : {"TERM", "KILL", "HWFAIL"}, disconnected : BOOLEAN]
<1>1. [sig |-> sig, disconnected |-> d]
         \in [sig : {"TERM", "KILL", "HWFAIL"}, disconnected : BOOLEAN]
  OBVIOUS
<1>2. posted \subseteq [sig : {"TERM", "KILL", "HWFAIL"}, disconnected : BOOLEAN]
  BY DEF TypeOK
<1>3. QED
  BY <1>1, <1>2

\* Signals are posted by kill_job, the client and the block's removal, and run.
LEMMA SignalsInv ==
    ASSUME JobInv,
           \/ \E sig \in Signals : KillJob(sig)
           \/ ClientKill("TERM", FALSE) \/ ClientKill("KILL", TRUE) \/ BlockEof
           \/ \E s \in posted, shorter \in BOOLEAN : RunSignal(s, shorter)
    PROVE  JobInv'
<1>0. TypeOK
  BY DEF JobInv
<1>1. ASSUME NEW sig \in Signals, KillJob(sig)
      PROVE  JobInv'
  <2>1. Calm(job, job')
    BY <1>1, JobFacts DEF KillJob
  <2>2. posted' \subseteq [sig : {"TERM", "KILL", "HWFAIL"}, disconnected : BOOLEAN]
    BY <1>0, <1>1, PostedFacts, SignalsAssumption, ZenonT(30) DEF KillJob, Post
  <2>3. QED
    BY <1>0, <1>1, <2>1, <2>2, CalmInv DEF KillJob, Post, TypeOK
<1>2. ASSUME NEW sig \in {"TERM", "KILL"}, NEW d \in BOOLEAN, ClientKill(sig, d)
      PROVE  JobInv'
  <2>1. Calm(job, job')
    BY <1>2, JobFacts DEF ClientKill
  <2>2. posted' \subseteq [sig : {"TERM", "KILL", "HWFAIL"}, disconnected : BOOLEAN]
    <3>1. sig \in {"TERM", "KILL", "HWFAIL"}
      OBVIOUS
    <3>2. posted' = posted \/ posted' = posted \cup {[sig |-> sig, disconnected |-> d]}
      BY <1>2 DEF ClientKill, Post
    <3>3. QED
      BY <1>0, <3>1, <3>2, PostedFacts DEF TypeOK
  <2>3. QED
    BY <1>0, <1>2, <2>1, <2>2, CalmInv DEF ClientKill, Post, TypeOK
<1>3. CASE BlockEof
  <2>1. Calm(job, job')
    BY <1>3, JobFacts, CalmSetError DEF BlockEof, Error
  <2>2. posted' \subseteq [sig : {"TERM", "KILL", "HWFAIL"}, disconnected : BOOLEAN]
    BY <1>0, <1>3, PostedFacts, ZenonT(30) DEF BlockEof, Post
  <2>3. QED
    BY <1>0, <1>3, <2>1, <2>2, CalmInv DEF BlockEof, Post, TypeOK
<1>4. ASSUME NEW s \in posted, NEW shorter \in BOOLEAN, RunSignal(s, shorter)
      PROVE  JobInv'
  <2> DEFINE d == [job EXCEPT !.disconnected = @ \/ s.disconnected]
  <2>1. job' = Signal(d, s.sig, shorter)
    BY <1>4 DEF RunSignal
  <2>2. s.sig \in {"TERM", "KILL", "HWFAIL"} /\ s.disconnected \in BOOLEAN
    BY <1>0 DEF TypeOK
  <2>3. Calm(job, d) /\ d \in JobType
    <3>1. (job.disconnected \/ s.disconnected) \in BOOLEAN
      BY JobFacts, <2>2 DEF JobType
    <3>2. QED
      BY <3>1, JobFacts, ZenonT(30) DEF Calm, Quiet, JobType
  <2> HIDE DEF d
  <2>4. Calm(job, job')
    BY <2>1, <2>2, <2>3, CalmSignal, CalmTrans
  <2>5. QED
    BY <1>0, <1>4, <2>4, CalmInv DEF RunSignal, TypeOK
<1>5. QED
  BY <1>1, <1>2, <1>3, <1>4, ZenonT(30)

\* The mux connection is lost and comes back.
LEMMA MuxInv ==
    ASSUME JobInv, MuxEof \/ MuxGone \/ MuxReconnect \/ SetConnection
    PROVE  JobInv'
<1>0. TypeOK /\ job \in JobType
  BY DEF JobInv, TypeOK
<1>1. CASE MuxEof
  <2>1. Calm(job, [job EXCEPT !.disconnected = TRUE])
    BY <1>0, ZenonT(30) DEF Calm, Quiet, JobType
  <2>2. Calm(job, job')
    BY <1>1, <2>1, JobFacts, ZenonT(30) DEF MuxEof
  <2>3. posted' \subseteq [sig : {"TERM", "KILL", "HWFAIL"}, disconnected : BOOLEAN]
    <3>1. \/ posted' = posted
          \/ posted' = posted \cup {[sig |-> "KILL", disconnected |-> FALSE]}
      BY <1>1 DEF MuxEof
    <3>2. QED
      BY <1>0, <3>1, PostedFacts, ZenonT(30) DEF TypeOK
  <2>4. QED
    BY <1>0, <1>1, <2>2, <2>3, CalmInv DEF MuxEof, TypeOK
<1>2. CASE MuxGone
  <2>1. Calm(job, job')
    BY <1>0, <1>2, ZenonT(30) DEF MuxGone, Calm, Quiet, JobType
  <2>2. QED
    BY <1>0, <1>2, <2>1, CalmInv, ZenonT(30) DEF MuxGone, TypeOK
<1>3. CASE MuxReconnect
  <2>1. Calm(job, job')
    BY <1>3, JobFacts DEF MuxReconnect
  <2>2. QED
    BY <1>0, <1>3, <2>1, CalmInv, ZenonT(30) DEF MuxReconnect, TypeOK
<1>4. CASE SetConnection
  <2> DEFINE r == job.remove \/ job.status = "Terminating"
             k == [job EXCEPT !.attached = TRUE, !.remove = r]
  <2>1. job' = k
    BY <1>4 DEF SetConnection
  <2>2. r \in BOOLEAN
    BY <1>0 DEF JobType
  <2> HIDE DEF r
  <2>3. k \in JobType /\ Quiet(job, k) /\ k.status = job.status /\ k.remove = r
    BY <1>0, <2>2, ZenonT(30) DEF Quiet, JobType
  <2> HIDE DEF k
  <2>4. NodeInv(k) /\ StageInv(k) /\ (Idle(job) => Idle(k))
    BY <2>3, JobFacts, QuietInv, QuietIdle
  <2>5. (Cleaned(job) => Cleaned(k)) /\ (Void(job) => Void(k))
    BY <1>0, <2>3, QuietRelease
  <2>6. Good(job, k)
    BY <2>3, <2>4, <2>5, ZenonT(30) DEF Good, Leaving, r
  <2>7. TypeOK'
    BY <1>0, <1>4, <2>1, <2>3, ZenonT(30) DEF SetConnection, TypeOK
  <2>8. QED
    BY <1>4, <2>1, <2>6, <2>7, StepInv DEF SetConnection
<1>5. QED
  BY <1>1, <1>2, <1>3, <1>4

\* EndOfFile::impl: a job that lost its last node is removed, any other killed.
LEMMA EndOfFileInv ==
    ASSUME JobInv, NEW n \in IoNodes, NEW shorter, EndOfFile(n, shorter)
    PROVE  JobInv'
<1> DEFINE i == job.io \ {n}
           d == [job EXCEPT !.io = i]
           e == SetError(d, "io_node_failure")
<1>0. TypeOK /\ job \in JobType /\ NodeInv(job) /\ StageInv(job)
  BY DEF JobInv, TypeOK
<1>1. i \in SUBSET IoNodes /\ i \subseteq job.io
  BY <1>0 DEF JobType
<1>2. job' \in {job, Signal(e, "KILL", shorter)} \/ (job' = Remove(e) /\ e.io = {})
  BY DEF EndOfFile
<1> HIDE DEF i
<1>3. /\ d \in JobType /\ d.io = i /\ d.node = job.node /\ d.pending = job.pending
      /\ d.error = job.error /\ d.status = job.status /\ d.canStart = job.canStart
      /\ d.remove = job.remove /\ d.unavailable = job.unavailable
  BY <1>0, <1>1 DEF JobType
<1> HIDE DEF d
<1>4. Good(job, d)
  <2>1. NodeInv(d)
    BY <1>0, <1>3 DEF NodeInv
  <2>2. StageInv(d)
    BY <1>0, <1>1, <1>3 DEF StageInv
  <2>3. (Cleaned(job) => Cleaned(d)) /\ (Void(job) => Void(d)) /\ (Idle(job) => Idle(d))
    BY <1>1, <1>3 DEF Cleaned, Void, Idle
  <2>4. QED
    BY <1>3, <2>1, <2>2, <2>3 DEF Good, Leaving
<1>5. Calm(d, e)
  BY <1>3, CalmSetError DEF Error
<1>6. Good(job, e) /\ e \in JobType /\ NodeInv(e) /\ StageInv(e)
  <2>1. Good(d, e)
    BY <1>3, <1>4, <1>5, CalmGood DEF Good
  <2>2. QED
    BY <1>4, <2>1, GoodTrans DEF Good
<1> HIDE DEF e
<1>7. e.io = {} => Good(job, Remove(e))
  <2>1. ASSUME e.io = {}
        PROVE  Cleaned(e) /\ Void(e)
    BY <2>1 DEF Cleaned, Void
  <2>2. QED
    BY <1>6, <2>1, RemoveGood, GoodTrans
<1>8. Good(job, Signal(e, "KILL", shorter))
  BY <1>6, CalmSignal, CalmGood, GoodTrans
<1>9. Good(job, job')
  BY <1>2, <1>7, <1>8, JobFacts
<1>10. TypeOK'
  BY <1>0, <1>9, ZenonT(30) DEF EndOfFile, TypeOK, Good
<1>11. QED
  BY <1>9, <1>10, StepInv DEF EndOfFile

\* KillTimer and Heartbeat: the nodes are marked before the job is removed.
LEMMA TimersInv ==
    ASSUME JobInv, NEW shorter,
           \/ KillTimerExpires \/ KillTimerHandler \/ HeartbeatHandler
           \/ \E n \in IoNodes : HeartbeatPulse(n, shorter)
    PROVE  JobInv'
<1>0. TypeOK /\ job \in JobType /\ NodeInv(job) /\ StageInv(job)
  BY DEF JobInv, TypeOK
<1>1. ASSUME NEW u, Calm(job, u), u.unavailable
      PROVE  Good(job, Remove(SetError(u, "kill_timeout")))
  <2> DEFINE e == SetError(u, "kill_timeout")
  <2>1. Calm(u, e) /\ e.unavailable
    BY <1>1, CalmSetError, ZenonT(30) DEF Error, Calm, Quiet
  <2> HIDE DEF e
  <2>2. Good(job, e) /\ e \in JobType /\ NodeInv(e) /\ StageInv(e)
    BY <1>0, <1>1, <2>1, CalmTrans, CalmGood DEF Good
  <2>3. Cleaned(e) /\ Void(e)
    BY <2>1 DEF Cleaned, Void
  <2>4. Good(job, Remove(e))
    BY <2>2, <2>3, RemoveGood, GoodTrans
  <2>5. QED
    BY <2>4 DEF e
<1>2. Good(job, HeartbeatTimeout)
  <2>1. LET u == [job EXCEPT !.unavailable = TRUE] IN Calm(job, u) /\ u.unavailable
    BY <1>0, ZenonT(30) DEF Calm, Quiet, JobType
  <2>2. QED
    BY <1>1, <2>1, ZenonT(30) DEF HeartbeatTimeout
<1>3. CASE KillTimerExpires
  <2> DEFINE t == [job EXCEPT !.timer = "expired"]
  <2>1. Calm(job, t)
    BY <1>0 DEF Calm, Quiet, JobType, Timer
  <2>2. Handled(t)
    BY <1>3 DEF KillTimerExpires
  <2>3. QED
    BY <1>0, <2>1, <2>2, CalmGood, HandledInv
<1>4. CASE KillTimerHandler
  <2> DEFINE u == [job EXCEPT !.timer = "done", !.unavailable = TRUE]
             r == Remove(SetError(u, "kill_timeout"))
             N == {n \in r.io : "Cleanup" \notin r.node[n]}
             w == Write(r, N, "CleanupJob")
  <2>1. Handled(w)
    BY <1>4 DEF KillTimerHandler
  <2>2. Calm(job, u) /\ u.unavailable
    BY <1>0, ZenonT(30) DEF Calm, Quiet, JobType, Timer
  <2> HIDE DEF u
  <2>3. Good(job, r)
    BY <1>1, <2>2
  <2> HIDE DEF r
  <2>4. r \in JobType /\ NodeInv(r) /\ StageInv(r)
    BY <2>3 DEF Good
  <2>5. N \in SUBSET IoNodes
    BY <2>4 DEF JobType
  <2> HIDE DEF N
  <2>6. Calm(r, w)
    BY <2>4, <2>5, CalmWrite DEF Request
  <2> HIDE DEF w
  <2>7. Good(job, w)
    BY <2>3, <2>4, <2>6, CalmGood, GoodTrans
  <2>8. QED
    BY <2>1, <2>7, HandledInv
<1>5. CASE HeartbeatHandler
  BY <1>2, <1>5, HandledInv DEF HeartbeatHandler
<1>6. ASSUME NEW n \in IoNodes, HeartbeatPulse(n, shorter)
      PROVE  JobInv'
  BY <1>2, <1>6, JobFacts, ReportInv DEF HeartbeatPulse
<1>7. QED
  BY <1>3, <1>4, <1>5, <1>6

\* A lost connection takes what was on its way with it.
LEMMA LinkLostInv ==
    ASSUME JobInv, NEW n \in IoNodes, NEW how, LinkLost(n, how)
    PROVE  JobInv'
<1> DEFINE p == [job.pending EXCEPT ![n] = [r \in Request |-> 0]]
           k == [job EXCEPT !.pending = p]
<1>0. TypeOK /\ job \in JobType
  BY DEF JobInv, TypeOK
<1>1. job.pending \in [IoNodes -> [Request -> 0 .. MaxPending]]
  BY <1>0 DEF JobType
<1>2. p \in [IoNodes -> [Request -> 0 .. MaxPending]]
  BY <1>1, MaxPendingAssumption
<1>3. \A m \in IoNodes, q \in Request : p[m][q] > 0 => job.pending[m][q] > 0
  BY <1>1
<1>4. job' = k
  BY DEF LinkLost
<1> HIDE DEF p
<1>5. Calm(job, k)
  BY <1>0, <1>2, <1>3, ZenonT(30) DEF Calm, Quiet, JobType, Request
<1> HIDE DEF k
<1>6. link' \in [IoNodes -> {"up", "eof", "gone", "down"}]
  BY <1>0 DEF LinkLost, TypeOK
<1>7. QED
  BY <1>0, <1>4, <1>5, <1>6, CalmInv DEF LinkLost, TypeOK

\* The job leaves the container only after Job::remove was called.
LEMMA ContainerInv ==
    ASSUME JobInv, ContainerRemove \/ Destroy
    PROVE  JobInv'
<1>0. TypeOK /\ job \in JobType /\ CheckInv /\ ReleaseInv
  BY DEF JobInv, TypeOK
<1>1. CASE ContainerRemove
  <2> DEFINE k == [job EXCEPT !.remove = FALSE]
  <2>1. job' = k /\ job.remove
    BY <1>1 DEF ContainerRemove
  <2>2. Quiet(job, k) /\ k \in JobType /\ k.status = job.status
    BY <1>0, ZenonT(30) DEF Quiet, JobType
  <2> HIDE DEF k
  <2>3. NodeInv(k) /\ StageInv(k) /\ (Idle(job) => Idle(k)) /\ Cleaned(k)
        /\ (Void(job) => Void(k))
    BY <1>0, <2>1, <2>2, JobFacts, QuietInv, QuietRelease, QuietIdle DEF ReleaseInv
  <2>4. CheckInv'
    BY <1>0, <1>1, <2>1, <2>3 DEF CheckInv, ContainerRemove, Idle
  <2>5. ReleaseInv'
    BY <1>0, <1>1, <2>1, <2>3, ZenonT(30) DEF ReleaseInv, ContainerRemove, Void
  <2>6. TypeOK'
    BY <1>0, <1>1, <2>1, <2>2, ZenonT(30) DEF TypeOK, ContainerRemove
  <2>7. QED
    BY <2>1, <2>3, <2>4, <2>5, <2>6 DEF JobInv
<1>2. CASE Destroy
  <2>1. Calm(job, job')
    BY <1>2, JobFacts DEF Destroy
  <2>2. QED
    BY <1>0, <1>2, <2>1, CalmInv DEF Destroy, TypeOK
<1>3. QED
  BY <1>1, <1>2

\* CheckIoLinks: a job that is given up was never set up anywhere, and one that
\* is set up is in the container, or has no node that others could use.
LEMMA CheckIoLinksInv ==
    ASSUME JobInv,
           \/ LinkNotConnected \/ LinksWithoutMux \/ LastLinkConnected
           \/ ClientUpdate \/ ClientUpdateFailed \/ SetupCreate
    PROVE  JobInv'
<1>0. /\ TypeOK /\ job \in JobType /\ CheckInv /\ ReleaseInv
      /\ NodeInv(job) /\ StageInv(job)
  BY DEF JobInv, TypeOK
<1>1. ASSUME NEW k, Quiet(job, k), k \in JobType, NodeInv(k), StageInv(k), check # "done",
             check' = "done", JobStep(Remove(SetError(k, "job_failed_to_start")))
      PROVE  JobInv'
  <2> DEFINE e == SetError(k, "job_failed_to_start")
             r == Remove(e)
  <2>1. Cleaned(job)
    BY <1>0, <1>1 DEF CheckInv, Cleaned, JobType
  <2>2. Quiet(k, e) /\ e \in JobType /\ e.status = k.status
    BY <1>1, SetErrorFacts DEF Error
  <2> HIDE DEF e
  <2>3. Quiet(e, r) /\ r \in JobType /\ r.status \in {e.status, "Terminating"}
    BY <2>2, RemoveFacts
  <2>4. job' = r /\ UNCHANGED <<link, mux, clients, posted, setConn, inJobs, final>>
    BY <1>1 DEF JobStep, e
  <2> HIDE DEF r
  <2>5. Quiet(job, r)
    BY <1>1, <2>2, <2>3, QuietTrans
  <2>6. NodeInv(r) /\ StageInv(r)
    <3>1. Quiet(k, r) /\ r.status \in {k.status, "Terminating"}
      BY <2>2, <2>3, QuietTrans
    <3>2. QED
      BY <1>1, <2>3, <3>1, QuietInv
  <2>7. Cleaned(r)
    BY <1>0, <2>1, <2>3, <2>5, QuietRelease
  <2>8. TypeOK'
    BY <1>0, <1>1, <2>3, <2>4 DEF TypeOK
  <2>9. QED
    BY <1>1, <2>4, <2>6, <2>7, <2>8 DEF JobInv, CheckInv, ReleaseInv
<1>2. CASE LinkNotConnected \/ ClientUpdateFailed
  BY <1>0, <1>1, <1>2, JobFacts DEF LinkNotConnected, ClientUpdateFailed, Calm
<1>3. CASE LinksWithoutMux \/ LastLinkConnected \/ ClientUpdate
  <2>1. Calm(job, job')
    BY <1>3, JobFacts DEF LinksWithoutMux, LastLinkConnected, ClientUpdate, JobStep
  <2>2. QED
    BY <1>0, <1>3, <2>1, CalmInv
       DEF LinksWithoutMux, LastLinkConnected, ClientUpdate, JobStep, TypeOK
<1>4. CASE SetupCreate
  <2> DEFINE s == SetStatus(job, "Setup")
             w == Write(s, job.io, "SetupJob")
  <2>1. /\ check = "ok" /\ check' = "done"
        /\ JobStep(w) \/ JobStep(Remove(SetError(s, "job_failed_to_start")))
    BY <1>4 DEF SetupCreate
  <2>2. /\ s \in JobType /\ Quiet(job, s) /\ s.status = "Setup" /\ s.remove = job.remove
        /\ s.node = job.node
    BY <1>0, SetStatusFacts, ZenonT(30) DEF Status
  <2>3. job.io \in SUBSET IoNodes
    BY <1>0 DEF JobType
  <2> HIDE DEF s
  <2>4. NodeInv(s) /\ StageInv(s)
    BY <1>0, <2>2, QuietInv
  <2>5. CASE JobStep(Remove(SetError(s, "job_failed_to_start")))
    BY <1>1, <2>1, <2>2, <2>4, <2>5
  <2>6. CASE JobStep(w)
    <3>1. Wrote(s, job.io, "SetupJob", w)
      BY <2>2, <2>3, WriteFacts DEF Request
    <3>2. job' = w /\ UNCHANGED <<link, mux, clients, posted, setConn, inJobs, final>>
      BY <2>6 DEF JobStep
    <3> HIDE DEF w
    <3>3. /\ w \in JobType /\ w.status = "Setup" /\ w.remove = job.remove /\ w.io = job.io
          /\ w.canStart = job.canStart /\ w.unavailable = s.unavailable /\ w.error = s.error
      BY <2>2, <3>1 DEF Wrote, Quiet
    <3>4. /\ \A n \in IoNodes, g \in Watched \ {"Setup"} : g \in w.node[n] <=> g \in s.node[n]
          /\ \A n \in IoNodes : "Setup" \in s.node[n] => "Setup" \in w.node[n]
          /\ \A n \in job.io : link[n] # "gone" => "Setup" \in w.node[n]
      <4>1. FlagOf["SetupJob"] = "Setup" /\ \A g \in Watched : g \in Requested \cup Reported
        BY DEF FlagOf, Watched, Requested, Reported
      <4>2. "Setup" \in Requested \cup Reported
        BY DEF Requested
      <4>3. QED
        BY <2>3, <3>1, <4>1, <4>2 DEF Wrote
    <3>5. \A n \in IoNodes, q \in {"SetupJob", "StartJob"} : w.pending[n][q] > 0 =>
             s.pending[n][q] > 0 \/ (n \in job.io /\ link[n] = "up")
      BY <3>1 DEF Wrote, Request
    <3>6. NodeInv(w)
      BY <2>4, <3>3, <3>4, <3>5 DEF NodeInv, Watched
    <3>7. ~job.canStart
      BY <1>0, <2>1 DEF CheckInv
    <3>8. StageInv(w)
      BY <3>3, <3>7 DEF StageInv
    <3>9. (job.remove \/ ~inJobs) => Cleaned(w)
      <4>1. (job.remove \/ ~inJobs) => job.io = {} \/ job.unavailable
        BY <1>0, <2>1 DEF ReleaseInv
      <4>2. job.unavailable => w.unavailable
        BY <2>2, <3>3 DEF Quiet
      <4>3. QED
        BY <3>3, <4>1, <4>2 DEF Cleaned
    <3>10. TypeOK'
      BY <1>0, <2>1, <3>2, <3>3 DEF TypeOK
    <3>11. QED
      BY <2>1, <3>2, <3>3, <3>6, <3>8, <3>9, <3>10 DEF JobInv, CheckInv, ReleaseInv
  <2>7. QED
    BY <2>1, <2>5, <2>6
<1>5. QED
  BY <1>2, <1>3, <1>4

-----------------------------------------------------------------------------
(* The theorems.                                                           *)

\* A job that was just submitted, and one found after a restart
LEMMA InitInv == Init => JobInv
<1> SUFFICES ASSUME Init PROVE JobInv
  OBVIOUS
<1>1. /\ link \in [IoNodes -> {"up", "eof", "gone", "down"}]
      /\ mux \in {"up", "closing", "down"} /\ clients \in {"none", "placeholder", "job"}
      /\ check \in {"links", "update", "ok", "failed", "done"}
  BY DEF Init, InitSubmitted, InitReconnected
<1>2. NewJob \in JobType
  <2>1. [n \in IoNodes |-> [r \in Request |-> 0]] \in [IoNodes -> [Request -> 0 .. MaxPending]]
    BY MaxPendingAssumption
  <2>2. QED
    BY <2>1 DEF NewJob, JobType, Status, Error, Timer
<1>3. CASE InitSubmitted
  <2>1. job = NewJob
    BY <1>3 DEF InitSubmitted
  <2>2. /\ job.status = "Invalid" /\ ~job.canStart /\ ~job.remove
        /\ \A n \in IoNodes : job.node[n] = {}
        /\ \A n \in IoNodes, r \in {"SetupJob", "StartJob"} : ~(job.pending[n][r] > 0)
    <3>1. /\ job.status = "Invalid" /\ ~job.canStart /\ ~job.remove
          /\ \A n \in IoNodes : job.node[n] = {}
      BY <2>1 DEF NewJob
    <3>2. \A n \in IoNodes, r \in {"SetupJob", "StartJob"} : job.pending[n][r] = 0
      BY <2>1 DEF NewJob, Request
    <3>3. QED
      BY <3>1, <3>2
  <2>3. TypeOK
    BY <1>1, <1>2, <2>1, ZenonT(30) DEF Init, TypeOK
  <2>4. NodeInv(job) /\ StageInv(job)
    BY <2>2 DEF NodeInv, StageInv
  <2>5. CheckInv /\ ReleaseInv
    BY <2>2 DEF Init, CheckInv, ReleaseInv
  <2>6. QED
    BY <2>3, <2>4, <2>5 DEF JobInv
<1>4. CASE InitReconnected
  <2> DEFINE m == [n \in IoNodes |-> {"Running", "drained"}]
             b == [NewJob EXCEPT !.node = m, !.attached = FALSE]
  <2>1. job = SetStatus(b, "Running") /\ check = "done"
    BY <1>4 DEF InitReconnected
  <2>2. m \in [IoNodes -> SUBSET (Requested \cup Reported)]
    BY DEF Requested, Reported
  <2>3. \A n \in IoNodes : m[n] = {"Running", "drained"}
    OBVIOUS
  <2> HIDE DEF m
  <2>4. /\ b \in JobType /\ b.node = m /\ b.pending = NewJob.pending /\ b.remove = FALSE
        /\ b.canStart = FALSE
    BY <1>2, <2>2, ZenonT(30) DEF NewJob, JobType
  <2> HIDE DEF b
  <2>5. /\ job \in JobType /\ job.node = m /\ job.status = "Running" /\ job.remove = FALSE
        /\ Quiet(b, job)
    BY <2>1, <2>4, SetStatusFacts DEF Status
  <2>6. \A n \in IoNodes, r \in {"SetupJob", "StartJob"} : ~(job.pending[n][r] > 0)
    <3>1. \A n \in IoNodes, r \in {"SetupJob", "StartJob"} : NewJob.pending[n][r] = 0
      BY DEF NewJob, Request
    <3>2. \A n \in IoNodes, r \in {"SetupJob", "StartJob"} : ~(b.pending[n][r] > 0)
      BY <2>4, <3>1
    <3>3. QED
      BY <2>5, <3>2 DEF Quiet
  <2>7. NodeInv(job)
    BY <2>3, <2>5, <2>6 DEF NodeInv
  <2>8. job.io \subseteq IoNodes /\ ~job.canStart
    BY <2>4, <2>5 DEF JobType, Quiet
  <2>9. StageInv(job)
    BY <2>3, <2>5, <2>8 DEF StageInv
  <2>10. QED
    BY <1>1, <2>1, <2>5, <2>7, <2>9, ZenonT(30) DEF Init, JobInv, TypeOK, CheckInv, ReleaseInv
<1>5. QED
  BY <1>3, <1>4 DEF Init

\* JobInv is inductive.
LEMMA NextInv == JobInv /\ [Next]_vars => JobInv'
<1> SUFFICES ASSUME JobInv, [Next]_vars PROVE JobInv'
  OBVIOUS
<1>1. CASE Environment
  BY <1>1, StartJobInv, SignalsInv, DebugInv, MuxInv, LinkLostInv, ZenonT(30) DEF Environment
<1>2. ASSUME NEW shorter \in BOOLEAN, Server(shorter)
      PROVE  JobInv'
  BY <1>2, CheckIoLinksInv, MuxInv, SignalsInv, EndOfFileInv, TimersInv, ContainerInv, ZenonT(30) DEF Server
<1>3. ASSUME NEW shorter \in BOOLEAN, NEW n \in IoNodes, Answer(n, shorter)
      PROVE  JobInv'
  BY <1>3, ReportsInv, CleanupJobAckInv, SignalJobAckInv DEF Answer
<1>4. ASSUME NEW shorter \in BOOLEAN, NEW n \in IoNodes, Ranks(n, shorter)
      PROVE  JobInv'
  BY <1>4, RanksInv
<1>5. CASE UNCHANGED vars
  <2>1. /\ UNCHANGED <<job, link, mux, clients, check>>
        /\ UNCHANGED <<posted, setConn, inJobs, final>>
    BY <1>5 DEF vars
  <2>2. TypeOK'
    BY <2>1, ZenonT(30) DEF JobInv, TypeOK
  <2>3. NodeInv(job') /\ StageInv(job') /\ CheckInv' /\ ReleaseInv'
    BY <2>1 DEF JobInv, CheckInv, ReleaseInv
  <2>4. QED
    BY <2>2, <2>3 DEF JobInv
<1>6. QED
  BY <1>1, <1>2, <1>3, <1>4, <1>5 DEF Next

\* The inductive invariant holds of every job, for every set of I/O nodes, every
\* choice of signals and events and every bound on unanswered requests.
THEOREM JobInvariant == Spec => []JobInv
BY InitInv, NextInv, PTL DEF Spec

\* Every variable keeps its type: in particular no answer is taken that no
\* request waits for (Handle::control, IoNode::handleControl).
THEOREM JobTypes == Spec => []TypeOK
<1>1. JobInv => TypeOK
  BY DEF JobInv
<1>2. QED
  BY <1>1, JobInvariant, PTL

\* No stage of a job starts before every I/O node has finished the one before
\* (Handle::transition, Transition::next).
THEOREM JobStageOrder == Spec => []StageOrder
<1>1. JobInv => StageOrder
  BY DEF JobInv, StageInv, StageOrder
<1>2. QED
  BY <1>1, JobInvariant, PTL

---------------------------------------------------------------------------
(* A job whose client left is always being killed (DisconnectedKilled).    *)

\* What no handler takes back: a kill timer that was started, a cleanup that was
\* asked for, a removal.  The I/O nodes and the client are as before.
Keeps(j, k) ==
    /\ k \in JobType
    /\ k.io = j.io /\ k.disconnected = j.disconnected
    /\ j.timer # "unset" => k.timer # "unset"
    /\ j.remove => k.remove
    /\ \A n \in IoNodes : "Cleanup" \in j.node[n] => "Cleanup" \in k.node[n]

\* Such handlers compose.
LEMMA KeepsTrans ==
    ASSUME NEW j, NEW k, NEW l, Keeps(j, k), Keeps(k, l)
    PROVE  Keeps(j, l)
BY DEF Keeps

\* Status::set
LEMMA KeepsSetStatus ==
    ASSUME NEW j \in JobType, NEW s \in Status
    PROVE  Keeps(j, SetStatus(j, s))
<1>1. SetStatus(j, s) \in JobType /\ SetStatus(j, s).node = j.node
      /\ SetStatus(j, s).timer = j.timer /\ SetStatus(j, s).remove = j.remove
  BY SetStatusFacts
<1>2. SetStatus(j, s).io = j.io /\ SetStatus(j, s).disconnected = j.disconnected
  BY DEF SetStatus, JobType
<1> QED
  BY <1>1, <1>2 DEF Keeps

\* Job::setError
LEMMA KeepsSetError ==
    ASSUME NEW j \in JobType, NEW e \in Error
    PROVE  Keeps(j, SetError(j, e)) /\ SetError(j, e).status = j.status
BY DEF SetError, JobType, Keeps

\* A flag of some nodes
LEMMA KeepsSetFlag ==
    ASSUME NEW j \in JobType, NEW N \in SUBSET IoNodes, NEW f \in Requested \cup Reported
    PROVE  Keeps(j, SetFlag(j, N, f)) /\ SetFlag(j, N, f).status = j.status
<1>1. Flagged(j, N, f, SetFlag(j, N, f))
  BY SetFlagFacts
<1>2. SetFlag(j, N, f).disconnected = j.disconnected
  BY DEF SetFlag, JobType
<1>3. "Cleanup" \in Requested \cup Reported
  BY DEF Requested
<1> QED
  BY <1>1, <1>2, <1>3 DEF Flagged, Keeps

\* A request to some nodes
LEMMA KeepsWrite ==
    ASSUME NEW j \in JobType, NEW N \in SUBSET IoNodes, NEW r \in Request
    PROVE  Keeps(j, Write(j, N, r)) /\ Write(j, N, r).status = j.status
<1>1. Wrote(j, N, r, Write(j, N, r))
  BY WriteFacts
<1>2. Write(j, N, r).disconnected = j.disconnected
  <2> DEFINE M == {n \in N : link[n] # "gone" \/ r = "StartStdio"}
             s == SetFlag(j, M, FlagOf[r])
  <2>1. M \in SUBSET IoNodes /\ FlagOf[r] \in Requested \cup Reported
    BY FlagOfFacts
  <2> HIDE DEF M
  <2>2. s \in JobType /\ s.disconnected = j.disconnected
    BY <2>1, KeepsSetFlag, Zenon DEF Keeps
  <2>3. \E p : Write(j, N, r) = [s EXCEPT !.pending = p]
    BY Zenon DEF Write, M
  <2> HIDE DEF s
  <2> QED
    BY <2>2, <2>3 DEF JobType
<1>3. "Cleanup" \in Requested \cup Reported
  BY DEF Requested
<1> QED
  BY <1>1, <1>2, <1>3 DEF Wrote, Keeps

\* Somebody will end the job: the kill timer was started, a node was told to clean
\* up, or a node's connection is gone and that will be noticed.
Secured(j) ==
    \/ j.timer # "unset"
    \/ \E n \in j.io : "Cleanup" \in j.node[n] \/ link[n] = "gone"

\* Transition::end tells every node that can be told.
LEMMA EndSecures ==
    ASSUME NEW j \in JobType
    PROVE  Keeps(j, End(j)) /\ (j.io # {} => Secured(End(j)))
<1> DEFINE s == SetStatus(j, "Cleanup")
           w == Write(s, j.io, "CleanupJob")
<1>1. Keeps(j, s)
  BY KeepsSetStatus DEF Status
<1>2. End(j) = w /\ j.io \in SUBSET IoNodes
  BY DEF End, JobType
<1>3. s \in JobType /\ "CleanupJob" \in Request
  BY <1>1 DEF Keeps, Request
<1> HIDE DEF s
<1>4. Keeps(s, w) /\ Wrote(s, j.io, "CleanupJob", w)
  BY <1>2, <1>3, KeepsWrite, WriteFacts
<1> HIDE DEF w
<1>5. \A n \in j.io : link[n] # "gone" => "Cleanup" \in w.node[n]
  <2>1. FlagOf["CleanupJob"] = "Cleanup" /\ "Cleanup" \in Requested \cup Reported
    BY DEF FlagOf, Requested
  <2> QED
    BY <1>2, <1>4, <2>1 DEF Wrote
<1>6. w.io = j.io
  BY <1>1, <1>4 DEF Keeps
<1> QED
  BY <1>1, <1>2, <1>4, <1>5, <1>6, KeepsTrans DEF Secured

\* Signal::startTimer
LEMMA KeepsStartTimer ==
    ASSUME NEW j \in JobType, NEW sig, NEW shorter
    PROVE  /\ Keeps(j, StartTimer(j, sig, shorter))
           /\ StartTimer(j, sig, shorter).status = j.status
           /\ sig = "KILL" => StartTimer(j, sig, shorter).timer # "unset"
<1> DEFINE t == IF sig = "KILL" /\ (j.timer = "unset" \/ (j.timer = "stopped" /\ shorter))
                THEN "armed" ELSE j.timer
           h == j.hbStarted \/ sig = "HWFAIL"
<1>1. t \in Timer /\ h \in BOOLEAN
  BY DEF JobType, Timer
<1>2. StartTimer(j, sig, shorter) = [j EXCEPT !.timer = t, !.hbStarted = h]
  BY DEF StartTimer
<1>3. (j.timer # "unset" => t # "unset") /\ (sig = "KILL" => t # "unset")
  OBVIOUS
<1> HIDE DEF t, h
<1> QED
  BY <1>1, <1>2, <1>3, Zenon DEF Keeps, JobType

\* Signal::impl: a KILL secures the end of a job that has I/O nodes.
LEMMA SignalSecures ==
    ASSUME NEW j \in JobType, NEW sig \in {"TERM", "KILL", "HWFAIL"}, NEW shorter
    PROVE  /\ Keeps(j, Signal(j, sig, shorter))
           /\ Signal(j, sig, shorter).status \in {j.status, "Cleanup"}
           /\ sig = "KILL" /\ (j.io = {} => j.status \notin {"ClientStarting", "Debug"})
                => Secured(Signal(j, sig, shorter))
<1>s. Signal(j, sig, shorter).status \in {j.status, "Cleanup"}
  BY CalmSignal DEF Calm
<1>1. CASE j.status \in {"ClientStarting", "Debug"}
  <2> DEFINE e == SetError(j, "job_failed_to_start")
  <2>1. Keeps(j, e)
    BY KeepsSetError DEF Error
  <2> HIDE DEF e
  <2>2. e \in JobType /\ e.io = j.io
    BY <2>1 DEF Keeps
  <2>3. Keeps(e, End(e)) /\ (j.io # {} => Secured(End(e)))
    BY <2>2, EndSecures
  <2>4. Signal(j, sig, shorter) = End(e)
    BY <1>1 DEF Signal, e
  <2> QED
    BY <1>1, <1>s, <2>1, <2>3, <2>4, KeepsTrans
<1>2. CASE /\ j.status \notin {"ClientStarting", "Debug"}
           /\ j.status # "Running" \/ j.outstanding # "none"
  BY <1>2, <1>s, KeepsStartTimer DEF Signal, Secured
<1>3. CASE j.status = "Running" /\ j.outstanding = "none"
  <2> DEFINE N == Targets(j, sig)
             m == Mark(j, N, sig)
             w == Write(m, N, "SignalJob")
             o == [w EXCEPT !.outstanding = IF N = {} THEN @ ELSE sig]
  <2>1. N \in SUBSET IoNodes
    BY DEF Targets, JobType
  <2>2. Signal(j, sig, shorter) = StartTimer(o, sig, shorter)
    BY <1>3 DEF Signal
  <2> HIDE DEF N
  <2>3. Keeps(j, m)
    <3>1. {"killed", "hardwareFailure"} \subseteq Requested \cup Reported /\ Keeps(j, j)
      BY DEF Reported, Keeps
    <3> QED
      BY <2>1, <3>1, KeepsSetFlag DEF Mark
  <2>4. m \in JobType
    BY <2>3 DEF Keeps
  <2> HIDE DEF m
  <2>5. Keeps(m, w)
    BY <2>1, <2>4, KeepsWrite DEF Request
  <2>6. w \in JobType
    BY <2>5 DEF Keeps
  <2> HIDE DEF w
  <2>7. Keeps(w, o)
    <3>1. (IF N = {} THEN w.outstanding ELSE sig) \in {"none", "TERM", "KILL", "HWFAIL"}
      BY <2>6 DEF JobType
    <3> QED
      BY <2>6, <3>1, Zenon DEF Keeps, JobType
  <2>8. o \in JobType
    BY <2>7 DEF Keeps
  <2> HIDE DEF o
  <2>9. /\ Keeps(o, StartTimer(o, sig, shorter))
        /\ sig = "KILL" => StartTimer(o, sig, shorter).timer # "unset"
    BY <2>8, KeepsStartTimer
  <2> QED
    BY <1>s, <2>2, <2>3, <2>5, <2>7, <2>9, KeepsTrans DEF Secured
<1> QED
  BY <1>1, <1>2, <1>3

\* Job::remove
LEMMA KeepsRemove ==
    ASSUME NEW j \in JobType
    PROVE  /\ Keeps(j, Remove(j))
           /\ Remove(j).remove \/ Remove(j).status = "Terminating"
           /\ j.attached \/ j.disconnected => Remove(j).remove
<1> DEFINE o == IF j.attached \/ j.disconnected
                THEN [j EXCEPT !.remove = TRUE] ELSE SetStatus(j, "Terminating")
           f == o.softwareFailure \/ j.error = "kill_timeout"
           t == IF o.timer = "armed" THEN "stopped" ELSE o.timer
<1>1. Keeps(j, o) /\ (j.attached \/ j.disconnected => o.remove)
  <2>1. CASE j.attached \/ j.disconnected
    BY <2>1, Zenon DEF JobType, Keeps
  <2>2. CASE ~(j.attached \/ j.disconnected)
    BY <2>2, KeepsSetStatus DEF Status
  <2> QED
    BY <2>1, <2>2
<1>2. Remove(j) = [o EXCEPT !.softwareFailure = f, !.timer = t, !.hbStopped = TRUE]
  BY DEF Remove
<1>3. o \in JobType
  BY <1>1 DEF Keeps
<1> HIDE DEF o
<1>4. f \in BOOLEAN /\ t \in Timer /\ (o.timer # "unset" => t # "unset")
  BY <1>3 DEF JobType, Timer
<1> HIDE DEF f, t
<1>5. Keeps(o, Remove(j)) /\ Remove(j).remove = o.remove
  <2>1. /\ Remove(j).io = o.io /\ Remove(j).disconnected = o.disconnected
        /\ Remove(j).timer = t /\ Remove(j).remove = o.remove /\ Remove(j).node = o.node
    BY <1>2, <1>3 DEF JobType
  <2>2. Remove(j) \in JobType
    BY RemoveFacts
  <2> QED
    BY <1>4, <2>1, <2>2 DEF Keeps
<1>6. Remove(j).remove \/ Remove(j).status = "Terminating"
  BY RemoveFacts DEF Leaving
<1> QED
  BY <1>1, <1>5, <1>6, KeepsTrans

\* Transition::run
LEMMA KeepsRun ==
    ASSUME NEW j \in JobType, NEW shorter
    PROVE  Keeps(j, Run(j, shorter))
<1> DEFINE r == SetStatus(j, "Running")
           k == IF j.timer = "unset" THEN r ELSE Signal(r, "KILL", shorter)
<1>1. Keeps(j, r)
  BY KeepsSetStatus DEF Status
<1>2. Run(j, shorter) = IF ~j.attached THEN r ELSE IF Ready(k) THEN End(k) ELSE k
  BY DEF Run
<1>3. r \in JobType
  BY <1>1 DEF Keeps
<1> HIDE DEF r
<1>4. Keeps(j, k)
  BY <1>1, <1>3, SignalSecures, KeepsTrans
<1>5. k \in JobType
  BY <1>4 DEF Keeps
<1> HIDE DEF k
<1> QED
  BY <1>1, <1>2, <1>4, <1>5, EndSecures, KeepsTrans

\* Transition::loaded
LEMMA KeepsLoaded ==
    ASSUME NEW j \in JobType
    PROVE  Keeps(j, Loaded(j))
<1> DEFINE c == SetStatus(j, "ClientStarting")
           e == SetError(c, "job_failed_to_start")
           s == c.canStart \/ j.attached
<1>1. Keeps(j, c)
  BY KeepsSetStatus DEF Status
<1>2. Loaded(j) = IF j.disconnected THEN End(e) ELSE [c EXCEPT !.canStart = s]
  BY DEF Loaded
<1>3. c \in JobType
  BY <1>1 DEF Keeps
<1> HIDE DEF c
<1>4. Keeps(c, e)
  BY <1>3, KeepsSetError DEF Error
<1>5. e \in JobType
  BY <1>4 DEF Keeps
<1>6. s \in BOOLEAN
  OBVIOUS
<1> HIDE DEF e, s
<1>7. Keeps(c, [c EXCEPT !.canStart = s])
  BY <1>3, <1>6 DEF Keeps, JobType
<1> QED
  BY <1>1, <1>2, <1>4, <1>5, <1>7, EndSecures, KeepsTrans

\* Load::create and Start::create: the next stage's request to every node
LEMMA KeepsStage ==
    ASSUME NEW j \in JobType, NEW s \in Status, NEW r \in Request
    PROVE  /\ Keeps(j, Write(SetStatus(j, s), j.io, r))
           /\ Write(SetStatus(j, s), j.io, r).status = s
<1> DEFINE k == SetStatus(j, s)
<1>1. Keeps(j, k) /\ k.status = s
  BY KeepsSetStatus, SetStatusFacts
<1>2. k \in JobType /\ j.io \in SUBSET IoNodes
  BY <1>1 DEF Keeps, JobType
<1> HIDE DEF k
<1>3. Keeps(k, Write(k, j.io, r)) /\ Write(k, j.io, r).status = s
  BY <1>1, <1>2, KeepsWrite
<1>4. Keeps(j, Write(k, j.io, r))
  BY <1>1, <1>3, KeepsTrans
<1> QED
  BY <1>3, <1>4 DEF k

\* Handle::transition
LEMMA KeepsTransition ==
    ASSUME NEW j \in JobType, NEW shorter
    PROVE  Keeps(j, Transition(j, shorter))
<1>1. Keeps(j, j) /\ Keeps(j, End(j)) /\ Keeps(j, Remove(j))
  BY EndSecures, KeepsRemove DEF Keeps
<1>2. Keeps(j, Load(j)) /\ Keeps(j, StartControl(j))
  BY KeepsStage DEF Load, StartControl, Status, Request
<1>3. Keeps(j, Loaded(j)) /\ Keeps(j, Run(j, shorter))
  BY KeepsLoaded, KeepsRun
<1> QED
  BY <1>1, <1>2, <1>3 DEF Transition

\* IoNode::setupFailure, loadFailure, cleanupFailure and startFailure
LEMMA KeepsFailure ==
    ASSUME NEW j \in JobType, NEW n \in IoNodes, NEW e \in Error
    PROVE  Keeps(j, Failure(j, n, e)) /\ Keeps(j, StartFailure(j, n))
<1>0. {n} \in SUBSET IoNodes /\ {"error", "killed"} \subseteq Requested \cup Reported
  BY DEF Reported
<1>1. ASSUME NEW x \in Error
      PROVE  Keeps(j, Failure(j, n, x))
  <2> DEFINE s == SetFlag(j, {n}, "error")
  <2>1. Keeps(j, s)
    BY <1>0, KeepsSetFlag
  <2>2. s \in JobType /\ Failure(j, n, x) = SetError(s, x)
    BY <2>1 DEF Keeps, Failure
  <2> HIDE DEF s
  <2> QED
    BY <2>1, <2>2, KeepsSetError, KeepsTrans
<1> DEFINE f == Failure(j, n, "job_failed_to_start")
           N == {m \in j.io : "Running" \in j.node[m] /\ "killed" \notin j.node[m]}
           s == SetFlag(f, N, "killed")
<1>2. Keeps(j, f)
  BY <1>1 DEF Error
<1>3. f \in JobType /\ N \in SUBSET IoNodes
  BY <1>2 DEF Keeps, JobType
<1>4. StartFailure(j, n) = Write(s, N, "SignalJob")
  BY DEF StartFailure
<1> HIDE DEF f, N
<1>5. Keeps(f, s)
  BY <1>0, <1>3, KeepsSetFlag
<1>6. s \in JobType
  BY <1>5 DEF Keeps
<1> HIDE DEF s
<1>7. Keeps(s, Write(s, N, "SignalJob"))
  BY <1>3, <1>6, KeepsWrite DEF Request
<1>8. Keeps(j, StartFailure(j, n))
  BY <1>2, <1>4, <1>5, <1>7, KeepsTrans
<1> QED
  BY <1>1, <1>8

\* Handle::transition for SignalJobAck
LEMMA KeepsSignalAcked ==
    ASSUME NEW j \in JobType, NEW shorter
    PROVE  Keeps(j, SignalAcked(j, shorter))
<1> DEFINE a == [j EXCEPT !.outstanding = "none"]
<1>1. Keeps(j, a) /\ Keeps(j, j)
  BY DEF Keeps, JobType
<1>2. a \in JobType
  BY <1>1 DEF Keeps
<1>3. SignalAcked(j, shorter) \in {j, a, Signal(a, "KILL", shorter)}
  BY DEF SignalAcked
<1> HIDE DEF a
<1> QED
  BY <1>1, <1>2, <1>3, SignalSecures, KeepsTrans

-----------------------------------------------------------------------------
(* One lemma for each group of handlers.                                   *)

\* A job without I/O nodes does not wait for its client (the last conjunct of
\* OrphanInv).
Unstarted(j) == ~j.remove /\ j.io = {} => j.status \notin {"ClientStarting", "Debug"}

\* Posted signals of a client that ended are KILLs.
PostedKills(P) == \A s \in P : s.disconnected => s.sig = "KILL"

\* A step that takes nothing back keeps OrphanInv.
LEMMA StepOrphan ==
    ASSUME JobInv, OrphanInv, Keeps(job, job'), inJobs' = inJobs,
           posted \subseteq posted', PostedKills(posted'),
           \A n \in job.io : link[n] = "gone" => link'[n] = "gone",
           \A n \in IoNodes : link[n] = "down" => link'[n] = "down",
           inJobs => Unstarted(job')
    PROVE  OrphanInv'
<1>1. DisconnectedKilled'
  <2> SUFFICES ASSUME inJobs', ~job'.remove, job'.disconnected
               PROVE  \/ \E s \in posted' : s.sig = "KILL"
                      \/ job'.timer # "unset"
                      \/ \E n \in job'.io : "Cleanup" \in job'.node[n] \/ link'[n] = "gone"
    BY DEF DisconnectedKilled
  <2>1. inJobs /\ ~job.remove /\ job.disconnected /\ job'.io = job.io
    BY DEF Keeps
  <2>2. \/ \E s \in posted : s.sig = "KILL"
        \/ job.timer # "unset"
        \/ \E n \in job.io : "Cleanup" \in job.node[n] \/ link[n] = "gone"
    BY <2>1 DEF OrphanInv, DisconnectedKilled
  <2>3. job.io \subseteq IoNodes
    BY DEF JobInv, TypeOK, JobType
  <2> QED
    BY <2>1, <2>2, <2>3 DEF Keeps
<1>2. LostNodes'
  BY DEF OrphanInv, LostNodes, Keeps
<1> QED
  BY <1>1, <1>2 DEF OrphanInv, PostedKills, Unstarted

\* A handler on the job's strand
LEMMA HandledOrphan ==
    ASSUME JobInv, OrphanInv, NEW j, JobStep(j), Keeps(job, j), inJobs => Unstarted(j)
    PROVE  OrphanInv'
<1>1. job' = j /\ UNCHANGED <<link, posted, inJobs>>
  BY DEF JobStep
<1>2. PostedKills(posted')
  BY <1>1 DEF OrphanInv, PostedKills
<1> QED
  BY <1>1, <1>2, StepOrphan

\* A message of an I/O node: the job has one.
LEMMA MessageOrphan ==
    ASSUME JobInv, OrphanInv, NEW n, n \in job.io, NEW j, Handled(j), Keeps(job, j)
    PROVE  OrphanInv'
<1>1. Unstarted(j) /\ JobStep(j)
  BY DEF Keeps, Unstarted, Handled
<1> QED
  BY <1>1, HandledOrphan

\* A message that ends in Handle::transition
LEMMA ReportOrphan ==
    ASSUME JobInv, OrphanInv, NEW n, n \in job.io, NEW k, Keeps(job, k), NEW shorter,
           Handled(Transition(k, shorter))
    PROVE  OrphanInv'
<1>1. k \in JobType
  BY DEF Keeps
<1>2. Keeps(job, Transition(k, shorter))
  BY <1>1, KeepsTransition, KeepsTrans
<1> QED
  BY <1>2, MessageOrphan

\* An answer is taken from the pending ones.
LEMMA KeepsTaken ==
    ASSUME JobInv, NEW n, NEW r \in Request, Answers(n, r)
    PROVE  Keeps(job, Taken(n, r)) /\ Taken(n, r) \in JobType /\ n \in job.io /\ n \in IoNodes
<1>1. job \in JobType /\ n \in IoNodes /\ Taken(n, r) \in JobType
      /\ Taken(n, r).node = job.node
  BY AnswerFacts
<1> DEFINE p == [job.pending EXCEPT ![n][r] = @ - 1]
<1>2. Taken(n, r) = [job EXCEPT !.pending = p]
  BY <1>1 DEF Taken, JobType
<1> HIDE DEF p
<1>3. Keeps(job, Taken(n, r))
  BY <1>1, <1>2, Zenon DEF Keeps, JobType
<1> QED
  BY <1>1, <1>3 DEF Answers, Connected

\* The acknowledgements of setup, load and the two starts
LEMMA ReportsOrphan ==
    ASSUME JobInv, OrphanInv, NEW n, NEW ok, NEW shorter,
           \/ SetupJobAck(n, ok, shorter) \/ LoadJobAck(n, ok, shorter)
           \/ StdioStartJobAck(n, ok, shorter) \/ StartJobAck(n, ok, shorter)
    PROVE  OrphanInv'
<1>1. PICK r \in Request, f \in Requested \cup Reported :
         /\ Answers(n, r)
         /\ LET t == Taken(n, r)
            IN  \E k \in {SetFlag(t, {n}, f), Failure(t, n, "job_failed_to_start"),
                          StartFailure(t, n)} : Handled(Transition(k, shorter))
  <2>1. /\ {"setup", "loaded", "output_started", "Running"} \subseteq Requested \cup Reported
        /\ {"SetupJob", "LoadJob", "StartStdio", "StartJob"} \subseteq Request
    BY DEF Requested, Reported, Request
  <2>2. CASE SetupJobAck(n, ok, shorter)
    BY <2>1, <2>2 DEF SetupJobAck
  <2>3. CASE LoadJobAck(n, ok, shorter)
    BY <2>1, <2>3 DEF LoadJobAck
  <2>4. CASE StdioStartJobAck(n, ok, shorter)
    BY <2>1, <2>4 DEF StdioStartJobAck
  <2>5. CASE StartJobAck(n, ok, shorter)
    BY <2>1, <2>5 DEF StartJobAck
  <2> QED
    BY <2>2, <2>3, <2>4, <2>5
<1> DEFINE t == Taken(n, r)
<1>2. Keeps(job, t) /\ t \in JobType /\ n \in job.io /\ n \in IoNodes /\ {n} \in SUBSET IoNodes
  BY <1>1, KeepsTaken, ZenonT(30)
<1>3. PICK k \in {SetFlag(t, {n}, f), Failure(t, n, "job_failed_to_start"),
                  StartFailure(t, n)} : Handled(Transition(k, shorter))
  BY <1>1
<1> HIDE DEF t
<1>4. Keeps(t, k)
  BY <1>2, KeepsSetFlag, KeepsFailure, ZenonT(30) DEF Error
<1> QED
  BY <1>2, <1>3, <1>4, KeepsTrans, ReportOrphan, ZenonT(30)

\* The acknowledgement of a cleanup
LEMMA CleanupOrphan ==
    ASSUME JobInv, OrphanInv, NEW n, NEW ok, NEW epilog, NEW shorter,
           CleanupJobAck(n, ok, epilog, shorter)
    PROVE  OrphanInv'
<1> DEFINE t == Taken(n, "CleanupJob")
           e == IF epilog \/ t.error # "none" THEN t ELSE SetError(t, "job_failed_to_cleanup")
           c == IF ok THEN e ELSE Failure(e, n, "job_failed_to_cleanup")
           k == SetFlag(c, {n}, "ended")
<1>1. Handled(Transition(k, shorter)) /\ Answers(n, "CleanupJob")
  BY DEF CleanupJobAck
<1>2. /\ Keeps(job, t) /\ t \in JobType /\ n \in job.io /\ n \in IoNodes
      /\ "job_failed_to_cleanup" \in Error
      /\ "ended" \in Requested \cup Reported /\ {n} \in SUBSET IoNodes
  BY <1>1, KeepsTaken, ZenonT(30) DEF Request, Error, Reported
<1> HIDE DEF t
<1>3. Keeps(job, e)
  BY <1>2, KeepsSetError, KeepsTrans, ZenonT(30)
<1>4. e \in JobType
  BY <1>3 DEF Keeps
<1> HIDE DEF e
<1>5. Keeps(job, c)
  BY <1>2, <1>3, <1>4, KeepsFailure, KeepsTrans
<1>6. c \in JobType
  BY <1>5 DEF Keeps
<1> HIDE DEF c
<1>7. Keeps(job, k)
  BY <1>2, <1>5, <1>6, KeepsSetFlag, KeepsTrans
<1> HIDE DEF k
<1> QED
  BY <1>1, <1>2, <1>7, ReportOrphan

\* The acknowledgement of a signal
LEMMA SignalAckOrphan ==
    ASSUME JobInv, OrphanInv, NEW n, NEW shorter, SignalJobAck(n, shorter)
    PROVE  OrphanInv'
<1> DEFINE t == Taken(n, "SignalJob")
           u == [t EXCEPT !.node[n] = @ \ {"signalInFlight"}]
<1>1. Handled(SignalAcked(u, shorter)) /\ Answers(n, "SignalJob")
  BY DEF SignalJobAck
<1>2. Keeps(job, t) /\ t \in JobType /\ n \in job.io /\ n \in IoNodes
  BY <1>1, KeepsTaken DEF Request
<1> HIDE DEF t
<1>3. Keeps(t, u)
  <2> DEFINE w == [t.node EXCEPT ![n] = @ \ {"signalInFlight"}]
  <2>1. t.node \in [IoNodes -> SUBSET (Requested \cup Reported)]
    BY <1>2 DEF JobType
  <2>2. w \in [IoNodes -> SUBSET (Requested \cup Reported)]
    BY <2>1, Zenon
  <2>3. \A m \in IoNodes : "Cleanup" \in t.node[m] => "Cleanup" \in w[m]
    BY <2>1
  <2>4. u = [t EXCEPT !.node = w]
    BY <1>2 DEF JobType
  <2> HIDE DEF w, u
  <2> QED
    BY <1>2, <2>2, <2>3, <2>4, Zenon DEF Keeps, JobType
<1>4. u \in JobType
  BY <1>3 DEF Keeps
<1> HIDE DEF u
<1>5. Keeps(job, SignalAcked(u, shorter))
  BY <1>2, <1>3, <1>4, KeepsSignalAcked, KeepsTrans
<1> QED
  BY <1>1, <1>2, <1>5, MessageOrphan, ZenonT(30)

\* What the ranks report
LEMMA RanksOrphan ==
    ASSUME JobInv, OrphanInv, NEW n, NEW shorter, Ranks(n, shorter)
    PROVE  OrphanInv'
<1>0. job \in JobType /\ {"exited", "drained"} \subseteq Requested \cup Reported
  BY DEF JobInv, TypeOK, Reported
<1>1. n \in job.io /\ n \in IoNodes /\ {n} \in SUBSET IoNodes
  BY <1>0 DEF Ranks, ExitJob, ExitProcess, CloseStdio, Connected, JobType
<1>2. PICK k : Handled(Transition(k, shorter)) /\ Keeps(job, k)
  <2>1. CASE ExitJob(n, shorter)
    BY <1>0, <1>1, <2>1, KeepsSetFlag DEF ExitJob
  <2>2. CASE CloseStdio(n, shorter)
    BY <1>0, <1>1, <2>2, KeepsSetFlag DEF CloseStdio
  <2>3. ASSUME NEW how \in {"exit0", "exit1", "signal"}, ExitProcess(n, how, shorter)
        PROVE  \E k : Handled(Transition(k, shorter)) /\ Keeps(job, k)
    <3>1. Keeps(job, job)
      BY <1>0 DEF Keeps
    <3>2. Keeps(job, Signal(job, "TERM", shorter))
      BY <1>0, SignalSecures
    <3>3. Keeps(job, Signal(job, "KILL", shorter))
      BY <1>0, SignalSecures
    <3> QED
      BY <2>3, <3>1, <3>2, <3>3 DEF ExitProcess
  <2> QED
    BY <2>1, <2>2, <2>3 DEF Ranks
<1> QED
  BY <1>1, <1>2, ReportOrphan

\* CheckIoLinks and Setup::create
LEMMA CheckOrphan ==
    ASSUME JobInv, OrphanInv,
           \/ LinkNotConnected \/ LinksWithoutMux \/ LastLinkConnected
           \/ ClientUpdate \/ ClientUpdateFailed \/ SetupCreate
    PROVE  OrphanInv'
<1>0. job \in JobType /\ "job_failed_to_start" \in Error /\ Keeps(job, job)
      /\ (inJobs => Unstarted(job))
  BY DEF JobInv, TypeOK, Error, Keeps, OrphanInv, Unstarted
<1>1. ASSUME NEW j \in JobType
      PROVE  /\ Keeps(j, Remove(SetError(j, "job_failed_to_start")))
             /\ Unstarted(Remove(SetError(j, "job_failed_to_start")))
  <2> DEFINE e == SetError(j, "job_failed_to_start")
  <2>1. Keeps(j, e)
    BY <1>0, KeepsSetError
  <2>2. e \in JobType
    BY <2>1 DEF Keeps
  <2> HIDE DEF e
  <2>3. Keeps(j, Remove(e)) /\ Unstarted(Remove(e))
    BY <2>1, <2>2, KeepsRemove, KeepsTrans DEF Unstarted
  <2> QED
    BY <2>3 DEF e
<1>2. CASE LinkNotConnected \/ ClientUpdateFailed
  BY <1>0, <1>1, <1>2, HandledOrphan DEF LinkNotConnected, ClientUpdateFailed
<1>3. CASE LinksWithoutMux \/ LastLinkConnected
  BY <1>0, <1>3, HandledOrphan DEF LinksWithoutMux, LastLinkConnected
<1>4. CASE ClientUpdate
  BY <1>4 DEF ClientUpdate, OrphanInv, DisconnectedKilled, LostNodes
<1>5. CASE SetupCreate
  <2> DEFINE s == SetStatus(job, "Setup")
             w == Write(s, job.io, "SetupJob")
  <2>1. Keeps(job, s) /\ s \in JobType
    BY <1>0, KeepsSetStatus DEF Status, Keeps
  <2>2. Keeps(job, w) /\ Unstarted(w)
    BY <1>0, KeepsStage DEF Status, Request, Unstarted
  <2>3. JobStep(w) \/ JobStep(Remove(SetError(s, "job_failed_to_start")))
    BY <1>5 DEF SetupCreate
  <2> HIDE DEF s, w
  <2>4. Keeps(job, Remove(SetError(s, "job_failed_to_start")))
    BY <1>1, <2>1, KeepsTrans
  <2> QED
    BY <1>1, <2>1, <2>2, <2>3, <2>4, HandledOrphan
<1> QED
  BY <1>2, <1>3, <1>4, <1>5

\* The client's start request and a tool that starts the job in the debugger
LEMMA StartOrphan ==
    ASSUME JobInv, OrphanInv, StartJob \/ Debug \/ DebugFailed
    PROVE  OrphanInv'
<1>0. job \in JobType
  BY DEF JobInv, TypeOK
<1>1. CASE StartJob
  <2> DEFINE c == [job EXCEPT !.canStart = FALSE]
  <2>1. Keeps(job, c)
    BY <1>0, Zenon DEF Keeps, JobType
  <2>2. c \in JobType
    BY <2>1 DEF Keeps
  <2>3. JobStep(StartOutput(c))
    BY <1>1 DEF StartJob, Handled
  <2> HIDE DEF c
  <2>4. Keeps(c, StartOutput(c)) /\ StartOutput(c).status = "OutputStarting"
    BY <2>2, KeepsStage DEF StartOutput, Status, Request
  <2> QED
    BY <2>1, <2>3, <2>4, KeepsTrans, HandledOrphan DEF Unstarted
<1>2. CASE Debug
  <2>1. Keeps(job, SetStatus(job, "Debug"))
    BY <1>0, KeepsSetStatus DEF Status
  <2>2. inJobs /\ job.status = "ClientStarting" /\ JobStep(SetStatus(job, "Debug"))
    BY <1>2 DEF Debug, Handled
  <2>3. Unstarted(SetStatus(job, "Debug"))
    BY <2>1, <2>2 DEF Keeps, Unstarted, OrphanInv
  <2> QED
    BY <2>1, <2>2, <2>3, HandledOrphan
<1>3. CASE DebugFailed
  <2> DEFINE e == SetError(job, "job_failed_to_start")
  <2>1. Keeps(job, e)
    BY <1>0, KeepsSetError DEF Error
  <2>2. e \in JobType /\ JobStep(End(e))
    BY <1>3, <2>1 DEF Keeps, DebugFailed, Handled
  <2> HIDE DEF e
  <2>3. Keeps(job, End(e)) /\ End(e).status = "Cleanup"
    BY <2>1, <2>2, EndSecures, EndFacts, KeepsTrans
  <2> QED
    BY <2>2, <2>3, HandledOrphan DEF Unstarted
<1> QED
  BY <1>1, <1>2, <1>3

\* Signals are posted: by kill_job, the client, or the end of the block.
LEMMA PostsOrphan ==
    ASSUME JobInv, OrphanInv,
           \/ \E sig \in Signals : KillJob(sig)
           \/ ClientKill("TERM", FALSE) \/ ClientKill("KILL", TRUE) \/ BlockEof
    PROVE  OrphanInv'
<1>0. job \in JobType /\ Keeps(job, job) /\ (inJobs => Unstarted(job)) /\ PostedKills(posted)
  BY DEF JobInv, TypeOK, Keeps, OrphanInv, Unstarted, PostedKills
<1>1. Keeps(job, job') /\ (inJobs => Unstarted(job')) /\ UNCHANGED <<link, inJobs>>
  <2>1. CASE BlockEof
    <3>1. job' = SetError(job, "block_invalid") /\ UNCHANGED <<link, inJobs>>
      BY <2>1 DEF BlockEof, Post
    <3>2. Keeps(job, job') /\ job'.status = job.status
      BY <1>0, <3>1, KeepsSetError DEF Error
    <3> QED
      BY <1>0, <3>1, <3>2 DEF Unstarted, Keeps
  <2>2. CASE ~BlockEof
    <3>1. UNCHANGED <<job, link, inJobs>>
      BY <2>2 DEF KillJob, ClientKill, Post
    <3> QED
      BY <1>0, <3>1
  <2> QED
    BY <2>1, <2>2
<1>2. posted \subseteq posted' /\ PostedKills(posted')
  <2>1. \/ posted' = posted
        \/ \E sig : posted' = posted \cup {[sig |-> sig, disconnected |-> FALSE]}
        \/ posted' = posted \cup {[sig |-> "KILL", disconnected |-> TRUE]}
    BY Zenon DEF KillJob, ClientKill, BlockEof, Post
  <2> QED
    BY <1>0, <2>1 DEF PostedKills
<1> QED
  BY <1>1, <1>2, StepOrphan, ZenonT(30)

\* A posted signal runs: a KILL secures the job's end before it is forgotten.
LEMMA RunSignalOrphan ==
    ASSUME JobInv, OrphanInv, NEW s \in posted, NEW shorter, RunSignal(s, shorter)
    PROVE  OrphanInv'
<1> DEFINE d == job.disconnected \/ s.disconnected
           j == [job EXCEPT !.disconnected = d]
           k == Signal(j, s.sig, shorter)
<1>0. job \in JobType /\ s \in [sig : {"TERM", "KILL", "HWFAIL"}, disconnected : BOOLEAN]
  BY DEF JobInv, TypeOK
<1>1. s.sig \in {"TERM", "KILL", "HWFAIL"} /\ d \in BOOLEAN
  BY <1>0 DEF JobType
<1>2. job' = k /\ posted' = posted \ {s} /\ UNCHANGED <<link, inJobs>>
  BY DEF RunSignal
<1> HIDE DEF d
<1>3. /\ j \in JobType /\ j.io = job.io /\ j.status = job.status /\ j.timer = job.timer
      /\ j.remove = job.remove /\ j.node = job.node /\ j.disconnected = d
  BY <1>0, <1>1 DEF JobType
<1> HIDE DEF j
<1>4. /\ Keeps(j, k) /\ k.status \in {job.status, "Cleanup"}
      /\ s.sig = "KILL" /\ (job.io = {} => job.status \notin {"ClientStarting", "Debug"})
           => Secured(k)
  BY <1>1, <1>3, SignalSecures
<1> HIDE DEF k
<1>5. inJobs => Unstarted(k)
  BY <1>3, <1>4 DEF Unstarted, OrphanInv, Keeps
<1>6. DisconnectedKilled'
  <2> SUFFICES ASSUME inJobs, ~k.remove, k.disconnected
               PROVE  (\E p \in posted' : p.sig = "KILL") \/ Secured(k)
    BY <1>2 DEF DisconnectedKilled, Secured
  <2>1. ~job.remove /\ d /\ job.io \subseteq IoNodes /\ k.io = job.io
    BY <1>0, <1>3, <1>4, ZenonT(30) DEF Keeps, JobType
  <2>2. CASE s.sig = "KILL"
    BY <1>4, <2>1, <2>2 DEF OrphanInv
  <2>3. CASE s.sig # "KILL"
    <3>1. job.disconnected
      BY <2>1, <2>3 DEF OrphanInv, d
    <3>2. (\E p \in posted : p.sig = "KILL") \/ Secured(job)
      BY <2>1, <3>1 DEF OrphanInv, DisconnectedKilled, Secured
    <3>3. Secured(job) => Secured(k)
      BY <1>3, <1>4, <2>1 DEF Secured, Keeps
    <3> QED
      BY <1>2, <2>3, <3>2, <3>3
  <2> QED
    BY <2>2, <2>3
<1>7. LostNodes'
  BY <1>2, <1>3, <1>4 DEF OrphanInv, LostNodes, Keeps
<1> QED
  BY <1>2, <1>5, <1>6, <1>7, ZenonT(30) DEF OrphanInv, Unstarted

\* The mux connection ends, is destroyed, and comes back.
LEMMA MuxOrphan ==
    ASSUME JobInv, OrphanInv, MuxEof \/ MuxGone \/ MuxReconnect \/ SetConnection
    PROVE  OrphanInv'
<1>0. job \in JobType /\ (inJobs => Unstarted(job)) /\ PostedKills(posted)
  BY DEF JobInv, TypeOK, OrphanInv, Unstarted, PostedKills
<1>1. CASE MuxEof /\ clients = "job"
  <2>1. /\ job' = [job EXCEPT !.disconnected = TRUE] /\ UNCHANGED <<link, inJobs>>
        /\ posted' = posted \cup {[sig |-> "KILL", disconnected |-> FALSE]}
    BY <1>1 DEF MuxEof
  <2>2. job'.status = job.status /\ job'.io = job.io /\ job'.remove = job.remove
    BY <1>0, <2>1 DEF JobType
  <2>3. DisconnectedKilled'
    <3>1. [sig |-> "KILL", disconnected |-> FALSE] \in posted'
      BY <2>1
    <3>2. \E s \in posted' : s.sig = "KILL"
      BY <3>1
    <3> QED
      BY <3>2 DEF DisconnectedKilled
  <2>4. PostedKills(posted')
    BY <1>0, <2>1 DEF PostedKills
  <2>5. LostNodes'
    BY <2>1, <2>2 DEF OrphanInv, LostNodes
  <2> QED
    BY <2>1, <2>2, <2>3, <2>4, <2>5 DEF OrphanInv, PostedKills
<1>2. CASE (MuxEof /\ clients # "job") \/ MuxReconnect
  BY <1>2 DEF MuxEof, MuxReconnect, OrphanInv, DisconnectedKilled, LostNodes
<1>3. CASE MuxGone
  <2>1. job' = [job EXCEPT !.attached = FALSE] /\ UNCHANGED <<link, posted, inJobs>>
    BY <1>3 DEF MuxGone
  <2>2. Keeps(job, job') /\ job'.status = job.status /\ job'.remove = job.remove
    BY <1>0, <2>1, Zenon DEF Keeps, JobType
  <2>3. inJobs => Unstarted(job')
    BY <1>0, <2>2 DEF Unstarted, Keeps
  <2> QED
    BY <1>0, <2>1, <2>2, <2>3, StepOrphan
<1>4. CASE SetConnection
  <2> DEFINE r == job.remove \/ job.status = "Terminating"
  <2>1. /\ job' = [job EXCEPT !.attached = TRUE, !.remove = r] /\ r \in BOOLEAN
        /\ UNCHANGED <<link, posted, inJobs>>
    BY <1>0, <1>4 DEF SetConnection, JobType
  <2>2. job.remove => r
    OBVIOUS
  <2> HIDE DEF r
  <2>3. job'.status = job.status /\ job'.remove = r /\ job'.io = job.io
    BY <1>0, <2>1 DEF JobType
  <2>4. Keeps(job, job')
    BY <1>0, <2>1, <2>2, Zenon DEF Keeps, JobType
  <2>5. inJobs => Unstarted(job')
    BY <1>0, <2>2, <2>3 DEF Unstarted
  <2> QED
    BY <1>0, <2>1, <2>4, <2>5, StepOrphan
<1> QED
  BY <1>1, <1>2, <1>3, <1>4

\* A connection to an I/O node is lost.
LEMMA LinkLostOrphan ==
    ASSUME JobInv, OrphanInv, NEW n \in IoNodes, NEW how, LinkLost(n, how)
    PROVE  OrphanInv'
<1>0. /\ job \in JobType /\ link \in [IoNodes -> {"up", "eof", "gone", "down"}]
      /\ (inJobs => Unstarted(job)) /\ PostedKills(posted)
  BY DEF JobInv, TypeOK, OrphanInv, Unstarted, PostedKills
<1> DEFINE p == [job.pending EXCEPT ![n] = [r \in Request |-> 0]]
<1>1. /\ link[n] = "up" /\ link' = [link EXCEPT ![n] = how]
      /\ job' = [job EXCEPT !.pending[n] = [r \in Request |-> 0]]
      /\ UNCHANGED <<posted, inJobs>>
  BY DEF LinkLost
<1>2. job' = [job EXCEPT !.pending = p] /\ p \in [IoNodes -> [Request -> 0 .. MaxPending]]
  BY <1>0, <1>1, MaxPendingAssumption DEF JobType
<1> HIDE DEF p
<1>3. Keeps(job, job') /\ job'.status = job.status /\ job'.remove = job.remove
  BY <1>0, <1>2, Zenon DEF Keeps, JobType
<1>4. /\ \A m \in job.io : link[m] = "gone" => link'[m] = "gone"
      /\ \A m \in IoNodes : link[m] = "down" => link'[m] = "down"
  BY <1>0, <1>1 DEF JobType
<1>5. inJobs => Unstarted(job')
  BY <1>0, <1>3 DEF Unstarted, Keeps
<1> QED
  BY <1>0, <1>1, <1>3, <1>4, <1>5, StepOrphan

\* EndOfFile::impl: the last node's end removes the job, another's is followed by a
\* KILL to the nodes that are left.
LEMMA EndOfFileOrphan ==
    ASSUME JobInv, OrphanInv, NEW n \in IoNodes, NEW shorter, EndOfFile(n, shorter)
    PROVE  OrphanInv'
<1> DEFINE i == [job EXCEPT !.io = @ \ {n}]
           e == SetError(i, "io_node_failure")
<1>0. /\ job \in JobType /\ link \in [IoNodes -> {"up", "eof", "gone", "down"}]
      /\ (inJobs => Unstarted(job)) /\ PostedKills(posted)
  BY DEF JobInv, TypeOK, OrphanInv, Unstarted, PostedKills
<1>1. /\ link' = [link EXCEPT ![n] = "down"] /\ UNCHANGED <<posted, inJobs>>
      /\ job' = IF ~inJobs \/ n \notin job.io THEN job
                ELSE IF e.io = {} THEN Remove(e) ELSE Signal(e, "KILL", shorter)
  BY DEF EndOfFile
<1>a. link'[n] = "down" /\ \A m \in IoNodes : link[m] = "down" => link'[m] = "down"
  BY <1>0, <1>1
<1>2. CASE ~inJobs
  <2>1. LostNodes'
    BY <1>1, <1>2, <1>a DEF OrphanInv, LostNodes
  <2> QED
    BY <1>0, <1>1, <1>2, <2>1 DEF OrphanInv, DisconnectedKilled, PostedKills
<1>3. CASE inJobs /\ n \notin job.io
  <2>1. job' = job /\ \A m \in job.io : link'[m] = link[m]
    BY <1>0, <1>1, <1>3 DEF JobType
  <2>2. Keeps(job, job')
    BY <1>0, <2>1 DEF Keeps
  <2> QED
    BY <1>0, <1>1, <1>a, <2>1, <2>2, StepOrphan
<1>4. CASE inJobs /\ n \in job.io
  <2>1. i \in JobType /\ i.io = job.io \ {n}
    BY <1>0 DEF JobType
  <2> HIDE DEF i
  <2>2. e \in JobType /\ e.io = job.io \ {n}
    BY <2>1, KeepsSetError DEF Error, Keeps
  <2> HIDE DEF e
  <2>3. CASE e.io = {}
    <3>1. job' = Remove(e)
      BY <1>1, <1>4, <2>3
    <3>2. /\ job'.disconnected => job'.remove
          /\ job'.remove \/ job'.status = "Terminating"
          /\ job'.io = job.io \ {n}
      BY <2>2, <3>1, KeepsRemove DEF Keeps
    <3>3. LostNodes'
      BY <1>a, <3>2 DEF OrphanInv, LostNodes
    <3> QED
      BY <1>0, <1>1, <3>2, <3>3, ZenonT(30) DEF OrphanInv, DisconnectedKilled, PostedKills
  <2>4. CASE e.io # {}
    <3> DEFINE k == Signal(e, "KILL", shorter)
    <3>1. job' = k
      BY <1>1, <1>4, <2>4
    <3>2. Keeps(e, k) /\ Secured(k)
      BY <2>2, <2>4, SignalSecures, ZenonT(30)
    <3> HIDE DEF k
    <3>3. k.io = job.io \ {n} /\ k.io # {} /\ \A m \in k.io : link'[m] = link[m]
      BY <1>0, <1>1, <2>2, <2>4, <3>2, ZenonT(30) DEF Keeps, JobType
    <3>4. DisconnectedKilled'
      BY <3>1, <3>2, <3>3, ZenonT(30) DEF DisconnectedKilled, Secured
    <3>5. LostNodes'
      BY <1>a, <3>1, <3>3 DEF OrphanInv, LostNodes
    <3> QED
      BY <1>0, <1>1, <3>1, <3>3, <3>4, <3>5 DEF OrphanInv, PostedKills
  <2> QED
    BY <2>3, <2>4
<1> QED
  BY <1>2, <1>3, <1>4

\* The kill timer and the heartbeat
LEMMA TimersOrphan ==
    ASSUME JobInv, OrphanInv,
           \/ KillTimerExpires \/ KillTimerHandler \/ HeartbeatHandler
           \/ \E n \in IoNodes : \E shorter : HeartbeatPulse(n, shorter)
    PROVE  OrphanInv'
<1>0. job \in JobType /\ (inJobs => Unstarted(job)) /\ "kill_timeout" \in Error
  BY DEF JobInv, TypeOK, OrphanInv, Unstarted, Error
<1>1. CASE KillTimerExpires
  <2> DEFINE x == [job EXCEPT !.timer = "expired"]
  <2>1. JobStep(x) /\ Keeps(job, x) /\ x.status = job.status /\ x.remove = job.remove
    BY <1>0, <1>1 DEF KillTimerExpires, Handled, Keeps, JobType, Timer
  <2> HIDE DEF x
  <2> QED
    BY <1>0, <2>1, HandledOrphan DEF Unstarted, Keeps
<1>2. CASE KillTimerHandler
  <2> DEFINE x == [job EXCEPT !.timer = "done", !.unavailable = TRUE]
             e == SetError(x, "kill_timeout")
             r == Remove(e)
             N == {n \in r.io : "Cleanup" \notin r.node[n]}
             w == Write(r, N, "CleanupJob")
  <2>1. Keeps(job, x) /\ JobStep(w)
    BY <1>0, <1>2, Zenon DEF KillTimerHandler, Handled, Keeps, JobType, Timer
  <2>2. x \in JobType
    BY <2>1 DEF Keeps
  <2> HIDE DEF x
  <2>3. Keeps(job, e)
    BY <1>0, <2>1, <2>2, KeepsSetError, KeepsTrans
  <2>4. e \in JobType
    BY <2>3 DEF Keeps
  <2> HIDE DEF e
  <2>5. Keeps(job, r) /\ (r.remove \/ r.status = "Terminating")
    BY <2>3, <2>4, KeepsRemove, KeepsTrans
  <2>6. r \in JobType /\ N \in SUBSET IoNodes
    BY <2>5, ZenonT(30) DEF Keeps, JobType
  <2> HIDE DEF r, N
  <2>7. Keeps(r, w) /\ w.status = r.status
    BY <2>6, KeepsWrite, ZenonT(30) DEF Request
  <2> HIDE DEF w
  <2>8. Keeps(job, w) /\ Unstarted(w)
    BY <2>5, <2>7, KeepsTrans DEF Unstarted, Keeps
  <2> QED
    BY <2>1, <2>8, HandledOrphan
<1>3. /\ Keeps(job, HeartbeatTimeout) /\ HeartbeatTimeout \in JobType
      /\ Unstarted(HeartbeatTimeout)
  <2> DEFINE x == [job EXCEPT !.unavailable = TRUE]
             e == SetError(x, "kill_timeout")
  <2>1. Keeps(job, x)
    BY <1>0, Zenon DEF Keeps, JobType
  <2>2. x \in JobType /\ HeartbeatTimeout = Remove(e)
    BY <2>1 DEF Keeps, HeartbeatTimeout
  <2> HIDE DEF x
  <2>3. Keeps(job, e)
    BY <1>0, <2>1, <2>2, KeepsSetError, KeepsTrans
  <2>4. e \in JobType
    BY <2>3 DEF Keeps
  <2> HIDE DEF e
  <2>5. Keeps(e, Remove(e)) /\ (Remove(e).remove \/ Remove(e).status = "Terminating")
    BY <2>4, KeepsRemove
  <2> QED
    BY <2>2, <2>3, <2>5, KeepsTrans DEF Unstarted, Keeps
<1>4. CASE HeartbeatHandler
  BY <1>3, <1>4, HandledOrphan DEF HeartbeatHandler, Handled
<1>5. ASSUME NEW n \in IoNodes, NEW shorter, HeartbeatPulse(n, shorter)
      PROVE  OrphanInv'
  BY <1>3, <1>5, ReportOrphan DEF HeartbeatPulse, Connected
<1> QED
  BY <1>1, <1>2, <1>4, <1>5

\* The job leaves the container and is destroyed.
LEMMA ContainerOrphan ==
    ASSUME OrphanInv, ContainerRemove \/ Destroy \/ UNCHANGED vars
    PROVE  OrphanInv'
<1>1. CASE ContainerRemove
  BY <1>1 DEF ContainerRemove, OrphanInv, DisconnectedKilled, LostNodes
<1>2. CASE Destroy
  BY <1>2 DEF Destroy, OrphanInv, DisconnectedKilled, LostNodes
<1>3. CASE UNCHANGED vars
  BY <1>3, ZenonT(30) DEF vars, OrphanInv, DisconnectedKilled, LostNodes
<1> QED
  BY <1>1, <1>2, <1>3

\* A new job has a client, or is Running since before a restart.
LEMMA InitOrphan == Init => OrphanInv
<1> SUFFICES ASSUME Init PROVE OrphanInv
  OBVIOUS
<1>1. /\ posted = {} /\ ~job.disconnected /\ job.status \in {"Invalid", "Running"}
      /\ job.io = IoNodes
  <2>1. CASE InitSubmitted
    BY <2>1 DEF Init, InitSubmitted, NewJob
  <2>2. CASE InitReconnected
    <3> DEFINE f == [n \in IoNodes |-> {"Running", "drained"}]
    <3>1. job = SetStatus([NewJob EXCEPT !.node = f, !.attached = FALSE], "Running")
      BY <2>2 DEF InitReconnected
    <3> HIDE DEF f
    <3>2. job.status = "Running" /\ job.disconnected = FALSE /\ job.io = IoNodes
      BY <3>1 DEF SetStatus, NewJob
    <3> QED
      BY <3>2 DEF Init
  <2> QED
    BY <2>1, <2>2 DEF Init
<1> QED
  BY <1>1 DEF OrphanInv, DisconnectedKilled, LostNodes

\* Every step keeps OrphanInv.
LEMMA NextOrphan == JobInv /\ OrphanInv /\ [Next]_vars => OrphanInv'
<1> SUFFICES ASSUME JobInv, OrphanInv, [Next]_vars PROVE OrphanInv'
  OBVIOUS
<1>1. CASE Environment
  BY <1>1, StartOrphan, PostsOrphan, MuxOrphan, LinkLostOrphan, Zenon DEF Environment
<1>2. ASSUME NEW shorter \in BOOLEAN, Server(shorter)
      PROVE  OrphanInv'
  BY <1>2, CheckOrphan, MuxOrphan, RunSignalOrphan, EndOfFileOrphan, TimersOrphan,
     ContainerOrphan DEF Server
<1>3. ASSUME NEW shorter \in BOOLEAN, NEW n \in IoNodes, Answer(n, shorter)
      PROVE  OrphanInv'
  BY <1>3, ReportsOrphan, CleanupOrphan, SignalAckOrphan DEF Answer
<1>4. ASSUME NEW shorter \in BOOLEAN, NEW n \in IoNodes, Ranks(n, shorter)
      PROVE  OrphanInv'
  BY <1>4, RanksOrphan
<1>5. CASE UNCHANGED vars
  BY <1>5, ContainerOrphan
<1> QED
  BY <1>1, <1>2, <1>3, <1>4, <1>5 DEF Next

\* The invariant behind DisconnectedKilled holds of every job, whatever I/O nodes it has
\* and whatever is lost or fails.
THEOREM OrphanInvariant == Spec => []OrphanInv
BY InitOrphan, NextOrphan, JobInvariant, PTL DEF Spec

\* Whatever is lost or fails, a job leaves the container only when every I/O node
\* that was told to set it up, of all it ever had, has ended its cleanup or lost its
\* connection, or with its compute nodes marked unavailable (Job::remove and its
\* callers, EndOfFile::impl).
THEOREM JobCleanRelease == Spec => []CleanRelease
<1>1. JobInv /\ OrphanInv => CleanRelease
  BY DEF JobInv, ReleaseInv, OrphanInv, LostNodes, Cleaned, Released, CleanRelease
<1> QED
  BY <1>1, JobInvariant, OrphanInvariant, PTL

=============================================================================
