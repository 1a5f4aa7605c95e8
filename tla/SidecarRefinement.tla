-------------------------- MODULE SidecarRefinement --------------------------
(***************************************************************************)
(* Sidecar implements ProfilingService, for every value of the constants:  *)
(* each step of the loop is a step of the service or none.                 *)
(***************************************************************************)
EXTENDS SidecarProofs

LEMMA InitService == Init => Service!Init
  BY DEF Init, Service!Init, servicePhase, inHand, lastCpuScrape, deliveredNow, Running,
         Collecting, NoMetrics, Never, Service!Never

\* What the service sees in each part of the loop.
LEMMA View ==
  /\ pc \in {"scrape", "copy"} =>
       servicePhase = "sampling" /\ inHand = job.kind /\ deliveredNow = metrics.uploaded
  /\ pc \in {"upload", "put"} =>
       servicePhase = "holding" /\ inHand = job.kind /\ deliveredNow = metrics.uploaded
  /\ pc \in {"select", "fetch", "cpuCheck", "memCheck"} =>
       /\ servicePhase = "idle" /\ inHand = "none" /\ lastCpuScrape = lastCPUTime
       /\ deliveredNow = metrics.uploaded
  /\ pc \in {"exited", "down"} =>
       servicePhase = "stopped" /\ inHand = "none" /\ lastCpuScrape = Never /\ deliveredNow = 0
  /\ pc \in {"scrape", "copy", "upload", "put"} =>
       lastCpuScrape = IF job.kind = "profile" THEN job.start ELSE lastCPUTime
  BY DEF servicePhase, inHand, lastCpuScrape, deliveredNow, Running, Collecting

\* The same of the next state.
LEMMA ViewNext ==
  /\ pc' \in {"scrape", "copy"} =>
       servicePhase' = "sampling" /\ inHand' = job'.kind /\ deliveredNow' = metrics'.uploaded
  /\ pc' \in {"upload", "put"} =>
       servicePhase' = "holding" /\ inHand' = job'.kind /\ deliveredNow' = metrics'.uploaded
  /\ pc' \in {"select", "fetch", "cpuCheck", "memCheck"} =>
       /\ servicePhase' = "idle" /\ inHand' = "none" /\ lastCpuScrape' = lastCPUTime'
       /\ deliveredNow' = metrics'.uploaded
  /\ pc' \in {"exited", "down"} =>
       servicePhase' = "stopped" /\ inHand' = "none" /\ lastCpuScrape' = Never /\ deliveredNow' = 0
  /\ pc' \in {"scrape", "copy", "upload", "put"} =>
       lastCpuScrape' = IF job'.kind = "profile" THEN job'.start ELSE lastCPUTime'
  BY DEF servicePhase, inHand, lastCpuScrape, deliveredNow, Running, Collecting

Seen == <<servicePhase, inHand, lastCpuScrape, deliveredNow>>

-----------------------------------------------------------------------------
\* Time, signals, kills and restarts.
LEMMA WorldServes ==
  ASSUME TypeDirs, World
  PROVE  Service!Next \/ UNCHANGED Service!vars
<1>1. CASE Tick
  <2>1. clock' = clock + 1 /\ UNCHANGED <<pc, job, lastCPUTime, metrics>>
    BY <1>1 DEF Tick, loopVars
  <2>2. UNCHANGED Seen
    BY <2>1 DEF Seen, servicePhase, inHand, lastCpuScrape, deliveredNow, Running, Collecting
  <2> QED
    BY <2>1, <2>2 DEF Seen, Service!Next, Service!Pass
<1>2. CASE Signal
  <2>1. UNCHANGED <<clock, pc, job, lastCPUTime, metrics>>
    BY <1>2 DEF Signal, timeVars, loopVars
  <2> QED
    BY <2>1 DEF Service!vars, servicePhase, inHand, lastCpuScrape, deliveredNow, Running,
                Collecting
<1>3. CASE Crash
  <2>1. pc \notin {"exited", "down"} /\ pc' = "down" /\ UNCHANGED clock
    BY <1>3 DEF Crash, Running
  <2>2. servicePhase # "stopped"
    BY <2>1 DEF servicePhase
  <2> QED
    BY <2>1, <2>2, ViewNext DEF Service!Next, Service!Stop, Never, Service!Never
<1>4. CASE Restart
  <2>1. /\ pc \in {"exited", "down"} /\ pc' = "select" /\ UNCHANGED clock
        /\ lastCPUTime' = Never /\ metrics' = NoMetrics
    BY <1>4 DEF Restart, Running, Forget
  <2> QED
    BY <2>1, View, ViewNext DEF Service!Next, Service!Revive, NoMetrics
<1> QED
  BY <1>1, <1>2, <1>3, <1>4 DEF World

\* A collection begins: the cooldown is over, by a clock that has not moved
\* since the loop read it.
LEMMA CollectServes ==
  ASSUME Spaced, NEW k \in Kinds, Collect(k),
         \/ k = "profile" /\ pc = "cpuCheck" /\ CooledDown
         \/ k = "heap" /\ pc = "memCheck"
  PROVE  Service!Next \/ UNCHANGED Service!vars
<1>1. /\ servicePhase = "idle" /\ inHand = "none" /\ lastCpuScrape = lastCPUTime
      /\ deliveredNow = metrics.uploaded
  BY View
<1>2. UNCHANGED <<clock, metrics>>
  BY DEF Collect, timeVars
<1>3. k = "profile" =>
        /\ now = clock
        /\ lastCpuScrape = Never \/ clock - lastCpuScrape > Cooldown
  BY <1>1 DEF Spaced, CpuInv, CooledDown
<1>4. CASE pc' = "scrape" /\ job'.kind = k /\ job'.start = clock /\ UNCHANGED lastCPUTime
  <2>1. /\ servicePhase' = "sampling" /\ inHand' = k /\ deliveredNow' = metrics.uploaded
        /\ lastCpuScrape' = IF k = "profile" THEN clock ELSE lastCPUTime
    BY <1>2, <1>4, ViewNext
  <2> QED
    BY <1>1, <1>2, <1>3, <2>1
    DEF Kinds, Never, Service!Never, Service!Next, Service!SampleCpu, Service!SampleHeap
<1>5. CASE Resume(k)
  <2>1. /\ servicePhase' = "idle" /\ inHand' = "none" /\ deliveredNow' = metrics.uploaded
        /\ lastCpuScrape' = IF k = "profile" THEN now ELSE lastCPUTime
    BY <1>2, <1>5, ViewNext DEF Resume, NextIteration
  <2>2. CASE k = "profile"
    BY <1>1, <1>2, <1>3, <2>1, <2>2 DEF Never, Service!Never, Service!Next, Service!SampleCpu
  <2>3. CASE k # "profile"
    BY <1>1, <1>2, <2>1, <2>3 DEF Service!vars
  <2> QED
    BY <2>2, <2>3
<1>6. Resume(k) \/ (pc' = "scrape" /\ job'.kind = k /\ job'.start = clock /\ UNCHANGED lastCPUTime)
  BY DEF Collect
<1> QED
  BY <1>4, <1>5, <1>6

\* The loop outside collections.
LEMMA MonitorServes ==
  ASSUME Spaced, Monitor
  PROVE  Service!Next \/ UNCHANGED Service!vars
<1>1. CASE ReceiveDone
  <2>1. pc = "select" /\ pc' = "exited" /\ UNCHANGED clock
    BY <1>1 DEF ReceiveDone, timeVars
  <2> QED
    BY <2>1, View, ViewNext DEF Service!Next, Service!Stop, Never, Service!Never
<1>2. CASE ReceiveTick \/ FetchFails \/ FetchReturns \/ SkipCpu \/ SkipHeap
  <2>1. /\ pc \in {"select", "fetch", "cpuCheck", "memCheck"}
        /\ pc' \in {"select", "fetch", "cpuCheck", "memCheck"}
        /\ UNCHANGED <<clock, lastCPUTime>>
    BY <1>2 DEF ReceiveTick, FetchFails, FetchReturns, SkipCpu, SkipHeap, NextIteration, timeVars
  <2>2. metrics'.uploaded = metrics.uploaded
    <3>1. CASE FetchReturns
      BY <3>1 DEF FetchReturns, Spaced, TypeDirs, TypeOK, CountersOK, Metrics
    <3> QED
      BY <1>2, <3>1 DEF ReceiveTick, FetchFails, SkipCpu, SkipHeap
  <2> QED
    BY <2>1, <2>2, View, ViewNext DEF Service!vars
<1>3. CASE CollectCpu
  BY <1>3, CollectServes DEF CollectCpu, Kinds
<1>4. CASE CollectHeap
  BY <1>4, CollectServes DEF CollectHeap, Kinds
<1> QED
  BY <1>1, <1>2, <1>3, <1>4 DEF Monitor

\* Inside a collection.  When one ends the loop keeps the time it began, which
\* the service has known since then.
LEMMA CollectorServes ==
  ASSUME Spaced, Collector
  PROVE  Service!Next \/ UNCHANGED Service!vars
<1>1. CASE ScrapeOK \/ CopyDone \/ PutStarts
  <2>1. /\ \/ pc = "scrape" /\ pc' = "copy"
           \/ pc = "copy" /\ pc' = "upload"
           \/ pc = "upload" /\ pc' = "put"
        /\ UNCHANGED <<clock, lastCPUTime>>
    BY <1>1 DEF ScrapeOK, CopyDone, PutStarts, timeVars
  <2>2. /\ job'.kind = job.kind /\ job'.start = job.start
        /\ metrics'.uploaded = metrics.uploaded
    BY <1>1 DEF ScrapeOK, CopyDone, PutStarts, Spaced, TypeDirs, TypeOK, LoopOK, Job,
                CountersOK, Metrics
  <2>3. /\ inHand' = inHand /\ lastCpuScrape' = lastCpuScrape /\ deliveredNow' = deliveredNow
        /\ \/ servicePhase' = servicePhase
           \/ servicePhase = "sampling" /\ servicePhase' = "holding"
    BY <2>1, <2>2, View, ViewNext
  <2> QED
    BY <2>1, <2>3 DEF Service!Next, Service!Sampled, Service!vars
<1>2. CASE ScrapeFails \/ UploadSetupFails \/ PutOK \/ PutFails
  <2>1. /\ Resume(job.kind) /\ UNCHANGED clock
        /\ pc \in {"scrape", "copy", "upload", "put"}
    BY <1>2 DEF ScrapeFails, UploadSetupFails, PutOK, PutFails, Return, timeVars
  <2>2. /\ pc' \in {"select", "memCheck"}
        /\ lastCPUTime' = IF job.kind = "profile" THEN now ELSE lastCPUTime
    BY <2>1 DEF Resume, NextIteration
  <2>3. job.kind = "profile" => job.start = now
    BY <2>1 DEF Spaced, CpuInv, TakingCpu, Collecting
  <2>4. /\ servicePhase' = "idle" /\ inHand' = "none" /\ lastCpuScrape' = lastCpuScrape
        /\ deliveredNow = metrics.uploaded /\ deliveredNow' = metrics'.uploaded
        /\ servicePhase = IF pc \in {"scrape", "copy"} THEN "sampling" ELSE "holding"
    BY <2>1, <2>2, <2>3, View, ViewNext
  <2>5. CASE PutOK
    <3>1. metrics'.uploaded = metrics.uploaded + 1 /\ pc = "put"
      BY <2>5 DEF PutOK, Spaced, TypeDirs, TypeOK, CountersOK, Metrics
    <3> QED
      BY <2>1, <2>4, <3>1 DEF Service!Next, Service!Deliver, Service!Drop
  <2>6. CASE ~PutOK
    <3>1. metrics'.uploaded = metrics.uploaded
      BY <1>2, <2>6 DEF ScrapeFails, UploadSetupFails, PutFails, Spaced, TypeDirs, TypeOK,
                        CountersOK, Metrics
    <3> QED
      BY <2>1, <2>4, <3>1 DEF Service!Next, Service!GiveUp, Service!Drop
  <2> QED
    BY <2>5, <2>6
<1> QED
  BY <1>1, <1>2 DEF Collector

\* The sidecar keeps the promise of the service: one profile at a time, the
\* CPU at most once per cooldown in one life, counted from the start of an attempt although the
\* code keeps its time only at the end, and nothing delivered twice
\* (sidecar/cmd/main.go:495-589).
THEOREM ServiceImplemented == Spec => ServiceSpec
<1>1. Spaced /\ [Next]_vars => [Service!Next]_(Service!vars)
  <2>1. CASE UNCHANGED vars
    BY <2>1 DEF vars, timeVars, loopVars, Service!vars, servicePhase, inHand, lastCpuScrape,
                deliveredNow, Running, Collecting
  <2> QED
    BY <2>1, WorldServes, MonitorServes, CollectorServes DEF Next, Spaced
<1>2. Spec => []Spaced
  BY SpacedHolds
<1> QED
  BY <1>1, <1>2, InitService, PTL DEF Spec, ServiceSpec, Service!Spec
=============================================================================
