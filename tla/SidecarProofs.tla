--------------------------- MODULE SidecarProofs ---------------------------
(***************************************************************************)
(* Theorems about Sidecar for every value of its constants: its type       *)
(* invariant, the accounting of temporary directories, of uploads and of   *)
(* threshold excesses, the spacing of CPU profiles, and the faithfulness   *)
(* of what is in the bucket.                                               *)
(***************************************************************************)
EXTENDS Sidecar, TLAPS

-----------------------------------------------------------------------------
(* Types and temporary directories: each needs the other, because a        *)
(* directory is removed only if there is one.                              *)

TypeDirs == TypeOK /\ TempDirsAccounted

\* Count is 1 for a formula that holds and 0 for one that does not.
LEMMA CountFacts ==
  ASSUME NEW b
  PROVE  Count(b) \in Nat /\ (b => Count(b) = 1) /\ (~b => Count(b) = 0)
  BY DEF Count

\* Counting excesses keeps the type of the metrics.
LEMMA CountedType ==
  ASSUME NEW m \in Metrics, NEW c \in Nat, NEW d \in Nat
  PROVE  [m EXCEPT !.cpuExceeded = @ + c, !.memExceeded = @ + d] \in Metrics
<1> DEFINE k == [m EXCEPT !.cpuExceeded = @ + c]
<1>1. k \in Metrics
  BY DEF Metrics
<1>2. [k EXCEPT !.memExceeded = @ + d]
      = [m EXCEPT !.cpuExceeded = @ + c, !.memExceeded = @ + d]
  BY Zenon
<1> HIDE DEF k
<1>3. [k EXCEPT !.memExceeded = @ + d] \in Metrics
  BY <1>1 DEF Metrics
<1> QED
  BY <1>2, <1>3

\* The values variables start from, and return to when the process dies.
LEMMA EmptyTypes ==
  /\ NoSample \in Sample /\ NoJob \in Job /\ NoMetrics \in Metrics
  /\ NoAttempts \in [profile : Nat, heap : Nat]
  BY DEF NoSample, Sample, NoJob, Job, Kinds, Files, NoMetrics, Metrics, NoAttempts

\* What an upload adds to the bucket is an object.
LEMMA StoredType ==
  ASSUME NEW j \in Job, NEW b \in SUBSET Obj
  PROVE  Stored(b, Object(j)) \in SUBSET Obj
<1>1. Stamp(j.start) \in Int
  BY TimingAssumption DEF TimingAssumption, Stamp, Job
<1>2. Object(j) \in Obj
  BY <1>1 DEF Object, Obj, Job
<1> QED
  BY <1>2 DEF Stored

\* Leaving a collection: the types of the loop's locals, and one directory
\* less unless the removal failed.
LEMMA LeaveTypes ==
  ASSUME LoopOK, leaks \in Nat, NEW k \in Kinds, Resume(k), Cleanup(leaks + 1)
  PROVE  /\ LoopOK'
         /\ tempDirs' \in Nat /\ leaks' \in Nat
         /\ TempDirsAccounted'
         /\ ~Collecting'
<1>1. LoopOK' /\ ~Collecting'
  BY EmptyTypes DEF LoopOK, Collecting, Resume, NextIteration
<1>2. tempDirs' \in Nat /\ leaks' \in Nat /\ tempDirs' = leaks' + 0
  BY DEF Cleanup
<1>3. TempDirsAccounted'
  BY <1>1, <1>2, Zenon DEF TempDirsAccounted, Count
<1> QED
  BY <1>1, <1>2, <1>3

\* The type invariant and the accounting of directories hold initially.
LEMMA InitTypeDirs == Init => TypeDirs
<1> SUFFICES ASSUME Init PROVE TypeDirs
  OBVIOUS
<1>1. FlagsOK
  BY DEF Init, FlagsOK
<1>2. LoopOK
  BY EmptyTypes DEF Init, LoopOK
<1>3. CountersOK
  BY EmptyTypes, TimingAssumption DEF Init, CountersOK, TimingAssumption
<1> QED
  BY <1>1, <1>2, <1>3 DEF Init, TypeDirs, TypeOK, TempDirsAccounted, Count, Collecting

\* The flags are Boolean whatever step is taken.
LEMMA FlagsStep == FlagsOK /\ [Next]_vars => FlagsOK'
<1> SUFFICES ASSUME FlagsOK, [Next]_vars PROVE FlagsOK'
  OBVIOUS
<1> USE DEF FlagsOK, timeVars, loopVars, history
<1>1. CASE World
  BY <1>1 DEF World, Tick, Signal, Crash, Restart, Forget, Running
<1>2. CASE Monitor
  BY <1>2 DEF Monitor, ReceiveDone, ReceiveTick, FetchFails, FetchReturns,
     CollectCpu, SkipCpu, CollectHeap, SkipHeap, Collect
<1>3. CASE Collector
  BY <1>3 DEF Collector, ScrapeFails, ScrapeOK, CopyDone, UploadSetupFails,
     PutStarts, PutOK, PutFails
<1>4. CASE UNCHANGED vars
  BY <1>4 DEF vars
<1> QED
  BY <1>1, <1>2, <1>3, <1>4 DEF Next

\* Steps of the world outside keep types and directories.
LEMMA WorldTypeDirs == TypeDirs /\ World => TypeDirs'
<1> SUFFICES ASSUME TypeDirs, World PROVE TypeDirs'
  OBVIOUS
<1> USE DEF TypeDirs, TypeOK, timeVars, loopVars, history
<1>1. FlagsOK'
  BY FlagsStep DEF Next
<1>2. LoopOK'
  BY EmptyTypes DEF World, Tick, Signal, Crash, Restart, Forget, LoopOK
<1>3. CountersOK'
  <2>1. CountersOK /\ World
    OBVIOUS
  <2> HIDE DEF TypeDirs, TypeOK
  <2> QED
    BY <2>1, EmptyTypes, TimingAssumption
    DEF World, Tick, Signal, Crash, Restart, Forget, CountersOK, TimingAssumption
<1>4. TempDirsAccounted'
  BY DEF World, Tick, Signal, Crash, Restart, Forget, TempDirsAccounted, Count, Collecting,
     Running, LoopOK, CountersOK
<1>5. bucket' \in SUBSET Obj /\ scrapes' \in Seq(Scrape)
  BY StoredType DEF World, Tick, Signal, Crash, Restart, LoopOK
<1> QED
  BY <1>1, <1>2, <1>3, <1>4, <1>5

\* A call of collectAndUploadProfile keeps them.
LEMMA CollectTypeDirs ==
  ASSUME TypeDirs, ~Collecting, NEW k \in Kinds, Collect(k), FlagsOK'
  PROVE  TypeDirs'
<1> USE DEF TypeDirs, TypeOK
<1> DEFINE s == [kind |-> k, at |-> clock, life |-> restarts]
<1>1. attempts' \in [profile : Nat, heap : Nat]
  BY DEF Collect, CountersOK, Kinds
<1>2. CASE Resume(k) /\ UNCHANGED <<tempDirs, leaks, scrapes>>
  <2>1. LoopOK' /\ ~Collecting'
    BY <1>2, EmptyTypes DEF LoopOK, Collecting, Resume, NextIteration
  <2> QED
    BY <1>1, <1>2, <2>1
    DEF Collect, CountersOK, TempDirsAccounted, Count, timeVars
<1>3. CASE Resume(k) /\ Cleanup(tempDirs + 1) /\ UNCHANGED scrapes
  <2>1. tempDirs = leaks /\ leaks \in Nat
    BY DEF TempDirsAccounted, Count, CountersOK
  <2>2. LoopOK' /\ tempDirs' \in Nat /\ leaks' \in Nat /\ TempDirsAccounted'
    BY <1>3, <2>1, LeaveTypes
  <2>3. CountersOK'
    BY <1>1, <2>2 DEF Collect, CountersOK, timeVars
  <2> QED
    BY <1>3, <2>2, <2>3 DEF Collect
<1>4. CASE /\ pc' = "scrape" /\ tempDirs' = tempDirs + 1
           /\ scrapes' = IF ctxDone THEN scrapes ELSE Append(scrapes, s)
           /\ job' = [kind |-> k, start |-> clock, scrape |-> Len(scrapes'),
                      file |-> "none", sent |-> ~ctxDone]
           /\ UNCHANGED <<sample, now, lastCPUTime, leaks>>
  <2>1. s \in Scrape
    BY DEF CountersOK, Scrape
  <2>2. scrapes' \in Seq(Scrape)
    BY <1>4, <2>1
  <2>3. job' \in Job
    BY <1>4, <2>2 DEF Job, Files, CountersOK
  <2>4. LoopOK' /\ Collecting'
    BY <1>4, <2>3 DEF LoopOK, Collecting
  <2> QED
    BY <1>1, <1>4, <2>2, <2>4 DEF Collect, CountersOK, TempDirsAccounted, Count, timeVars
<1> QED
  BY <1>2, <1>3, <1>4 DEF Collect

\* The other steps of the monitor loop keep them.
LEMMA MonitorTypeDirs == TypeDirs /\ Monitor => TypeDirs'
<1> SUFFICES ASSUME TypeDirs, Monitor PROVE TypeDirs'
  OBVIOUS
<1>1. FlagsOK'
  BY FlagsStep DEF Next, TypeDirs, TypeOK
<1>2. CASE CollectCpu \/ CollectHeap
  BY <1>1, <1>2, CollectTypeDirs DEF CollectCpu, CollectHeap, Collecting, Kinds
<1> USE DEF TypeDirs, TypeOK, timeVars, history
<1>3. CASE FetchReturns
  <2>0. CountersOK
    OBVIOUS
  <2>1. LoopOK'
    BY <1>3 DEF FetchReturns, LoopOK, CountersOK, Sample
  <2>2. PICK cpu, mem \in BOOLEAN :
          metrics' = [metrics EXCEPT
                        !.cpuExceeded = @ + Count(cpu),
                        !.memExceeded = @ + Count(mem)]
    BY <1>3 DEF FetchReturns
  <2>3. metrics' \in Metrics
    <3>1. Count(cpu) \in Nat /\ Count(mem) \in Nat
      BY CountFacts
    <3>2. metrics \in Metrics
      BY DEF CountersOK
    <3> QED
      BY <2>2, <3>1, <3>2, CountedType, Zenon
  <2>4. CountersOK'
    BY <1>3, <2>3 DEF FetchReturns, CountersOK
  <2> QED
    BY <1>1, <1>3, <2>1, <2>4 DEF FetchReturns, TempDirsAccounted, Count, Collecting
<1>4. CASE ReceiveDone \/ ReceiveTick \/ FetchFails \/ SkipCpu \/ SkipHeap
  <2>1. LoopOK'
    BY <1>4, EmptyTypes DEF ReceiveDone, ReceiveTick, FetchFails, SkipCpu, SkipHeap,
       NextIteration, LoopOK
  <2>2. CountersOK' /\ TempDirsAccounted'
    BY <1>4 DEF ReceiveDone, ReceiveTick, FetchFails, SkipCpu, SkipHeap,
       NextIteration, CountersOK, TempDirsAccounted, Count, Collecting
  <2> QED
    BY <1>1, <1>4, <2>1, <2>2 DEF ReceiveDone, ReceiveTick, FetchFails, SkipCpu, SkipHeap
<1> QED
  BY <1>2, <1>3, <1>4 DEF Monitor

\* The steps of a collection keep them.
LEMMA CollectorTypeDirs == TypeDirs /\ Collector => TypeDirs'
<1> SUFFICES ASSUME TypeDirs, Collector PROVE TypeDirs'
  OBVIOUS
<1>1. FlagsOK'
  BY FlagsStep DEF Next, TypeDirs, TypeOK
<1> USE DEF TypeDirs, TypeOK, timeVars, history
<1>2. CASE ScrapeOK \/ CopyDone \/ PutStarts
  <2>1. job' \in Job
    BY <1>2 DEF ScrapeOK, CopyDone, PutStarts, LoopOK, Job, Files
  <2>2. LoopOK'
    BY <1>2, <2>1 DEF ScrapeOK, CopyDone, PutStarts, LoopOK
  <2>3. metrics' \in Metrics
    BY <1>2 DEF ScrapeOK, CopyDone, PutStarts, CountersOK, Metrics
  <2>4. CountersOK' /\ TempDirsAccounted'
    BY <1>2, <2>3 DEF ScrapeOK, CopyDone, PutStarts, CountersOK, TempDirsAccounted,
       Collecting
  <2> QED
    BY <1>1, <1>2, <2>2, <2>4 DEF ScrapeOK, CopyDone, PutStarts
<1>3. CASE ScrapeFails \/ UploadSetupFails \/ PutOK \/ PutFails
  <2>0. CountersOK
    OBVIOUS
  <2>1. Collecting /\ Resume(job.kind) /\ Cleanup(tempDirs)
    BY <1>3 DEF ScrapeFails, UploadSetupFails, PutOK, PutFails, Return, Collecting
  <2>2. job.kind \in Kinds
    BY DEF LoopOK, Job
  <2>3. tempDirs = leaks + 1 /\ leaks \in Nat
    BY <2>1 DEF TempDirsAccounted, Count, CountersOK
  <2>4. LoopOK' /\ tempDirs' \in Nat /\ leaks' \in Nat /\ TempDirsAccounted'
    BY <2>1, <2>2, <2>3, LeaveTypes
  <2>5. metrics' \in Metrics /\ uncounted' \in Nat
    <3> HIDE DEF TypeDirs, TypeOK
    <3> QED
      BY <1>3, <2>0
      DEF ScrapeFails, UploadSetupFails, PutOK, PutFails, CountersOK, Metrics
  <2>6. CountersOK'
    BY <1>3, <2>4, <2>5
    DEF ScrapeFails, UploadSetupFails, PutOK, PutFails, CountersOK
  <2>7. bucket' \in SUBSET Obj
    BY <1>3, StoredType DEF ScrapeFails, UploadSetupFails, PutOK, PutFails, LoopOK
  <2>8. scrapes' \in Seq(Scrape)
    BY <1>3 DEF ScrapeFails, UploadSetupFails, PutOK, PutFails
  <2> QED
    BY <1>1, <2>4, <2>6, <2>7, <2>8
<1> QED
  BY <1>2, <1>3 DEF Collector

LEMMA NextTypeDirs == TypeDirs /\ [Next]_vars => TypeDirs'
<1> SUFFICES ASSUME TypeDirs, UNCHANGED vars PROVE TypeDirs'
  BY WorldTypeDirs, MonitorTypeDirs, CollectorTypeDirs DEF Next
<1>1. FlagsOK'
  BY FlagsStep DEF TypeDirs, TypeOK
<1>2. LoopOK' /\ CountersOK' /\ TempDirsAccounted'
  BY DEF TypeDirs, TypeOK, LoopOK, CountersOK, TempDirsAccounted, Count, Collecting, vars,
     timeVars, loopVars, history
<1> QED
  BY <1>1, <1>2 DEF TypeDirs, TypeOK, vars, timeVars, loopVars, history

\* Every variable keeps its type in every reachable state of the sidecar
\* (sidecar/cmd/main.go:495-589).
THEOREM TypeCorrect == Spec => []TypeOK
<1>1. Spec => []TypeDirs
  BY InitTypeDirs, NextTypeDirs, PTL DEF Spec
<1> QED
  BY <1>1, PTL DEF TypeDirs

\* No path out of collectAndUploadProfile leaves a temporary directory behind,
\* except where os.RemoveAll itself fails (sidecar/cmd/main.go:277-290).
THEOREM TempDirsSafe == Spec => []TempDirsAccounted
<1>1. Spec => []TypeDirs
  BY InitTypeDirs, NextTypeDirs, PTL DEF Spec
<1> QED
  BY <1>1, PTL DEF TypeDirs

-----------------------------------------------------------------------------
(* The spacing of CPU profiles.                                            *)

\* A CPU profile is being taken.
TakingCpu == Collecting /\ job.kind = "profile"

\* What makes the spacing inductive: the time lastCPUTime is set to was read
\* before the collection began, and every CPU profile of this life was
\* requested no later than it.
CpuInv ==
  /\ pc = "cpuCheck" => now = clock
  /\ TakingCpu => job.start = now
  /\ \A i \in DOMAIN scrapes :
       /\ scrapes[i].life <= restarts
       /\ Running /\ scrapes[i].life = restarts /\ scrapes[i].kind = "profile"
          => IF TakingCpu THEN scrapes[i].at <= now
             ELSE lastCPUTime # Never /\ scrapes[i].at <= lastCPUTime

Spaced == TypeDirs /\ CpuInv /\ CpuScrapesSpaced

LEMMA InitSpaced == Init => CpuInv /\ CpuScrapesSpaced
  BY DEF Init, CpuInv, CpuScrapesSpaced, TakingCpu, Collecting

\* A step that takes no scrape keeps the spacing.
LEMMA SameScrapes ==
  ASSUME CpuScrapesSpaced, UNCHANGED scrapes
  PROVE  CpuScrapesSpaced'
  BY DEF CpuScrapesSpaced

\* Where the loop goes when a collection returns or a check does nothing: the
\* CPU profiles so far are no later than lastCPUTime.
LEMMA ResumeSpaced ==
  ASSUME Spaced, NEW k \in Kinds, Resume(k), UNCHANGED <<scrapes, restarts, clock>>,
         \/ TakingCpu /\ k = "profile"
         \/ pc = "cpuCheck" /\ CooledDown /\ k = "profile"
         \/ ~TakingCpu /\ k = "heap" /\ Running
  PROVE  CpuInv'
<1>1. ~TakingCpu' /\ pc' # "cpuCheck"
  BY DEF Resume, NextIteration, TakingCpu, Collecting
<1>2. ASSUME NEW i \in DOMAIN scrapes,
             scrapes[i].life = restarts, scrapes[i].kind = "profile"
      PROVE  lastCPUTime' # Never /\ scrapes[i].at <= lastCPUTime'
  <2>1. scrapes[i].at \in Nat /\ now \in Nat /\ lastCPUTime \in Nat \cup {Never}
    <3>1. scrapes \in Seq(Scrape) /\ LoopOK
      BY DEF Spaced, TypeDirs, TypeOK
    <3>2. scrapes[i] \in Scrape
      BY <3>1
    <3> QED
      BY <3>1, <3>2 DEF LoopOK, Scrape
  <2>2. CASE TakingCpu /\ k = "profile"
    BY <1>2, <2>1, <2>2 DEF Spaced, CpuInv, Resume, TakingCpu, Collecting, Running, Never
  <2>3. CASE pc = "cpuCheck" /\ CooledDown /\ k = "profile"
    BY <1>2, <2>1, <2>3, TimingAssumption
    DEF TimingAssumption, Spaced, CpuInv, Resume, TakingCpu, Collecting, Running, Never,
        CooledDown
  <2>4. CASE ~TakingCpu /\ k = "heap" /\ Running
    BY <1>2, <2>1, <2>4 DEF Spaced, CpuInv, Resume, Running
  <2> QED
    BY <2>2, <2>3, <2>4
<1> QED
  BY <1>1, <1>2 DEF Spaced, CpuInv

\* A request for a profile: when it is for the CPU, the cooldown since the last
\* one has passed.
LEMMA SendSpaced ==
  ASSUME Spaced, NEW k \in Kinds, pc' = "scrape", job'.kind = k, job'.start = clock,
         \/ k = "profile" /\ pc = "cpuCheck" /\ CooledDown
         \/ k = "heap" /\ pc = "memCheck",
         \/ UNCHANGED scrapes
         \/ scrapes' = Append(scrapes, [kind |-> k, at |-> clock, life |-> restarts]),
         UNCHANGED <<clock, now, lastCPUTime, restarts>>
  PROVE  CpuInv' /\ CpuScrapesSpaced'
<1> DEFINE s == [kind |-> k, at |-> clock, life |-> restarts]
<1>0. /\ scrapes \in Seq(Scrape) /\ clock \in Nat /\ now \in Nat /\ restarts \in Nat
      /\ lastCPUTime \in Nat \cup {Never}
  BY DEF Spaced, TypeDirs, TypeOK, LoopOK, CountersOK
<1>1. Running /\ ~TakingCpu /\ (k = "profile" => now = clock)
  BY DEF Running, TakingCpu, Collecting, Spaced, CpuInv
<1>2. TakingCpu' <=> k = "profile"
  BY DEF TakingCpu, Collecting
<1>3. ASSUME NEW i \in DOMAIN scrapes,
             scrapes[i].life = restarts, scrapes[i].kind = "profile"
      PROVE  /\ lastCPUTime # Never /\ scrapes[i].at <= lastCPUTime
             /\ k = "profile" => clock > scrapes[i].at + Cooldown
             /\ k = "profile" => scrapes[i].at <= now
  <2>1. scrapes[i] \in Scrape
    BY <1>0
  <2>2. scrapes[i].at \in Nat
    BY <2>1 DEF Scrape
  <2>3. lastCPUTime # Never /\ scrapes[i].at <= lastCPUTime
    BY <1>1, <1>3 DEF Spaced, CpuInv
  <2> QED
    BY <1>0, <1>1, <2>2, <2>3, TimingAssumption DEF TimingAssumption, CooledDown
<1>4. \A i \in DOMAIN scrapes : scrapes[i].life <= restarts
  BY DEF Spaced, CpuInv
<1>5. CASE UNCHANGED scrapes
  <2>1. CASE k = "profile"
    BY <1>1, <1>2, <1>3, <1>4, <1>5, <2>1, SameScrapes DEF CpuInv, Spaced
  <2>2. CASE k = "heap"
    BY <1>1, <1>2, <1>3, <1>4, <1>5, <2>2, SameScrapes DEF CpuInv, Spaced
  <2> QED
    BY <2>1, <2>2 DEF Kinds
<1>6. CASE scrapes' = Append(scrapes, s)
  <2>1. /\ DOMAIN scrapes' = DOMAIN scrapes \cup {Len(scrapes) + 1}
        /\ \A i \in DOMAIN scrapes : scrapes'[i] = scrapes[i] /\ i < Len(scrapes) + 1
        /\ scrapes'[Len(scrapes) + 1] = s
        /\ Len(scrapes) + 1 \notin DOMAIN scrapes
    BY <1>0, <1>6
  <2>2. CpuInv'
    <3>1. /\ \A i \in DOMAIN scrapes' : scrapes'[i].life <= restarts'
          /\ pc' # "cpuCheck" /\ (TakingCpu' => job'.start = now')
      BY <1>0, <1>1, <1>2, <1>4, <2>1
    <3>2. CASE k = "profile"
      BY <1>0, <1>1, <1>2, <1>3, <2>1, <3>1, <3>2 DEF CpuInv
    <3>3. CASE k = "heap"
      BY <1>0, <1>1, <1>2, <1>3, <2>1, <3>1, <3>3 DEF CpuInv
    <3> QED
      BY <3>2, <3>3 DEF Kinds
  <2>3. CpuScrapesSpaced'
    BY <1>3, <2>1 DEF Spaced, CpuScrapesSpaced
  <2> QED
    BY <2>2, <2>3
<1> QED
  BY <1>5, <1>6

\* Every step keeps the spacing and what it rests on.
LEMMA NextSpaced == Spaced /\ [Next]_vars => CpuInv' /\ CpuScrapesSpaced'
<1> SUFFICES ASSUME Spaced, [Next]_vars PROVE CpuInv' /\ CpuScrapesSpaced'
  OBVIOUS
<1>t. /\ clock \in Nat /\ restarts \in Nat /\ job \in Job /\ scrapes \in Seq(Scrape)
      /\ job.kind \in Kinds
  BY DEF Spaced, TypeDirs, TypeOK, LoopOK, CountersOK, Job
<1> USE DEF timeVars, loopVars, history
\* Nothing the spacing is about changes, or the process is gone or new.
<1>1. CASE \/ UNCHANGED vars
           \/ Tick \/ Signal \/ ReceiveTick \/ FetchFails \/ SkipCpu
  BY <1>1, SameScrapes
  DEF vars, Tick, Idle, Signal, ReceiveTick, FetchFails, SkipCpu, Spaced, CpuInv,
      TakingCpu, Collecting, Running
<1>2. CASE SkipHeap \/ ReceiveDone
  BY <1>2, SameScrapes
  DEF SkipHeap, NextIteration, ReceiveDone, Spaced, CpuInv, TakingCpu, Collecting, Running
<1>3. CASE Crash
  BY <1>3, SameScrapes DEF Crash, Forget, Spaced, CpuInv, TakingCpu, Collecting, Running
<1>4. CASE Restart
  <2>1. \A i \in DOMAIN scrapes : scrapes[i].life \in Nat /\ scrapes[i].life <= restarts
    <3> TAKE i \in DOMAIN scrapes
    <3>1. scrapes[i] \in Scrape
      BY <1>t
    <3> QED
      BY <3>1 DEF Scrape, Spaced, CpuInv
  <2>2. restarts' = restarts + 1 /\ UNCHANGED scrapes /\ pc' = "select"
    BY <1>4 DEF Restart
  <2>3. \A i \in DOMAIN scrapes' : scrapes'[i].life <= restarts' /\ scrapes'[i].life # restarts'
    BY <1>t, <2>1, <2>2
  <2> QED
    BY <2>2, <2>3, SameScrapes DEF Spaced, CpuInv, TakingCpu, Collecting
<1>5. CASE FetchReturns
  BY <1>5, SameScrapes DEF FetchReturns, Spaced, CpuInv, TakingCpu, Collecting, Running
<1>6. CASE ScrapeOK \/ CopyDone \/ PutStarts
  BY <1>6, <1>t, SameScrapes
  DEF ScrapeOK, CopyDone, PutStarts, Spaced, CpuInv, TakingCpu, Collecting, Running, Job
<1>7. CASE ScrapeFails \/ UploadSetupFails \/ PutOK \/ PutFails
  <2>1. /\ Collecting /\ Resume(job.kind) /\ UNCHANGED <<scrapes, restarts, clock>>
    BY <1>7 DEF ScrapeFails, UploadSetupFails, PutOK, PutFails, Return, Collecting
  <2>2. \/ TakingCpu /\ job.kind = "profile"
        \/ ~TakingCpu /\ job.kind = "heap" /\ Running
    BY <1>t, <2>1 DEF TakingCpu, Kinds, Collecting, Running
  <2> QED
    BY <1>t, <2>1, <2>2, ResumeSpaced, SameScrapes DEF Spaced
<1>8. ASSUME NEW k \in Kinds, Collect(k),
             \/ k = "profile" /\ pc = "cpuCheck" /\ CooledDown
             \/ k = "heap" /\ pc = "memCheck"
      PROVE  CpuInv' /\ CpuScrapesSpaced'
  <2>1. CASE Resume(k) /\ UNCHANGED scrapes
    <3>1. UNCHANGED <<scrapes, restarts, clock>>
      BY <1>8, <2>1 DEF Collect
    <3> QED
      BY <1>8, <2>1, <3>1, ResumeSpaced, SameScrapes
      DEF Spaced, TakingCpu, Collecting, Running
  <2>2. CASE /\ pc' = "scrape"
             /\ scrapes' = IF ctxDone THEN scrapes
                           ELSE Append(scrapes, [kind |-> k, at |-> clock,
                                                 life |-> restarts])
             /\ job' = [kind |-> k, start |-> clock, scrape |-> Len(scrapes'),
                        file |-> "none", sent |-> ~ctxDone]
             /\ UNCHANGED <<sample, now, lastCPUTime, leaks>>
    <3>1. job'.kind = k /\ job'.start = clock /\ UNCHANGED <<clock, restarts>>
      BY <1>8, <2>2 DEF Collect
    <3> QED
      BY <1>8, <2>2, <3>1, SendSpaced
  <2> QED
    BY <1>8, <2>1, <2>2 DEF Collect
<1>9. CASE CollectCpu \/ CollectHeap
  BY <1>8, <1>9 DEF CollectCpu, CollectHeap, Kinds
<1> QED
  BY <1>1, <1>2, <1>3, <1>4, <1>5, <1>6, <1>7, <1>9
  DEF Next, World, Monitor, Collector

\* The types, the invariant and the spacing hold together.
LEMMA SpacedHolds == Spec => []Spaced
<1>1. Init => Spaced
  BY InitTypeDirs, InitSpaced DEF Spaced
<1>2. Spaced /\ [Next]_vars => Spaced'
  BY NextTypeDirs, NextSpaced DEF Spaced
<1> QED
  BY <1>1, <1>2, PTL DEF Spec

\* Two CPU profiles of one life of the sidecar are requested more than the
\* cooldown apart, for every cooldown, period and timeout, however long the
\* collections take and whatever fails (sidecar/cmd/main.go:550-562).
THEOREM CooldownKept == Spec => []CpuScrapesSpaced
  BY SpacedHolds, PTL DEF Spaced

-----------------------------------------------------------------------------
(* The accounting of uploads and of excesses.                              *)

Holding == pc \in {"upload", "put"}

\* The equation of UploadsAccounted depends on four counters and on pc only.
LEMMA UploadsSum ==
  ASSUME metrics \in Metrics, uncounted \in Nat, UploadsAccounted,
         metrics' \in Metrics, uncounted' \in Nat,
         NEW g \in 0 .. 1, NEW u \in 0 .. 1, NEW e \in 0 .. 1, NEW c \in 0 .. 1,
         metrics'.generated = metrics.generated + g,
         metrics'.uploaded = metrics.uploaded + u,
         metrics'.uploadErrors = metrics.uploadErrors + e,
         uncounted' = uncounted + c,
         Count(Holding') + u + e + c = Count(Holding) + g
  PROVE  UploadsAccounted'
<1>1. UploadsAccounted' <=>
        metrics'.generated = metrics'.uploaded + metrics'.uploadErrors + uncounted'
                             + Count(Holding')
  BY DEF UploadsAccounted, Holding, Count
<1>2. /\ Count(Holding) \in Nat /\ Count(Holding') \in Nat
      /\ metrics.generated = metrics.uploaded + metrics.uploadErrors + uncounted
                             + Count(Holding)
  BY DEF UploadsAccounted, Holding, Count
<1>3. /\ metrics.generated \in Nat /\ metrics.uploaded \in Nat
      /\ metrics.uploadErrors \in Nat
  BY DEF Metrics
<1> QED
  BY <1>1, <1>2, <1>3

\* Every step keeps the accounting of uploads.
LEMMA NextUploads ==
  ASSUME TypeDirs, TypeDirs', UploadsAccounted, [Next]_vars
  PROVE  UploadsAccounted'
<1>t. /\ metrics \in Metrics /\ uncounted \in Nat
      /\ metrics' \in Metrics /\ uncounted' \in Nat
  BY DEF TypeDirs, TypeOK, CountersOK
<1>n. /\ metrics.generated \in Nat /\ metrics.uploaded \in Nat
      /\ metrics.uploadErrors \in Nat /\ uncounted \in Nat
  BY <1>t DEF Metrics
<1>k. /\ Holding => Count(Holding) = 1
      /\ ~Holding => Count(Holding) = 0
      /\ Holding' => Count(Holding') = 1
      /\ ~Holding' => Count(Holding') = 0
  BY CountFacts, Zenon DEF Count, Holding
<1> USE DEF timeVars, loopVars, history
\* Only the end of the copy opens an account, only the upload closes one.
<1>1. ASSUME UNCHANGED <<metrics, uncounted>>, Holding' <=> Holding
      PROVE  UploadsAccounted'
  <2>1. Count(Holding') = Count(Holding)
    BY <1>1, <1>k
  <2> QED
    BY <1>1, <1>n, <1>t, <1>k, <2>1, UploadsSum
<1>2. CASE \/ UNCHANGED vars
           \/ Tick \/ Signal \/ ReceiveDone \/ ReceiveTick \/ FetchFails
           \/ SkipCpu \/ SkipHeap \/ ScrapeOK \/ PutStarts
  BY <1>1, <1>2
  DEF vars, Tick, Signal, ReceiveDone, ReceiveTick, FetchFails, SkipCpu, SkipHeap,
      NextIteration, ScrapeOK, PutStarts, Holding
<1>3. CASE Crash \/ Restart
  BY <1>3 DEF Crash, Restart, Forget, NoMetrics, UploadsAccounted, Count
<1>4. CASE FetchReturns
  <2>1. /\ metrics'.generated = metrics.generated + 0
        /\ metrics'.uploaded = metrics.uploaded + 0
        /\ metrics'.uploadErrors = metrics.uploadErrors + 0
        /\ uncounted' = uncounted + 0
    BY <1>4, <1>t, <1>n DEF FetchReturns, Metrics
  <2>2. Count(Holding') + 0 + 0 + 0 = Count(Holding) + 0
    <3>1. ~Holding /\ ~Holding'
      BY <1>4 DEF FetchReturns, Holding
    <3> QED
      BY <3>1, <1>k
  <2> QED
    BY <1>t, <2>1, <2>2, UploadsSum
<1>5. CASE CollectCpu \/ CollectHeap
  <2>1. PICK k \in Kinds : Collect(k) /\ ~Holding
    BY <1>5 DEF CollectCpu, CollectHeap, Kinds, Holding
  <2>2. ~Holding'
    BY <2>1 DEF Collect, Resume, NextIteration, Holding
  <2> QED
    BY <1>1, <2>1, <2>2 DEF Collect
<1>6. CASE ScrapeFails
  BY <1>1, <1>6 DEF ScrapeFails, Return, Resume, NextIteration, Holding
<1>7. CASE CopyDone
  <2>1. /\ metrics'.generated = metrics.generated + 1
        /\ metrics'.uploaded = metrics.uploaded + 0
        /\ metrics'.uploadErrors = metrics.uploadErrors + 0
        /\ uncounted' = uncounted + 0
    BY <1>7, <1>t, <1>n DEF CopyDone, Metrics
  <2>2. ~Holding /\ Holding'
    BY <1>7 DEF CopyDone, Holding
  <2>3. Count(Holding) = 0 /\ Count(Holding') = 1
    BY <2>2, <1>k, Zenon
  <2>4. Count(Holding') + 0 + 0 + 0 = Count(Holding) + 1
    BY <2>3
  <2> QED
    BY <1>t, <2>1, <2>4, UploadsSum
\* The three ways an upload ends.
<1>8. ASSUME UploadSetupFails \/ PutOK \/ PutFails
      PROVE  Count(Holding') + 1 = Count(Holding) + 0
  <2>1. Holding /\ ~Holding'
    BY <1>8 DEF UploadSetupFails, PutOK, PutFails, Return, Resume, NextIteration, Holding
  <2>2. Count(Holding) = 1 /\ Count(Holding') = 0
    BY <2>1, <1>k, Zenon
  <2> QED
    BY <2>2
<1>9. CASE UploadSetupFails
  <2>1. /\ metrics'.generated = metrics.generated + 0
        /\ metrics'.uploaded = metrics.uploaded + 0
        /\ metrics'.uploadErrors = metrics.uploadErrors + 0
        /\ uncounted' = uncounted + 1
    BY <1>9, <1>n DEF UploadSetupFails
  <2>2. Count(Holding') + 0 + 0 + 1 = Count(Holding) + 0
    BY <1>8, <1>9, <1>k
  <2> QED
    BY <1>t, <2>1, <2>2, UploadsSum
<1>10. CASE PutOK
  <2>1. /\ metrics'.generated = metrics.generated + 0
        /\ metrics'.uploaded = metrics.uploaded + 1
        /\ metrics'.uploadErrors = metrics.uploadErrors + 0
        /\ uncounted' = uncounted + 0
    BY <1>10, <1>t, <1>n DEF PutOK, Metrics
  <2>2. Count(Holding') + 1 + 0 + 0 = Count(Holding) + 0
    BY <1>8, <1>10, <1>k
  <2> QED
    BY <1>t, <2>1, <2>2, UploadsSum
<1>11. CASE PutFails
  <2>1. /\ metrics'.generated = metrics.generated + 0
        /\ metrics'.uploaded = metrics.uploaded + 0
        /\ metrics'.uploadErrors = metrics.uploadErrors + 1
        /\ uncounted' = uncounted + 0
    BY <1>11, <1>t, <1>n DEF PutFails, Metrics
  <2>2. Count(Holding') + 0 + 1 + 0 = Count(Holding) + 0
    BY <1>8, <1>11, <1>k
  <2> QED
    BY <1>t, <2>1, <2>2, UploadsSum
<1> QED
  BY <1>2, <1>3, <1>4, <1>5, <1>6, <1>7, <1>9, <1>10, <1>11
  DEF Next, World, Monitor, Collector

\* A generated profile is uploaded, counted as an upload error, in the hands of
\* UploadToS3, or one of those it dropped before PutObject, at every moment of
\* a life of the sidecar (sidecar/cmd/main.go:388, storage/s3.go:40-96).
THEOREM UploadsCounted == Spec => []UploadsAccounted
<1>1. Init => TypeDirs /\ UploadsAccounted
  BY InitTypeDirs DEF Init, UploadsAccounted, NoMetrics, Count
<1>2. TypeDirs /\ UploadsAccounted /\ [Next]_vars => (TypeDirs /\ UploadsAccounted)'
  BY NextTypeDirs, NextUploads
<1> QED
  BY <1>1, <1>2, PTL DEF Spec

\* The two halves of ExcessServed; of the second, what makes it inductive: the
\* excess of the sample in hand is counted before its CPU attempt is made.
HeapExcess == metrics.memExceeded = attempts.heap + Count(HeapDue)
CpuExcess == /\ attempts.profile <= metrics.cpuExceeded
             /\ pc = "cpuCheck" /\ sample.cpu => attempts.profile + 1 <= metrics.cpuExceeded
Excess == TypeDirs /\ HeapExcess /\ CpuExcess

\* A step that counts h excesses of memory and makes a attempts.
LEMMA HeapSum ==
  ASSUME HeapExcess, metrics.memExceeded \in Nat, attempts.heap \in Nat,
         NEW h \in 0 .. 1, NEW a \in 0 .. 1,
         metrics'.memExceeded = metrics.memExceeded + h,
         attempts'.heap = attempts.heap + a,
         Count(HeapDue') + a = Count(HeapDue) + h
  PROVE  HeapExcess'
<1>1. HeapExcess' <=> metrics'.memExceeded = attempts'.heap + Count(HeapDue')
  BY DEF HeapExcess, HeapDue, Count, Collecting
<1>2. /\ Count(HeapDue) \in Nat /\ Count(HeapDue') \in Nat
      /\ metrics.memExceeded = attempts.heap + Count(HeapDue)
  BY DEF HeapExcess, HeapDue, Count, Collecting
<1> QED
  BY <1>1, <1>2

\* Every step keeps both halves.
LEMMA NextExcess ==
  ASSUME Excess, [Next]_vars
  PROVE  HeapExcess' /\ CpuExcess'
<1>n. /\ metrics \in Metrics /\ attempts \in [profile : Nat, heap : Nat]
      /\ metrics.memExceeded \in Nat /\ metrics.cpuExceeded \in Nat
      /\ attempts.heap \in Nat /\ attempts.profile \in Nat
  BY DEF Excess, TypeDirs, TypeOK, CountersOK, Metrics
<1>j. job \in Job /\ job.kind \in Kinds
  BY DEF Excess, TypeDirs, TypeOK, LoopOK, Job
<1>e. HeapExcess /\ CpuExcess
  BY DEF Excess
<1>k. ASSUME NEW p, NEW q
      PROVE  /\ (p <=> q) => Count(p) = Count(q)
             /\ p => Count(p) = 1
             /\ ~p => Count(p) = 0
  BY DEF Count
<1> USE DEF timeVars, loopVars, history
\* The counters stay, and so does what is still to come.
<1>1. ASSUME UNCHANGED attempts, metrics'.memExceeded = metrics.memExceeded,
             metrics'.cpuExceeded = metrics.cpuExceeded, HeapDue' <=> HeapDue,
             pc' = "cpuCheck" => pc = "cpuCheck" /\ sample' = sample
      PROVE  HeapExcess' /\ CpuExcess'
  <2>1. Count(HeapDue') = Count(HeapDue)
    BY <1>1, <1>k, Zenon
  <2>2. Count(HeapDue) \in Nat
    BY CountFacts, Zenon
  <2>3. HeapExcess'
    <3>1. /\ metrics'.memExceeded = metrics.memExceeded + 0
          /\ attempts'.heap = attempts.heap + 0
          /\ Count(HeapDue') + 0 = Count(HeapDue) + 0
      BY <1>1, <1>n, <2>1, <2>2
    <3> QED
      BY <1>e, <1>n, <3>1, HeapSum
  <2>4. CpuExcess'
    BY <1>1, <1>e DEF CpuExcess
  <2> QED
    BY <2>3, <2>4
<1>2. CASE \/ UNCHANGED vars
           \/ Tick \/ Signal \/ ReceiveDone \/ ReceiveTick \/ FetchFails
           \/ SkipCpu \/ SkipHeap
  BY <1>1, <1>2
  DEF vars, Tick, Signal, ReceiveDone, ReceiveTick, FetchFails, SkipCpu, SkipHeap,
      NextIteration, NoSample, HeapDue, Collecting
<1>3. CASE Crash \/ Restart
  <2>1. ~HeapDue' /\ metrics' = NoMetrics /\ attempts' = NoAttempts /\ pc' # "cpuCheck"
    BY <1>3 DEF Crash, Restart, Forget, HeapDue, Collecting
  <2>2. HeapExcess'
    BY <2>1 DEF HeapExcess, Count, HeapDue, Collecting, NoMetrics, NoAttempts
  <2>3. CpuExcess'
    BY <2>1 DEF CpuExcess, NoMetrics, NoAttempts
  <2> QED
    BY <2>2, <2>3
<1>4. CASE FetchReturns
  <2>1. PICK cpu, mem \in BOOLEAN :
          /\ sample' = [cpu |-> cpu, mem |-> mem]
          /\ metrics' = [metrics EXCEPT !.cpuExceeded = @ + Count(cpu),
                                        !.memExceeded = @ + Count(mem)]
    BY <1>4 DEF FetchReturns
  <2>2. /\ Count(cpu) \in 0 .. 1 /\ Count(mem) \in 0 .. 1 /\ (cpu => Count(cpu) = 1)
    BY DEF Count
  <2>3. /\ metrics'.memExceeded = metrics.memExceeded + Count(mem)
        /\ metrics'.cpuExceeded = metrics.cpuExceeded + Count(cpu)
        /\ attempts' = attempts
    BY <1>4, <1>n, <2>1 DEF FetchReturns, Metrics
  <2>4. ~HeapDue /\ (HeapDue' <=> mem)
    BY <1>4, <2>1 DEF FetchReturns, HeapDue, Collecting
  <2>5. Count(HeapDue) = 0 /\ Count(HeapDue') = Count(mem)
    BY <1>k, <2>4, Zenon
  <2>6. HeapExcess'
    <3>1. /\ attempts'.heap = attempts.heap + 0
          /\ Count(HeapDue') + 0 = Count(HeapDue) + Count(mem)
      BY <1>n, <2>2, <2>3, <2>5
    <3> QED
      BY <1>e, <1>n, <2>2, <2>3, <3>1, HeapSum
  <2>7. CpuExcess'
    <3>1. sample'.cpu = cpu
      BY <2>1
    <3>2. attempts.profile <= metrics.cpuExceeded
      BY <1>e DEF CpuExcess
    <3>3. attempts.profile <= metrics'.cpuExceeded
      BY <1>n, <2>2, <2>3, <3>2
    <3>4. ASSUME cpu PROVE attempts.profile + 1 <= metrics'.cpuExceeded
      <4>1. Count(cpu) = 1
        BY <2>2, <3>4, Zenon
      <4> QED
        BY <1>n, <2>3, <3>2, <4>1
    <3> QED
      BY <2>3, <3>1, <3>3, <3>4 DEF CpuExcess
  <2> QED
    BY <2>6, <2>7
\* The attempt takes the place of the excess it serves.
<1>5. CASE CollectCpu
  <2>1. Collect("profile") /\ sample.cpu /\ pc = "cpuCheck"
    BY <1>5 DEF CollectCpu
  <2>2. /\ attempts'.heap = attempts.heap + 0
        /\ attempts'.profile = attempts.profile + 1
        /\ metrics' = metrics
    BY <1>n, <2>1 DEF Collect
  <2>3. pc' # "cpuCheck" /\ (HeapDue' <=> HeapDue)
    BY <2>1 DEF Collect, Resume, HeapDue, Collecting
  <2>4. HeapExcess'
    <3>1. Count(HeapDue') = Count(HeapDue)
      BY <1>k, <2>3, Zenon
    <3>2. /\ Count(HeapDue') + 0 = Count(HeapDue) + 0
          /\ metrics'.memExceeded = metrics.memExceeded + 0
      BY <1>n, <2>2, <3>1
    <3> QED
      BY <1>e, <1>n, <2>2, <3>2, HeapSum
  <2>5. CpuExcess'
    BY <1>e, <2>1, <2>2, <2>3 DEF CpuExcess
  <2> QED
    BY <2>4, <2>5
<1>6. CASE CollectHeap
  <2>1. Collect("heap") /\ sample.mem /\ pc = "memCheck"
    BY <1>6 DEF CollectHeap
  <2>2. /\ attempts'.heap = attempts.heap + 1
        /\ attempts'.profile = attempts.profile
        /\ metrics' = metrics
    BY <1>n, <2>1 DEF Collect
  <2>3. pc' # "cpuCheck" /\ HeapDue /\ ~HeapDue'
    BY <2>1 DEF Collect, Resume, NextIteration, HeapDue, Collecting
  <2>4. HeapExcess'
    <3>1. Count(HeapDue') = 0 /\ Count(HeapDue) = 1
      BY <1>k, <2>3, Zenon
    <3>2. /\ Count(HeapDue') + 1 = Count(HeapDue) + 0
          /\ metrics'.memExceeded = metrics.memExceeded + 0
      BY <1>n, <2>2, <3>1
    <3> QED
      BY <1>e, <1>n, <2>2, <3>2, HeapSum
  <2>5. CpuExcess'
    BY <1>e, <2>2, <2>3 DEF CpuExcess
  <2> QED
    BY <2>4, <2>5
\* The steps of a collection: what waits behind a CPU profile keeps waiting,
\* and is next when the profile is over.
<1>7. CASE Collector
  <2>1. /\ UNCHANGED attempts /\ metrics'.memExceeded = metrics.memExceeded
        /\ metrics'.cpuExceeded = metrics.cpuExceeded
    BY <1>7, <1>n
    DEF Collector, ScrapeFails, ScrapeOK, CopyDone, UploadSetupFails, PutStarts, PutOK,
        PutFails, Metrics
  <2>2. CASE ScrapeOK \/ CopyDone \/ PutStarts
    <3>1. Collecting /\ Collecting' /\ job'.kind = job.kind /\ sample' = sample
      BY <2>2, <1>j DEF ScrapeOK, CopyDone, PutStarts, Collecting, Job
    <3> QED
      BY <1>1, <2>1, <3>1 DEF HeapDue, Collecting
  <2>3. CASE ScrapeFails \/ UploadSetupFails \/ PutOK \/ PutFails
    <3>1. Collecting /\ Resume(job.kind)
      BY <2>3 DEF ScrapeFails, UploadSetupFails, PutOK, PutFails, Return, Collecting
    <3>2. (HeapDue' <=> HeapDue) /\ pc' # "cpuCheck"
      BY <1>j, <3>1 DEF Resume, NextIteration, HeapDue, Collecting, Kinds
    <3> QED
      BY <1>1, <2>1, <3>2
  <2> QED
    BY <1>7, <2>2, <2>3 DEF Collector
<1> QED
  BY <1>2, <1>3, <1>4, <1>5, <1>6, <1>7 DEF Next, World, Monitor

\* Every excess of memory that was counted gets one heap attempt, even behind a
\* CPU profile that fails, times out or is cancelled, and no CPU attempt is made
\* without a counted excess (sidecar/cmd/main.go:543-581).
THEOREM ExcessesServed == Spec => []ExcessServed
<1>1. Init => Excess
  BY InitTypeDirs
  DEF Init, Excess, HeapExcess, CpuExcess, HeapDue, Collecting, NoMetrics, NoAttempts, Count
<1>2. Excess /\ [Next]_vars => Excess'
  BY NextTypeDirs, NextExcess DEF Excess
<1>3. Excess => ExcessServed
  BY DEF Excess, HeapExcess, CpuExcess, ExcessServed
<1> QED
  BY <1>1, <1>2, <1>3, PTL DEF Spec

-----------------------------------------------------------------------------
(* What is in the bucket.                                                  *)

\* The record of the request an object or a job came from.
FromScrape(kind, at, n, log) ==
  n \in DOMAIN log /\ log[n].kind = kind /\ log[n].at = at

\* Where the profile in hand came from, once the target has been asked.
Provenance ==
  /\ pc \in {"copy", "upload", "put"} \/ (pc = "scrape" /\ job.sent)
     => FromScrape(job.kind, job.start, job.scrape, scrapes)
  /\ pc \in {"upload", "put"} => job.file = "complete"

Faithful == TypeDirs /\ Provenance /\ ObjectsFaithful

\* The log of requests only grows.
LEMMA LogGrows ==
  ASSUME TypeDirs, [Next]_vars
  PROVE  \A n \in DOMAIN scrapes : n \in DOMAIN scrapes' /\ scrapes'[n] = scrapes[n]
<1>t. scrapes \in Seq(Scrape) /\ clock \in Nat /\ restarts \in Nat
  BY DEF TypeDirs, TypeOK, CountersOK
<1> USE DEF history
<1>1. ASSUME NEW s \in Scrape, scrapes' = Append(scrapes, s)
      PROVE  \A n \in DOMAIN scrapes : n \in DOMAIN scrapes' /\ scrapes'[n] = scrapes[n]
  BY <1>t, <1>1
<1>2. ASSUME NEW k \in Kinds, Collect(k)
      PROVE  UNCHANGED scrapes \/ \E s \in Scrape : scrapes' = Append(scrapes, s)
  <2>1. [kind |-> k, at |-> clock, life |-> restarts] \in Scrape
    BY <1>t DEF Scrape
  <2> QED
    BY <1>2, <2>1 DEF Collect
<1>3. CASE CollectCpu \/ CollectHeap
  BY <1>1, <1>2, <1>3 DEF CollectCpu, CollectHeap, Kinds
<1>4. CASE UNCHANGED scrapes
  BY <1>4
<1> QED
  BY <1>3, <1>4 DEF Next, vars, World, Tick, Signal, Crash, Restart, Monitor, ReceiveDone,
     ReceiveTick, FetchFails, FetchReturns, SkipCpu, SkipHeap, Collector, ScrapeFails,
     ScrapeOK, CopyDone, UploadSetupFails, PutStarts, PutOK, PutFails

\* Every step keeps the origin of the profile in hand and of the objects.
LEMMA NextFaithful ==
  ASSUME Faithful, [Next]_vars
  PROVE  Provenance' /\ ObjectsFaithful'
<1>t. /\ scrapes \in Seq(Scrape) /\ job \in Job /\ job.kind \in Kinds
      /\ clock \in Nat /\ restarts \in Nat
  BY DEF Faithful, TypeDirs, TypeOK, LoopOK, CountersOK, Job
<1>g. \A n \in DOMAIN scrapes : n \in DOMAIN scrapes' /\ scrapes'[n] = scrapes[n]
  BY LogGrows DEF Faithful
<1>o. ASSUME NEW o, o \in bucket
      PROVE  /\ o.file = "complete" /\ o.scrape \in DOMAIN scrapes'
             /\ o.kind = scrapes'[o.scrape].kind
             /\ o.stamp = Stamp(scrapes'[o.scrape].at)
  BY <1>g, <1>o DEF Faithful, ObjectsFaithful
<1> USE DEF timeVars, loopVars, history
\* The bucket: either nothing is stored, or the job of an upload is.
<1>1. \/ UNCHANGED bucket
      \/ pc = "put" /\ bucket' = Stored(bucket, Object(job))
  BY DEF Next, vars, World, Tick, Signal, Crash, Restart, Monitor, ReceiveDone, ReceiveTick,
     FetchFails, FetchReturns, CollectCpu, SkipCpu, CollectHeap, SkipHeap, Collect, Collector,
     ScrapeFails, ScrapeOK, CopyDone, UploadSetupFails, PutStarts, PutOK, PutFails
<1>2. ObjectsFaithful'
  <2>1. CASE UNCHANGED bucket
    BY <1>o, <2>1 DEF ObjectsFaithful
  <2>2. CASE pc = "put" /\ bucket' = Stored(bucket, Object(job))
    <3>1. FromScrape(job.kind, job.start, job.scrape, scrapes') /\ job.file = "complete"
      BY <1>g, <2>2 DEF Faithful, Provenance, FromScrape
    <3>2. ASSUME NEW o, o = Object(job)
          PROVE  /\ o.file = "complete" /\ o.scrape \in DOMAIN scrapes'
                 /\ o.kind = scrapes'[o.scrape].kind
                 /\ o.stamp = Stamp(scrapes'[o.scrape].at)
      BY <3>1, <3>2 DEF Object, FromScrape
    <3>3. \A o \in bucket' : o \in bucket \/ o = Object(job)
      BY <2>2 DEF Stored
    <3> QED
      BY <1>o, <3>2, <3>3 DEF ObjectsFaithful
  <2> QED
    BY <1>1, <2>1, <2>2
\* The profile in hand: asked for, or carried on.
<1>3. CASE pc' \notin {"scrape", "copy", "upload", "put"}
  BY <1>2, <1>3 DEF Provenance
<1>4. CASE UNCHANGED <<pc, job>>
  BY <1>2, <1>g, <1>4 DEF Faithful, Provenance, FromScrape
<1>5. CASE ScrapeOK \/ CopyDone \/ PutStarts
  <2>1. /\ job'.kind = job.kind /\ job'.start = job.start /\ job'.scrape = job.scrape
        /\ pc \in {"copy", "upload"} \/ (pc = "scrape" /\ job.sent)
        /\ pc' = "copy" \/ job'.file = "complete"
        /\ pc' \in {"copy", "upload", "put"}
    BY <1>t, <1>5 DEF ScrapeOK, CopyDone, PutStarts, Job, Faithful, Provenance
  <2>2. FromScrape(job'.kind, job'.start, job'.scrape, scrapes')
    BY <1>g, <2>1 DEF Faithful, Provenance, FromScrape
  <2> QED
    BY <1>2, <2>1, <2>2 DEF Provenance
<1>6. ASSUME NEW k \in Kinds, Collect(k), pc' = "scrape"
      PROVE  Provenance'
  <2>1. CASE ~ctxDone /\ scrapes' = Append(scrapes, [kind |-> k, at |-> clock,
                                                     life |-> restarts])
             /\ job' = [kind |-> k, start |-> clock, scrape |-> Len(scrapes'),
                        file |-> "none", sent |-> ~ctxDone]
    <3>1. /\ Len(scrapes') \in DOMAIN scrapes'
          /\ scrapes'[Len(scrapes')] = [kind |-> k, at |-> clock, life |-> restarts]
      BY <1>t, <2>1
    <3> QED
      BY <1>6, <2>1, <3>1 DEF Provenance, FromScrape
  <2>2. CASE ctxDone /\ job' = [kind |-> k, start |-> clock, scrape |-> Len(scrapes'),
                                file |-> "none", sent |-> ~ctxDone]
    BY <1>6, <2>2 DEF Provenance
  <2> QED
    BY <1>6, <2>1, <2>2 DEF Collect, Resume, NextIteration
<1>7. CASE CollectCpu \/ CollectHeap
  <2>1. PICK k \in Kinds : Collect(k)
    BY <1>7 DEF CollectCpu, CollectHeap, Kinds
  <2>2. pc' = "scrape" \/ pc' \notin {"scrape", "copy", "upload", "put"}
    BY <2>1 DEF Collect, Resume, NextIteration
  <2> QED
    BY <1>2, <1>3, <1>6, <2>1, <2>2
<1>8. CASE ScrapeFails \/ UploadSetupFails \/ PutOK \/ PutFails
  <2>1. Resume(job.kind)
    BY <1>8 DEF ScrapeFails, UploadSetupFails, PutOK, PutFails, Return
  <2> QED
    BY <1>2, <1>3, <2>1 DEF Resume, NextIteration
<1>9. CASE \/ UNCHANGED vars \/ Tick \/ Signal
           \/ Crash \/ Restart \/ ReceiveDone \/ ReceiveTick \/ FetchFails
           \/ FetchReturns \/ SkipCpu \/ SkipHeap
  <2>1. UNCHANGED <<pc, job>> \/ pc' \notin {"scrape", "copy", "upload", "put"}
    BY <1>9
    DEF vars, Tick, Signal, Crash, Restart, ReceiveDone, ReceiveTick, FetchFails,
        FetchReturns, SkipCpu, SkipHeap, NextIteration
  <2> QED
    BY <1>2, <1>3, <1>4, <2>1
<1> QED
  BY <1>2, <1>5, <1>7, <1>8, <1>9 DEF Next, World, Monitor, Collector

\* An object in the bucket is a whole profile of the kind and the second its key
\* names, whatever was interrupted, cancelled, retried or overwritten
\* (sidecar/cmd/main.go:293-294, 380-388, storage/s3.go:80).
THEOREM BucketFaithful == Spec => []ObjectsFaithful
<1>1. Init => Faithful
  BY InitTypeDirs DEF Init, Faithful, Provenance, ObjectsFaithful
<1>2. Faithful /\ [Next]_vars => Faithful'
  BY NextTypeDirs, NextFaithful DEF Faithful
<1> QED
  BY <1>1, <1>2, PTL DEF Spec, Faithful
=============================================================================
