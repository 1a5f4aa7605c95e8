------------------------------ MODULE Sidecar ------------------------------
(***************************************************************************)
(* The profiling sidecar, sidecar/cmd/main.go with the S3 client of        *)
(* sidecar/pkg/storage/s3.go: one goroutine runs monitorResourceUsage (a   *)
(* select over the context and a ticker, a kubelet query, the threshold    *)
(* checks) and calls collectAndUploadProfile from inside the loop, so a    *)
(* slow scrape or upload delays everything behind it.  A second goroutine  *)
(* cancels the context at the first termination signal.                    *)
(*                                                                         *)
(* Time is discrete and read from `clock'.  It advances only while the     *)
(* loop waits for something outside it; local computation takes no time,   *)
(* the loop may be late for a tick by any amount, and a timer that is due  *)
(* (http.Client.Timeout, a cancelled context) acts before the next tick of *)
(* the clock.                                                              *)
(***************************************************************************)
EXTENDS Integers, Sequences, FiniteSets

CONSTANTS
    Period,             \* config.MonitoringPeriod
    Cooldown,           \* time.Minute*5 between CPU profiles
    ProfileDuration,    \* config.ProfileDuration
    TimeoutSlack,       \* the 10 s added to it for http.Client.Timeout
    ServerSeconds,      \* how long the pprof server samples the CPU when the
                        \* URL carries no ?seconds= (net/http/pprof: 30 s)
    UnitsPerSecond,     \* units of `clock' in a second of the file name
    Horizon,            \* bound: the clock stops here
    MaxRestarts,        \* bound: container restarts
    MaxLeaks            \* bound: failures of os.RemoveAll in one life

ASSUME TimingAssumption ==
    /\ Period \in Nat \ {0}
    /\ Cooldown \in Nat
    /\ ProfileDuration \in Nat
    /\ TimeoutSlack \in Nat
    /\ ServerSeconds \in Nat
    /\ UnitsPerSecond \in Nat \ {0}
ASSUME BoundsAssumption ==
    Horizon \in Nat /\ MaxRestarts \in Nat /\ MaxLeaks \in Nat

VARIABLES
    clock,
    nextTick,       \* when the ticker fires next
    tickPending,    \* the one-element buffer of ticker.C
    ctxDone,        \* cancel() was called
    hasURL,         \* config.ScrapTarget.ScrapeURL makes a usable request
    pc,             \* where the monitor goroutine is
    sample,         \* cpuThresholdExceeded, memThresholdExceeded
    now,            \* the local `now' of the loop body
    lastCPUTime,    \* time of the last CPU attempt, or Never
    job,            \* locals of collectAndUploadProfile
    metrics,        \* the Prometheus counters, lost with the process
    tempDirs,       \* pprof-* directories in the container's file system
    bucket,         \* objects in S3
    restarts,       \* history: which life of the container this is
    scrapes,        \* history: requests the target answered or is answering
    attempts,       \* history: calls of collectAndUploadProfile in this life
    leaks,          \* history: failed os.RemoveAll in this life
    uncounted       \* history: uploads of this life that failed before PutObject

loopVars == <<pc, sample, now, lastCPUTime, job>>
timeVars == <<clock, nextTick, tickPending>>
history  == <<restarts, scrapes, attempts, leaks, uncounted>>
vars == <<timeVars, ctxDone, hasURL, loopVars, metrics, tempDirs, bucket,
          history>>

-----------------------------------------------------------------------------
Never == -1                      \* lastCPUTime.IsZero()
Kinds == {"profile", "heap"}     \* the last path element of the scraped URL
NoSample == [cpu |-> FALSE, mem |-> FALSE]
NoJob == [kind |-> "heap", start |-> 0, scrape |-> 0, file |-> "none",
          sent |-> FALSE]
NoMetrics == [cpuExceeded |-> 0, memExceeded |-> 0, generated |-> 0,
              uploaded |-> 0, uploadErrors |-> 0]
NoAttempts == [profile |-> 0, heap |-> 0]
Count(b) == IF b THEN 1 ELSE 0

Collecting == pc \in {"scrape", "copy", "upload", "put"}
Running == pc \notin {"exited", "down"}

\* Mutant: an http.Client without Timeout.
Deadline_None == Horizon + 1

\* The timeout of http.Client runs from the call of Do to the end of the body.
Deadline == job.start + ProfileDuration + TimeoutSlack

\* Mutant: the cooldown ends a moment early.
CooledDown_Early == lastCPUTime = Never \/ now - lastCPUTime >= Cooldown

\* now.Sub(lastCPUTime) > time.Minute*5, or no CPU attempt yet.
CooledDown == lastCPUTime = Never \/ now - lastCPUTime > Cooldown

\* The object a PutObject of this job stores: the key is made of the kind and
\* of the second in which the job began (pod and container are fixed), so a
\* later object with the same key replaces it.
Stamp(t) == t \div UnitsPerSecond
Object(j) == [kind |-> j.kind, stamp |-> Stamp(j.start), scrape |-> j.scrape,
              file |-> j.file]
SameKey(o, p) == o.kind = p.kind /\ o.stamp = p.stamp
Stored(b, o) == {p \in b : ~SameKey(p, o)} \cup {o}

-----------------------------------------------------------------------------
Init ==
    /\ clock = 0
    /\ nextTick = Period
    /\ tickPending = FALSE
    /\ ctxDone = FALSE
    /\ hasURL \in BOOLEAN
    /\ pc = "select"
    /\ sample = NoSample
    /\ now = 0
    /\ lastCPUTime = Never
    /\ job = NoJob
    /\ metrics = NoMetrics
    /\ tempDirs = 0
    /\ bucket = {}
    /\ restarts = 0
    /\ scrapes = <<>>
    /\ attempts = NoAttempts
    /\ leaks = 0
    /\ uncounted = 0

-----------------------------------------------------------------------------
(* Time, and the world outside the process.                                *)

\* The loop waits, and no timer of its own is due.
Idle ==
    \/ pc \in {"select", "fetch", "exited", "down"}
    \/ pc = "put" /\ ~ctxDone
    \/ pc \in {"scrape", "copy"} /\ ~ctxDone /\ clock < Deadline

\* A unit of time passes.  The ticker keeps its grid and drops a tick whose
\* predecessor has not been received.
Tick ==
    /\ clock < Horizon
    /\ Idle
    /\ clock' = clock + 1
    /\ IF clock' = nextTick
       THEN nextTick' = nextTick + Period /\ tickPending' = Running
       ELSE UNCHANGED <<nextTick, tickPending>>
    /\ UNCHANGED <<ctxDone, hasURL, loopVars, metrics, tempDirs, bucket, history>>

\* SIGTERM or SIGINT reaches the signal goroutine, which cancels the context.
Signal ==
    /\ Running /\ ~ctxDone
    /\ ctxDone' = TRUE
    /\ UNCHANGED <<timeVars, hasURL, loopVars, metrics, tempDirs, bucket, history>>

\* A new process, or none: the memory of the last one is gone.
Forget ==
    /\ tickPending' = FALSE /\ ctxDone' = FALSE
    /\ sample' = NoSample /\ now' = 0 /\ lastCPUTime' = Never /\ job' = NoJob
    /\ metrics' = NoMetrics /\ attempts' = NoAttempts
    /\ leaks' = 0 /\ uncounted' = 0

\* The process is killed.  Its memory and the container's file system are
\* gone; a PutObject on its way may still reach S3.
Crash ==
    /\ Running
    /\ pc' = "down"
    /\ tempDirs' = 0
    /\ \/ UNCHANGED bucket
       \/ pc = "put" /\ job.sent /\ bucket' = Stored(bucket, Object(job))
    /\ Forget
    /\ UNCHANGED <<clock, nextTick, hasURL, restarts, scrapes>>

\* The kubelet starts the container again, with the same configuration.
Restart ==
    /\ ~Running
    /\ restarts < MaxRestarts
    /\ restarts' = restarts + 1
    /\ nextTick' = clock + Period
    /\ pc' = "select"
    /\ tempDirs' = 0
    /\ Forget
    /\ UNCHANGED <<clock, hasURL, bucket, scrapes>>

-----------------------------------------------------------------------------
(* monitorResourceUsage                                                    *)

\* Mutant: for range ticker.C, without the case of ctx.Done().
ReceiveDone_Missing == FALSE /\ UNCHANGED vars

\* select: when both channels are ready Go picks either.
ReceiveDone ==
    /\ pc = "select" /\ ctxDone
    /\ pc' = "exited"
    /\ UNCHANGED <<timeVars, ctxDone, hasURL, sample, now, lastCPUTime, job,
                   metrics, tempDirs, bucket, history>>

ReceiveTick ==
    /\ pc = "select" /\ tickPending
    /\ tickPending' = FALSE
    /\ pc' = "fetch"
    /\ UNCHANGED <<clock, nextTick, ctxDone, hasURL, sample, now, lastCPUTime,
                   job, metrics, tempDirs, bucket, history>>

\* GetKubeletMetrics returns an error: continue.
FetchFails ==
    /\ pc = "fetch"
    /\ pc' = "select"
    /\ UNCHANGED <<timeVars, ctxDone, hasURL, sample, now, lastCPUTime, job,
                   metrics, tempDirs, bucket, history>>

\* GetKubeletMetrics returns: compare, count, and read the clock.
FetchReturns ==
    /\ pc = "fetch"
    /\ \E cpu, mem \in BOOLEAN :
         /\ sample' = [cpu |-> cpu, mem |-> mem]
         /\ metrics' = [metrics EXCEPT !.cpuExceeded = @ + Count(cpu),
                                       !.memExceeded = @ + Count(mem)]
    /\ now' = clock
    /\ pc' = "cpuCheck"
    /\ UNCHANGED <<timeVars, ctxDone, hasURL, lastCPUTime, job, tempDirs,
                   bucket, history>>

\* The end of the loop body: its locals go out of scope.
NextIteration == pc' = "select" /\ sample' = NoSample /\ now' = 0

\* Mutant: `continue' after the CPU profile.
Resume_Continue(k) ==
    /\ job' = NoJob
    /\ NextIteration
    /\ lastCPUTime' = IF k = "profile" THEN now ELSE lastCPUTime

\* Mutant: lastCPUTime is not set after the attempt.
Resume_NoStamp(k) ==
    /\ job' = NoJob
    /\ UNCHANGED lastCPUTime
    /\ IF k = "profile"
       THEN pc' = "memCheck" /\ UNCHANGED <<sample, now>>
       ELSE NextIteration

\* Back in the loop body after a collection of kind k, whatever its result:
\* a CPU attempt starts the cooldown, then the memory check follows.
Resume(k) ==
    /\ job' = NoJob
    /\ IF k = "profile"
       THEN pc' = "memCheck" /\ lastCPUTime' = now /\ UNCHANGED <<sample, now>>
       ELSE NextIteration /\ UNCHANGED lastCPUTime

\* Mutant: RemoveAll is deferred twice.
Cleanup_Twice(dirs) == tempDirs' = dirs - 2 /\ UNCHANGED leaks

\* The deferred os.RemoveAll; a failure leaves the directory behind.
Cleanup(dirs) ==
    \/ tempDirs' = dirs - 1 /\ UNCHANGED leaks
    \/ leaks < MaxLeaks /\ tempDirs' = dirs /\ leaks' = leaks + 1

\* collectAndUploadProfile up to the request.
Collect(k) ==
    /\ attempts' = [attempts EXCEPT ![k] = @ + 1]
    /\ \/ /\ Resume(k)                      \* os.MkdirTemp fails
          /\ UNCHANGED <<tempDirs, leaks, scrapes>>
       \/ /\ ~hasURL                        \* "no scrap url found"
          /\ Resume(k)
          /\ Cleanup(tempDirs + 1)
          /\ UNCHANGED scrapes
       \/ /\ hasURL                         \* client.Do
          /\ pc' = "scrape"
          /\ tempDirs' = tempDirs + 1
          /\ scrapes' = IF ctxDone THEN scrapes
                        ELSE Append(scrapes, [kind |-> k, at |-> clock,
                                              life |-> restarts])
          /\ job' = [kind |-> k, start |-> clock, scrape |-> Len(scrapes'),
                     file |-> "none", sent |-> ~ctxDone]
          /\ UNCHANGED <<sample, now, lastCPUTime, leaks>>
    /\ UNCHANGED <<timeVars, ctxDone, hasURL, metrics, bucket, restarts,
                   uncounted>>

CollectCpu == pc = "cpuCheck" /\ CooledDown /\ sample.cpu /\ Collect("profile")

SkipCpu ==
    /\ pc = "cpuCheck" /\ ~(CooledDown /\ sample.cpu)
    /\ pc' = "memCheck"
    /\ UNCHANGED <<timeVars, ctxDone, hasURL, sample, now, lastCPUTime, job,
                   metrics, tempDirs, bucket, history>>

CollectHeap == pc = "memCheck" /\ sample.mem /\ Collect("heap")

SkipHeap ==
    /\ pc = "memCheck" /\ ~sample.mem
    /\ NextIteration
    /\ UNCHANGED <<timeVars, ctxDone, hasURL, lastCPUTime, job,
                   metrics, tempDirs, bucket, history>>

-----------------------------------------------------------------------------
(* collectAndUploadProfile, from the answer on                             *)

\* Leave collectAndUploadProfile, with or without an error.
Return == Cleanup(tempDirs) /\ Resume(job.kind)

\* Mutant: the directory is removed only at the end of the good path.
ScrapeFails_NoCleanup ==
    /\ pc \in {"scrape", "copy"}
    /\ Resume(job.kind)
    /\ UNCHANGED <<timeVars, ctxDone, hasURL, metrics, tempDirs, bucket,
                   restarts, scrapes, attempts, leaks, uncounted>>

\* Do returns an error (refused, timeout, cancelled) or a status that is not
\* 200; or, once the body is being read, os.Create or io.Copy fails.
ScrapeFails ==
    /\ pc \in {"scrape", "copy"}
    /\ Return
    /\ UNCHANGED <<timeVars, ctxDone, hasURL, metrics, bucket,
                   restarts, scrapes, attempts, uncounted>>

\* Mutant: ProfilesGenerated is counted when the answer arrives.
ScrapeOK_CountsEarly ==
    /\ pc = "scrape" /\ job.sent
    /\ pc' = "copy"
    /\ job' = [job EXCEPT !.file = "partial"]
    /\ metrics' = [metrics EXCEPT !.generated = @ + 1]
    /\ UNCHANGED <<timeVars, ctxDone, hasURL, sample, now, lastCPUTime,
                   tempDirs, bucket, history>>

\* Do returns 200; the file is created and partly written from now on.
ScrapeOK ==
    /\ pc = "scrape" /\ job.sent
    /\ pc' = "copy"
    /\ job' = [job EXCEPT !.file = "partial"]
    /\ UNCHANGED <<timeVars, ctxDone, hasURL, sample, now, lastCPUTime, metrics,
                   tempDirs, bucket, history>>

\* Mutant: the error of io.Copy is ignored, a cut body counts as a profile.
CopyDone_IgnoresError ==
    /\ pc = "copy"
    /\ pc' = "upload"
    /\ job' \in {[job EXCEPT !.file = f] : f \in {"partial", "complete"}}
    /\ metrics' = [metrics EXCEPT !.generated = @ + 1]
    /\ UNCHANGED <<timeVars, ctxDone, hasURL, sample, now, lastCPUTime, tempDirs,
                   bucket, history>>

\* io.Copy reaches the end of the body; of a CPU profile, that is when the
\* server has sampled for ServerSeconds.
CopyDone ==
    /\ pc = "copy"
    /\ job.kind = "profile" => clock >= job.start + ServerSeconds
    /\ pc' = "upload"
    /\ job' = [job EXCEPT !.file = "complete"]
    /\ metrics' = [metrics EXCEPT !.generated = @ + 1]
    /\ UNCHANGED <<timeVars, ctxDone, hasURL, sample, now, lastCPUTime, tempDirs,
                   bucket, history>>

\* UploadToS3 before the request: loadAWSConfig and os.Open.
UploadSetupFails ==
    /\ pc = "upload"
    /\ Return
    /\ uncounted' = uncounted + 1
    /\ UNCHANGED <<timeVars, ctxDone, hasURL, metrics, bucket,
                   restarts, scrapes, attempts>>

PutStarts ==
    /\ pc = "upload"
    /\ pc' = "put"
    /\ job' = [job EXCEPT !.sent = ~ctxDone]
    /\ UNCHANGED <<timeVars, ctxDone, hasURL, sample, now, lastCPUTime, metrics,
                   tempDirs, bucket, history>>

PutOK ==
    /\ pc = "put" /\ job.sent
    /\ bucket' = Stored(bucket, Object(job))
    /\ metrics' = [metrics EXCEPT !.uploaded = @ + 1]
    /\ Return
    /\ UNCHANGED <<timeVars, ctxDone, hasURL, restarts,
                   scrapes, attempts, uncounted>>

\* PutObject returns an error; S3 may have stored the object all the same.
PutFails ==
    /\ pc = "put"
    /\ \/ UNCHANGED bucket
       \/ job.sent /\ bucket' = Stored(bucket, Object(job))
    /\ metrics' = [metrics EXCEPT !.uploadErrors = @ + 1]
    /\ Return
    /\ UNCHANGED <<timeVars, ctxDone, hasURL, restarts,
                   scrapes, attempts, uncounted>>

-----------------------------------------------------------------------------
World == Tick \/ Signal \/ Crash \/ Restart
Monitor ==
    \/ ReceiveDone \/ ReceiveTick \/ FetchFails \/ FetchReturns
    \/ CollectCpu \/ SkipCpu \/ CollectHeap \/ SkipHeap
Collector ==
    \/ ScrapeFails \/ ScrapeOK \/ CopyDone
    \/ UploadSetupFails \/ PutStarts \/ PutOK \/ PutFails

Next == World \/ Monitor \/ Collector

Spec == Init /\ [][Next]_vars

\* What the Go runtime and the program's own timers guarantee: a goroutine
\* that can run does, a select taken again and again picks the closed channel
\* at last, time passes, and a request whose client timed out or whose context
\* is cancelled returns.
Runtime ==
    /\ WF_vars(ReceiveTick)
    /\ SF_vars(ReceiveDone)
    /\ WF_vars(CollectCpu \/ SkipCpu \/ CollectHeap \/ SkipHeap)
    /\ WF_vars(Tick)
    /\ WF_vars((ctxDone \/ clock >= Deadline) /\ ScrapeFails)
    /\ WF_vars(UploadSetupFails \/ PutStarts)
    /\ WF_vars(ctxDone /\ PutFails)

\* What it needs from others: the calls that have no timeout return.
KubeletReplies == WF_vars(FetchFails \/ FetchReturns)
StorageReplies == WF_vars(PutOK \/ PutFails)

FairSpec == Spec /\ Runtime /\ KubeletReplies /\ StorageReplies
SpecDeafKubelet == Spec /\ Runtime /\ StorageReplies

-----------------------------------------------------------------------------
Sample == [cpu : BOOLEAN, mem : BOOLEAN]
Files == {"none", "partial", "complete"}
Job == [kind : Kinds, start : Nat, scrape : Nat, file : Files, sent : BOOLEAN]
Metrics == [cpuExceeded : Nat, memExceeded : Nat, generated : Nat,
            uploaded : Nat, uploadErrors : Nat]
Scrape == [kind : Kinds, at : Nat, life : Nat]
Obj == [kind : Kinds, stamp : Int, scrape : Nat, file : Files]

FlagsOK == tickPending \in BOOLEAN /\ ctxDone \in BOOLEAN /\ hasURL \in BOOLEAN

LoopOK ==
    /\ pc \in {"select", "fetch", "cpuCheck", "memCheck", "scrape", "copy",
               "upload", "put", "exited", "down"}
    /\ sample \in Sample
    /\ now \in Nat
    /\ lastCPUTime \in Nat \cup {Never}
    /\ job \in Job

CountersOK ==
    /\ clock \in Nat /\ nextTick \in Nat
    /\ metrics \in Metrics
    /\ attempts \in [profile : Nat, heap : Nat]
    /\ tempDirs \in Nat /\ restarts \in Nat /\ leaks \in Nat /\ uncounted \in Nat

\* Every variable stays in its type (sidecar/cmd/main.go:495-589).
TypeOK ==
    /\ FlagsOK /\ LoopOK /\ CountersOK
    /\ bucket \in SUBSET Obj
    /\ scrapes \in Seq(Scrape)

\* Two CPU profiles taken in one life of the sidecar are more than the
\* cooldown apart, however long scrapes and uploads take, whatever fails and
\* however late the loop serves its ticks (main.go:550-562: the time is taken
\* before the collection and kept only after it).
CpuScrapesSpaced ==
    \A i, j \in DOMAIN scrapes :
        /\ i < j
        /\ scrapes[i].kind = "profile" /\ scrapes[j].kind = "profile"
        /\ scrapes[i].life = scrapes[j].life
        => scrapes[j].at > scrapes[i].at + Cooldown

\* A sample over the memory threshold whose heap profile is still to come,
\* because the CPU profile of the same sample comes first.
HeapDue ==
    /\ sample.mem
    /\ \/ pc \in {"cpuCheck", "memCheck"}
       \/ Collecting /\ job.kind = "profile"

\* Every memory excess that was counted gets one heap attempt, even behind a
\* CPU profile that failed, timed out or was cancelled, and no CPU attempt is
\* made without a counted excess (main.go:543-581).
ExcessServed ==
    /\ metrics.memExceeded = attempts.heap + Count(HeapDue)
    /\ attempts.profile <= metrics.cpuExceeded

\* A profile that was generated is uploaded, counted as an upload error, being
\* uploaded, or was dropped before PutObject, where UploadToS3 counts nothing
\* (main.go:388, s3.go:40-96).
UploadsAccounted ==
    metrics.generated = metrics.uploaded + metrics.uploadErrors + uncounted
                        + Count(pc \in {"upload", "put"})

\* Whatever path a collection takes out of collectAndUploadProfile, the only
\* directories left are those os.RemoveAll failed on and the one of the
\* collection in progress: the container's disk does not fill up with each
\* failed scrape or upload (main.go:277-290).
TempDirsAccounted == tempDirs = leaks + Count(Collecting)

\* What is in the bucket is a whole profile of the kind and second its key
\* names, whatever was interrupted, cancelled, retried or overwritten
\* (main.go:293-294, 380-388, s3.go:80).
ObjectsFaithful ==
    \A o \in bucket :
        /\ o.file = "complete"
        /\ o.scrape \in DOMAIN scrapes
        /\ o.kind = scrapes[o.scrape].kind
        /\ o.stamp = Stamp(scrapes[o.scrape].at)

\* A cancelled context ends the loop, whatever it was doing: the goroutine
\* leaves a scrape or upload early, and a tick that is always ready does not
\* keep select from the closed channel for ever (main.go:470-476, 515-517).
ShutdownExits == ctxDone ~> ~Running

\* A target that answers late, in part or never holds the loop no longer than
\* the client timeout (main.go:332-334).
ScrapeEnds ==
    (pc \in {"scrape", "copy"} /\ job.start + ProfileDuration + TimeoutSlack <= Horizon)
      ~> pc \notin {"scrape", "copy"}

\* A heap profile that waits behind a CPU profile is attempted in the end,
\* whatever becomes of the CPU profile (main.go:552-581).
HeapServed ==
    \A n \in 0 .. Horizon :
        (HeapDue /\ attempts.heap = n /\ clock + ProfileDuration + TimeoutSlack <= Horizon)
          ~> (attempts.heap > n \/ ~Running)

-----------------------------------------------------------------------------
(* What the documentation says and the code does not do.                   *)

\* "Profile collection is rate-limited to avoid excessive profiling"
\* (README.md): the heap profiles of one life are apart by the cooldown.
HeapScrapesSpaced ==
    \A i, j \in DOMAIN scrapes :
        /\ i < j
        /\ scrapes[i].kind = "heap" /\ scrapes[j].kind = "heap"
        /\ scrapes[i].life = scrapes[j].life
        => scrapes[j].at > scrapes[i].at + Cooldown

\* "Total number of pprof profiles uploaded to S3": as long as the container
\* has not restarted, that many profiles are there.
UploadsKept == restarts = 0 => Cardinality(bucket) >= metrics.uploaded

\* ---------------------------------------------------------------------------
\* The promise this program keeps, seen from outside.
servicePhase ==
    CASE pc \in {"scrape", "copy"} -> "sampling"
      [] pc \in {"upload", "put"} -> "holding"
      [] pc \in {"exited", "down"} -> "stopped"
      [] OTHER -> "idle"
inHand == IF Collecting THEN job.kind ELSE "none"
lastCpuScrape ==
    IF ~Running THEN Never
    ELSE IF Collecting /\ job.kind = "profile" THEN job.start ELSE lastCPUTime
deliveredNow == IF Running THEN metrics.uploaded ELSE 0
Service == INSTANCE ProfilingService WITH
    time <- clock, phase <- servicePhase, subject <- inHand,
    lastCpu <- lastCpuScrape, delivered <- deliveredNow
ServiceSpec == Service!Spec
=============================================================================
