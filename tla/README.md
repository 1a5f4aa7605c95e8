# pprof-operator in TLA+

TLA+ models of pprof-operator, checked with TLC and, where marked, proved with
TLAPS. Paths are relative to the repository (`sidecar/cmd/main.go:550` is line
550 of that file); `PROJECT.json` maps every definition to the lines it models.

    tlc -config Sidecar_safety.cfg Sidecar          # any run of PROJECT.json
    tlapm SidecarProofs.tla                         # the theorems of a module

## The system

The operator is one Go process (or several replicas) built on
controller-runtime. It serves a mutating webhook for the CREATE of pods, and
reconciles `Profiler` resources. The sidecar is a second Go program that runs in
every injected pod. They never talk to each other: what passes between them is
the environment of the container, written once at admission.

    user ── Profiler ──> API server ── informer ──> webhook (operator)
                             │  ^                        │
                     CREATE pod └── patch: + pprof-sidecar, environment
                             v
                        kubelet ── Secrets, environment ──> sidecar
                                                              │ every period
              kubelet stats (through the API server) <────────┤
              target's /debug/pprof               <────────┤ over a threshold
              S3                                  <────────┘

| Component | State | Operations | What makes it correct |
|---|---|---|---|
| monitoring loop, `sidecar/cmd/main.go` | ticker and its one-element buffer, time of the last CPU attempt, the job in hand, temp directories, counters | receive a tick or the cancellation, query, check, collect, upload | CPU profiles apart by the cooldown; a memory excess is served even behind a slow CPU profile; every profile is accounted for; no directory is left; the loop ends when told |
| S3 upload, `sidecar/pkg/storage/s3.go` | objects in the bucket, two counters | set up, PutObject | what is stored is whole and what its key says |
| kubelet query, `sidecar/pkg/kubelet/metrics.go` | none; the answers of one query | get pod, get stats, get node, find the container, divide, compare | a verdict drawn from one entry and one set of limits, both met during the query; nothing used is never too much; a running container is measured in the end |
| configuration, `sidecar/cmd/main.go:81-266`, `429-493` | the configuration | load it, bind the metrics port, start the loop | it is what the Profiler and the annotations said |
| webhook, `internal/webhook/v1/pod_webhook.go` | three metrics per operator, concurrent handlers, a cache that lags | allow, inject, strip, refuse | the pod keeps its own containers and gets one sidecar when it asked for one; the metrics agree |
| sidecar construction, `sidecar_manager.go`, `utility.go` | none | Profiler and annotations to environment | precedence of the sources, credentials whole |
| controller, `internal/controller/profiler_controller.go` | none of its own; the work queue | get, requeue after five minutes, retry an error, forget what is gone | no Profiler drops out of the queue, a deleted one does, one replica works at a time |
| operator start-up, `cmd/main.go` | the replica: probes, webhook server, lease, controller | start, listen, be elected, terminate, fail | every replica serves the webhook, one leads |
| logging, manifests, generated code, tests | - | - | not modelled |

README.md:73-77 has the controller manage the lifecycle of sidecars and the webhook match a
selector. The code has neither: the controller reads and requeues, and a pod names its
Profiler in an annotation. The models follow the code.

What is hard in it: the loop is one goroutine that waits inside its own body
(a scrape of 40 s and an upload without a limit delay ticks, the memory check
and the end of the process); errors leave a collection at eight places; the
process may be killed between any two steps, and S3 may have stored what the
client saw fail; webhook handlers interleave on shared metrics while the API
server may have given up on them; the cache is behind; the environment of a pod
is older than its Profiler and its Secrets; two containers want one port; the
three answers a kubelet query is made of belong to different moments, and may
belong to different pods of one name; the lease outlives its holder. The
`hazards` of `PROJECT.json` list each with its line and the properties for it.

## Modules

| Module | Models |
|---|---|
| `Sidecar` | `monitorResourceUsage`, `collectAndUploadProfile`, `UploadToS3`, the signal goroutine, crashes and restarts of the container |
| `ProfilingService` | the abstract service that `Sidecar` implements |
| `SidecarProofs` | theorems about `Sidecar` |
| `SidecarRefinement` | the theorem that `Sidecar` implements `ProfilingService` |
| `KubeletMetrics`, `MCKubeletMetrics` | `GetKubeletMetrics` call by call, against a pod, kubelets and a node that change; and its instances |
| `KubeletProofs` | theorems about `KubeletMetrics` |
| `AdmissionService` | the abstract webhook that `PodAdmission` implements: pods, verdicts, and the cluster around them |
| `PodAdmission`, `MCPodAdmission` | the webhook between API server and cache, and its instances |
| `PodAdmissionProofs` | theorems about `PodAdmission` |
| `AdmissionRefinement` | the theorem that `PodAdmission` implements `AdmissionService` |
| `SidecarPod`, `MCSidecarPod` | one pod from admission through restarts: `BuildProfilerSidecar`, Secrets, `loadConfig`, `main`, ports; and its instances |
| `SidecarPodProofs` | theorems about `SidecarPod` |
| `Operator`, `MCOperator` | the replicas of the operator: start, election, controller and work queue, with the webhook of `PodAdmission` beside them and the cache shared; and its instance |
| `OperatorProofs` | theorems about `Operator`, and those of `PodAdmission` inside it |
| `System`, `MCSystem` | both programs on the way of one pod: `PodAdmission` until it is created, `SidecarPod` from then on; and its instance |
| `SystemProofs` | theorems about `System`, from those of its two parts |

### Sidecar

`pc` is where the monitor goroutine is: `select` (main.go:515), `fetch` (waiting
for the kubelet, 520), `cpuCheck` (551), `memCheck` (572), and inside a
collection `scrape` (339, waiting for the status line), `copy` (380, reading the
body), `upload` (before PutObject) and `put` (waiting for S3, s3.go:80).
`exited` and `down` are the process after `return` and after a kill. `sample`
and `now` are locals of the loop body, `job` those of `collectAndUploadProfile`.
`tickPending` is the buffer of `ticker.C`, which holds one tick and drops the
next. `bucket` is S3; an object replaces the one of the same key, and the key
is made of the kind and the second of its start (main.go:293-294).
`Cleanup` is the deferred `os.RemoveAll`, part of every action that leaves a
collection, and may fail. `hasURL` stands for a SCRAPE_URL that makes a usable
request, chosen at each start of the process.

Time is discrete. It passes while the loop waits for something outside it
(`Idle`); computing takes none; a timer that is due (`http.Client.Timeout`, a
cancelled context) acts before time goes on. Thresholds are abstracted to
whether a sample is over each. A scrape of the CPU takes `ServerSeconds`: the
URL carries no `seconds`, so net/http/pprof samples for 30 s of its own.

`ProfilingService` knows one profile at a time: sample, hold, deliver or give
up, with a cooldown for the CPU, and may stop and revive. The mapping at the end
of `Sidecar` reads `scrape` and `copy` as sampling, `upload` and `put` as
holding; a CPU attempt counts from its start although the code stamps
`lastCPUTime` only afterwards, which is the point of the refinement: nothing can
slip between the two.

### KubeletMetrics

`query.pc` is the call a query waits for: `stats` (the pod is known,
metrics.go:77), `node` (121), `find` (the search of 142-157), `answered` (back
in the loop, main.go:536). Between the calls the pod may be deleted and created
again, scheduled or resized, and a kubelet refreshes its stats, in which an
earlier pod of the name may linger and the container may be missing. An entry
carries a UID that the code never looks at: the usage of one pod may be divided by
the limits of another that has or had its name, and `VerdictTrue` allows it. `Over` is the division and
comparison in floating point: over a divisor of 0 the quotient is +Inf, or NaN
when nothing is used. `was` and `shown` are history: who had the name during
the query, and what its kubelet listed. `rules` is what the service account may
read. A query that ends without an answer leaves `verdict` as it was, as the
loop leaves its gauge.

`Sidecar` does not need this detail: there a query is a sample, an error or
silence. The two are not composed.

### PodAdmission

A request has a client side (`call`: the API server waits, was answered, or
ignored the webhook after a timeout or a failed call) and a handler side
(`handler[r].pc`: `decode`, `removed`, `list`, `attach`, `attached`, `replied`,
`lost`). An answer is `allowed`, a `patch`, `errored`, or `unread`, the error of a
failing list. A handler is cut where it leaves the goroutine or touches what others
see: the read of the cache and each of the two metric updates. The cache is an
older version of the set of Profilers, or none yet: `List` waits for the first
sync as controller-runtime's client does. A Profiler has a spec that may be edited, and
a sidecar the spec it was built from. `Outcome` is the API server's
validation: no containers or a duplicate name refuses the pod. `landed` is a
history variable, what really became of the answers.

`AdmissionService` is the same cluster with a webhook that has no handlers, no
cache and no metrics: `Answer` takes one state of the Profilers, the present or a
past one, and creates the pod with one of the `Verdicts` on it, of which only a pod
that asks for a Profiler may get a refusal. `PodAdmission` extends it, takes the
operators on pods and the steps of clients and API server from it, and puts the
handler in the place of `Answer`. What the refinement (`WebhookService`, a
property of `pod_safety`) adds to the invariants is that a verdict comes from one state, however many steps
it took, and that nobody else is refused: on the cluster's side the webhook is
atomic, only late. What the service leaves open, a refusal without a reason, is `EnabledServed`'s: a pod whose
Profiler was there all along is refused for a failing list or for want of a place only.

### SidecarPod

The environment is a function from variable names to values; a credential is
known by its source, its key and, for a Secret, the generation of it that the
kubelet read. `Create` applies `BuildProfilerSidecar` to some spec of the
Profiler; every later start applies `LoadConfig` to that environment, with the
Secrets of that later moment. Which spec it is depends on the webhook, its cache
and the edits of users, and is `System`'s matter. `BindMetrics` is the goroutine of the metrics
server; the application binds its own port in `AppStarts`. A value that the code
treats like an absent one (`ok && v != ""`) is not distinguished from it.

### Operator

`started` are the replicas that reached `mgr.Start` (main.go:247) and whose
probes answer; `up`, of `PodAdmission`, those whose webhook server listens;
`stopping` those that got SIGTERM; `lease` is the Lease object and `leading` says
where the controller runs. main.go:187-200 leaves `LeaderElectionReleaseOnCancel`
unset: `Exit` and `Fail` leave the lease, `Expire` frees it. That a holder ends
before its lease does is client-go's timing, the guard of `Expire`.
`work[o][k]` says where the controller of a replica has a key: queued, being
processed, in the delay of `RequeueAfter`, in the backoff of an error; a key may
be in several at once, as in the real queue. `ReconcileFound`,
`ReconcileNotFound` and `ReconcileFails` are the returns of `Reconcile`
(profiler_controller.go:50-78). `Informer` moves the cache the webhook reads and, on
the leader, adds the keys that changed. The actions of requests and Profilers
are `PodAdmission`'s own, whose `Start`, `Crash` and `Sync` the life of a replica
replaces.

### System

`PodAdmission` knows what a sidecar was configured from by the name of a spec
only, `SidecarPod` its contents and nothing of where it comes from. `System`
extends both and follows the pod of one request (`Followed`): `ConfigOf` and
`AnnotationsOf` give the contents to the names. An admission step that creates that
pod with an injected sidecar (`Injected`: its author wrote none, and it has one)
begins its life with `Create`, applied to the container the cluster was given;
every other admission step leaves the life alone. A step of the pod's
containers (`PodStep`) needs the pod to exist and leaves the webhook alone.

## Runs

| Run | Shows | States |
|---|---|---|
| `sidecar_safety` | types; CPU scrapes of one life more than the cooldown apart; every counted memory excess attempted; every generated profile uploaded, counted as an error or known to be dropped before PutObject; temp directories; objects whole and truly named; implements `ProfilingService` | 1.87 M |
| `sidecar_liveness` | a signal ends the loop; a scrape ends by its timeout; a heap profile behind a CPU profile is attempted | 56 k |
| `sidecar_heap_rate`, `sidecar_uploads_kept`, `sidecar_deaf_kubelet` | violations, see Findings | - |
| `kubelet_query` | an answer follows from one listed entry and one pod's limits, both of this query; an idle container is over nothing; a container that runs is measured in the end | 211 k |
| `kubelet_capacity` | violation | - |
| `pod_safety` | own containers kept; sidecars only when asked for and from a Profiler no older than the cache was; stripped when disabled, served when enabled, and refused only for a reason; metrics consistent; implements `AdmissionService` | 1.41 M |
| `pod_active_gauge` | violation | - |
| `operator` | one controller at a time; no Profiler lost, each reconciled for ever, deleted ones forgotten; every replica serves, every handler replies | 143 k |
| `system` | a working sidecar follows the Profiler its pod named, in a version no older than the cache was; a pod that was answered for and whose Profiler was always there is profiled in the end | 485 k |
| `config_lifecycle` | credentials whole, configuration that of the admission, annotations first, exits explained, another port leaves the application its own and no shared one is denied to both, a startable sidecar monitors in the end | 12 k |

Bounds, and why they are enough:

* `Sidecar`: the real 15 s period, 30 s + 10 s timeout, 30 s of sampling and 300 s
  cooldown become 2, 2 + 1, 2 and 3, in the same order: a scrape outlasts the period, ticks are
  dropped and kept, and the cooldown outlasts a scrape. A horizon of 6 lets a
  second CPU profile follow the first. One restart and one failed removal: a
  second of either meets no state the first did not. Two units of time to a second of the
  file name let two jobs share a key. The liveness run has a horizon of 5, no
  restart and no failed removal; its properties speak of jobs whose timeout
  lies before the horizon, since time ends there.
* `KubeletMetrics`: two nodes, one without CPU capacity; containers that use
  nothing of a resource or much; no limit, one, both; each set of rules. One change
  of the pod makes the parts of an answer disagree, two would repeat it.
* `PodAdmission`: two requests are the fewest whose handlers interleave; every
  kind of pod the code tells apart is among `AllSpecs`; one change of the Profilers makes the cache stale, one
  crash loses metrics. Requests are symmetric, and so are the specs a Profiler may have.
* `Operator`: two replicas for one lease, one Profiler that comes and goes or
  goes and comes, one termination or failure, and one dry run of a pod, which is enough for a handler to
  need a cache. The controller treats keys alike, and its only worker takes
  one at a time: a second key would only wait.
* `SidecarPod`: one write of a Secret, one kill; seven Profilers and five
  pods, each differing from a plain one in the fields one branch of the code
  reads.
* `System`: one operator and one request, since pods have nothing in common after their
  admission; one change of the Profilers, one crash of the operator, one write of the Secret and
  one kill, in any order, around a cache that may be behind. Three versions of a Profiler
  that differ in all the sidecar reads of them, one of them unfit, and a namesake elsewhere.

`CHECK_DEADLOCK FALSE`: time ends at the horizon, all requests are answered, or
a healthy pod has nothing left to do.

Fairness. `Sidecar!Runtime` is what Go and the program's own timers give:
runnable goroutines run, time passes, a request whose timeout passed or whose
context was cancelled returns; strong fairness for the cancelled context because
Go picks at random among ready cases, and a tick may be ready each time.
`KubeletReplies` and `StorageReplies` are assumptions about others, separate
because nothing in the code enforces the first: without it `sidecar_deaf_kubelet`
finds the loop stuck. `KubeletMetrics` assumes the same of each call, and
strongly that an allowed call which is made again and again succeeds once; a
forbidden call never does. In `PodAdmission` handlers run and the API
server ends each call. In `Operator` the kubelet restarts the container, the
goroutines of the manager run, caches follow, leases run out and are taken. It
is strong for `Take`, since the worker is busy again and again and its queue is
first in, first out, and for the two good returns of `Reconcile`: `Get` reads a cache and does not
fail for ever. In `SidecarPod` and `System` the kubelet keeps starting what stopped.
No fairness is assumed of faults, users or failures.

Every property of a passing run has a mutant in `PROJECT.json`: a variant of one
definition, as a bug would make it, under which TLC finds the property violated.

## Proofs

`SidecarProofs` proves for all constants that satisfy `TimingAssumption`:

* `TypeCorrect`: `Spec => []TypeOK`.
* `TempDirsSafe`: `Spec => []TempDirsAccounted`. The two are proved together
  (`TypeDirs`): `Cleanup` subtracts one, so that `tempDirs` stays a natural number
  needs the accounting, and the accounting needs types.
* `CooldownKept`: `Spec => []CpuScrapesSpaced`. The property is not inductive: it
  says nothing of the time between a scrape and the update of `lastCPUTime`.
  `CpuInv` adds that no scrape of this life is later than `lastCPUTime`, or, while a CPU
  collection runs, later than its sample; and that no scrape is of a later life.
* `UploadsCounted`: `Spec => []UploadsAccounted`. Inductive beside the types: only
  the end of the copy opens an account and only the three ends of an upload close
  one, so each action changes both sides of the equation alike (`UploadsSum`).
* `ExcessesServed`: `Spec => []ExcessServed`. `CpuExcess` adds that the excess of
  the sample in hand is counted before its CPU attempt; without it the attempt
  could pass the counter.
* `BucketFaithful`: `Spec => []ObjectsFaithful`. `Provenance` follows the profile in
  hand from its request to PutObject, and the log of requests only grows
  (`LogGrows`), so an object keeps its origin through overwrites and restarts.

All of them start from `TypeDirs`.

`SidecarRefinement` proves `ServiceImplemented`: `Spec => ServiceSpec`, every behaviour of the
loop is one of `ProfilingService`. Each action of `Sidecar` maps to one step of the
service or to a stutter. That a CPU attempt is one the service allows needs
`CpuInv`, since the service counts the cooldown from the attempt and the code from
what it stamps afterwards; that what is delivered is in hand needs the types.

`KubeletProofs` proves, for all nodes, usages, limits and thresholds:

* `QueryTypes`: `Spec => []TypeOK`.
* `AnswersTrue`: `Spec => []VerdictTrue`. The property speaks of the last step of a
  query only; `QueryInv` says where what is held at each step comes from: the pod asked
  about had the name during the query, its node is the one asked, the listed
  entries were shown by that node, the limits are that pod's, completed by that
  node. A pod that changes under the query cannot undo this, because both
  histories only grow until the query ends; it may make the entry and the limits those of
  two pods of one name, which the code does not tell apart.
* `IdleQuiet`: `Spec => []IdleNeverOver`, from the same invariant: nothing used is not over a
  limit, and not over a missing one either.

`PodAdmissionProofs` proves, for any operators, requests, Profilers and pods, with
any number of changes and crashes, every invariant of `pod_safety`:

* `AdmissionTypes`, `AuthorsContainersKept`, `NoUnaskedSidecar`,
  `CopiedSidecarsStripped`, `NamedProfilerServed`. The properties speak of pods that
  landed; `Inv` says request by request what its handler knows at each step, what
  an answer may be, and what may have become of it. `App`, the filter of
  `removeSidecarIfExists`, is a recursive function over the positions of the list; what it keeps
  is proved by taking the least position where the claim would fail.
* `MetricsAgree`, `CountedBeforeLanding`. Both compare a counter with a number of
  requests. `Books` carries them as cardinalities: requests between their two
  updates, and requests that landed or may still land by the answer of the life
  of an operator that gave it. A step moves at most one request in or out of each.

`AdmissionRefinement` proves `WebhookImplements`: `Spec => WebhookService`. `Inv` knows that
an answer is true of the pod, not that it is a verdict: a handler that read a
Profiler must not have been free to pass the pod by. `VerdictInv` adds what was
decided on the way to each label, and that the answer of a handler that has replied
is a verdict by a state of the Profilers that is still on record, since versions are only
added (`VerdictStays`). Then `Admit` is `Answer`, and the steps of handlers, caches
and crashes are stutters.

`OperatorProofs` proves, for any replicas and keys:

* `OperatorTypes`: `OperatorSpec => []ProcessesOK`.
* `NoProfilerLost`: `OperatorSpec => []NoLostProfiler`. The queue is refilled from a cache that
  another change may overtake, so the invariant speaks of the keys cached at the
  leader; what is not cached yet is brought by `Informer`.
* `OneControllerAtATime`: `OperatorSpec => []OneController`. `LeaderHoldsLease` ties whoever
  leads to the lease, so that a successor finds no other controller; two replicas that
  reconcile would both be the one holder.
* `WebhookInOperator`: all seven invariants of `pod_safety` under `OperatorSpec`. The
  proof takes the invariant of `PodAdmissionProofs` through the life of a replica, where
  a server listens before its cache has anything, goes on serving after SIGTERM, and
  ends in two ways. What it needs of a replica is in the invariant already: whoever handles a request
  is up, and its cache is no older than it was at the start. `Launch` empties the
  cache of a replica, which is safe only because `ProcessesOK` has it not up.
* `OperatorImplements`: `OperatorSpec => WebhookService`: any number of replicas is to the
  cluster one webhook, atomic and late.

`SidecarPodProofs` proves, for any Profilers, pods, Secrets and port of the
application, every invariant of `config_lifecycle`: `PodTypesKept`,
`PairsNeverMixed`, `ConfigAsAdmitted`, `PodHasTheLastWord`, `EveryExitExplained`,
`PortsKeptApart`. The work is in `LoadedConfig`, which computes what
`LoadConfig` reads from what `BuildProfilerSidecar` wrote, variable by variable
through the merges (`EnvironmentParts`), the kubelet (`ResolvedVars`) and the
defaults. The invariant then only says that what was loaded last follows the Profiler
and the pod of the admission (`ConfInv`), and that two containers refuse each
other a port only if they want the same one, and that who is refused leaves the other its port (`PortInv`).

`SystemProofs` proves one theorem, for any operators, requests, Profilers, pods and Secrets:

* `EndToEnd`: `SystemSpec => []ProfiledAsNamed`. Neither part can say it: one ends with
  a container, the other begins with a spec from nowhere. `Linked` holds them
  together: while there is a sidecar the pod exists, its sidecar is an injected
  one, and `admitted` and `annotations` are read from what the cluster holds. It is
  inductive since nothing becomes of an existing pod but its deletion (`RequestMoves`).
  The lemma `StepIsLife` reads each step as one of `SidecarPod` or a stutter, by the way
  `System` is put together, and so carries the invariant of `SidecarPodProofs` over.
  The rest is `SidecarOnlyWhenAsked` on one side and `AdmittedConfig` on the other.

The theorems assume what the modules assume of their constants, and nothing
else. `SecretNames` keeps the names of Secrets apart from the two other sources of a
credential; that is how sources are named here, no claim about the cluster.

Model-checked only: everything that rests on fairness (`ShutdownExits`, `ScrapeEnds`,
`HeapServed`, `AnswersInTheEnd`, `ReconciledForever`, `DeletedForgotten`,
`EveryReplicaServes`, `HandlerReplies`, `MonitorsInTheEnd`, `ProfiledInTheEnd`), which is beyond the prover.

## Findings

Each is a run that TLC finds violated; the lines are quoted in `PROJECT.json`.

* Heap profiles have no cooldown; README.md:158 says collection is rate-limited.
* Two profiles of the same second share a key; the second replaces the first and
  both count as uploaded (README.md:100).
* The kubelet query ignores the context and has no timeout: a query that hangs
  makes the sidecar deaf to SIGTERM (main.go:469).
* The gauge of active sidecars never learns of a deleted pod (README.md:91).
* The fallback to the capacity of the node needs a right that the shipped rules do
  not grant (config/rbac/profiler_sidecar_rbac.yaml:37): a container without both
  limits is never measured (metrics.go:113).

Five more met on the way, modelled as the code behaves. On the default
port the sidecar collides with an application on 8080, the sample application
for one: its metrics are missing, or the application does not start (README.md:95, 268;
`PortContention` says what a port of its own avoids, and that one of the two at most is refused). A negative
`monitoringPeriod`, which the CRD accepts, makes the ticker panic at each start
(`ExitsExplained` knows it). S3_REGION defaults to us-west-2 in the sidecar
where sidecar/README.md says us-east-1. Uploads that fail before PutObject are in no
counter, though README.md:101 counts errors "when uploading" (`UploadsAccounted`
has a term for them). An injection is counted before anyone knows whether a pod
comes of it, dry runs included (README.md:89; `LandedCounted` promises only that the
counter is not too low).

## Not modelled

* Logging, generated deep copies, manifests, tests, and the sample application beyond
  its port: they keep no state that a property could be about.
* Of the operator's start-up: flags, TLS options and certificate watchers, and a
  set-up that fails, after which the process has done nothing. Of the controller: the informers of
  Deployments and StatefulSets a Profiler owns, since nothing gives them such an owner.
* Of the webhook: decoding and encoding of admission requests.
* Of the sidecar's environment: the image, the resources, the debug variables,
  S3_PATH_PREFIX (which goes the way of S3_BUCKET), the pod's name and namespace.
* How old the gauge of resource usage is while queries fail, and the window in which a replica
  is ready before its webhook server listens: both are real (see the hazards), and
  the code promises nothing about either.

## Plan

Done: `Sidecar` with its abstract service, `KubeletMetrics`, `PodAdmission`, `SidecarPod`,
`Operator` and `System`, a proof of every safety property a passing run checks, and
the two compositions: the webhook in the operator's process, the pod behind the webhook.

Left:

1. `KubeletMetrics` as the sampler of `Sidecar`: its nondeterministic sample shown to be what
   that module yields.
