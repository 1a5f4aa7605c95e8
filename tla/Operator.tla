------------------------------- MODULE Operator -------------------------------
(***************************************************************************)
(* The operator's process: main of cmd/main.go and the reconciler of       *)
(* internal/controller/profiler_controller.go, with the webhook of         *)
(* PodAdmission beside them.  Each replica sets up a manager and starts    *)
(* it.  From then on its probes answer, its webhook server comes to        *)
(* listen, and it stands for election; the one that holds the lease runs   *)
(* the controller, which reconciles every Profiler of its cache and again  *)
(* five minutes later.  Webhook and controller share the cache.            *)
(*                                                                         *)
(* What the manager does is controller-runtime's and is modelled from how  *)
(* main configures it.  A replica whose set-up fails exits and is started  *)
(* anew, which changes nothing here.  The life of a replica takes the      *)
(* place of PodAdmission's Start, Crash and Sync.                          *)
(***************************************************************************)
EXTENDS PodAdmission

CONSTANT NoOne  \* of a lease that is free

ASSUME NoOneAssumption == NoOne \notin Operators

VARIABLES
    started,    \* replicas whose manager has started: their probes answer
    stopping,   \* those of them that were told to terminate
    lease,      \* the replica recorded in the lease
    leading,    \* the replicas whose controller runs
    work        \* where the controller of each replica has each Profiler

processVars == <<started, stopping, lease, leading>>
operatorVars == <<vars, processVars, work>>

-----------------------------------------------------------------------------
Key(p) == [ns |-> p.ns, name |-> p.name]
Keys == {Key(p) : p \in Profilers}

\* Nothing is cached before the first list.
Cached(v) == IF v = 0 THEN {} ELSE versions[v]
CachedKeys(o) == {Key(p) : p \in Cached(seen[o])}

\* Places a key may be in, several at a time: a key that changes while it is
\* processed is queued again when that ends.  "delayed" is RequeueAfter,
\* "backoff" the rate-limited retry.
Places == {"queued", "processing", "delayed", "backoff"}
NoWork == [k \in Keys |-> {}]

\* The keys with an event when the cache goes from one version to another.
Events(from, to) ==
    {k \in Keys : {p \in Cached(from) : Key(p) = k} # {p \in Cached(to) : Key(p) = k}}

\* The informer's handlers add the keys of ks to the queue of o.
Enqueue(o, ks) ==
    work' = [work EXCEPT ![o] =
               [k \in Keys |-> IF k \in ks THEN @[k] \cup {"queued"} ELSE @[k]]]

OperatorInit ==
    /\ InitWith({})
    /\ started = {} /\ stopping = {}
    /\ lease = NoOne /\ leading = {}
    /\ work = [o \in Operators |-> NoWork]

-----------------------------------------------------------------------------
(* The life of a replica.                                                  *)

\* main reaches mgr.Start: the probes, which only ping, answer.
Launch(o) ==
    /\ o \notin started
    /\ started' = started \cup {o}
    /\ seen' = [seen EXCEPT ![o] = 0]
    /\ UNCHANGED <<versions, up, crashes, pod, call, handler, cluster, counters, landed,
                   stopping, lease, leading, work>>

\* Mutant: the webhook server waits for the election as the controller does.
Listen_Leading(o) ==
    /\ o \in leading \ (up \cup stopping)
    /\ up' = up \cup {o}
    /\ UNCHANGED <<versions, seen, crashes, pod, call, handler, cluster, counters, landed,
                   processVars, work>>

\* The webhook server has its certificate and listens, lease or not.
Listen(o) ==
    /\ o \in started \ (up \cup stopping)
    /\ up' = up \cup {o}
    /\ UNCHANGED <<versions, seen, crashes, pod, call, handler, cluster, counters, landed,
                   processVars, work>>

\* The process ends, and what it had in memory with it; the lease stays.
Ends(o) ==
    /\ Gone(o)
    /\ started' = started \ {o}
    /\ stopping' = stopping \ {o}
    /\ leading' = leading \ {o}
    /\ work' = [work EXCEPT ![o] = NoWork]
    /\ UNCHANGED <<versions, seen, lease>>

\* It dies, a server or an informer of it fails, or it cannot renew its lease:
\* os.Exit(1).
Fail(o) ==
    /\ o \in started /\ crashes < MaxCrashes
    /\ crashes' = crashes + 1
    /\ Ends(o)

\* Mutant: a leader gives up the lease as soon as it is told to terminate.
Terminate_Releases(o) ==
    /\ o \in started \ stopping /\ crashes < MaxCrashes
    /\ crashes' = crashes + 1
    /\ stopping' = stopping \cup {o}
    /\ lease' = IF lease = o THEN NoOne ELSE lease
    /\ UNCHANGED <<versions, seen, up, pod, call, handler, cluster, counters, landed,
                   started, leading, work>>

\* SIGTERM: the controller takes no more keys and finishes the one it has.
Terminate(o) ==
    /\ o \in started \ stopping /\ crashes < MaxCrashes
    /\ crashes' = crashes + 1
    /\ stopping' = stopping \cup {o}
    /\ UNCHANGED <<versions, seen, up, pod, call, handler, cluster, counters, landed,
                   started, lease, leading, work>>

\* mgr.Start returns, after its runnables or after its patience.
Exit(o) ==
    /\ o \in stopping
    /\ Ends(o)
    /\ UNCHANGED crashes

-----------------------------------------------------------------------------
(* The election and the cache.                                             *)

\* A replica that waits for the lease finds it free: its controller starts
\* with what the cache holds.
Elect(o) ==
    /\ o \in started \ (stopping \cup leading)
    /\ lease = NoOne
    /\ lease' = o
    /\ leading' = leading \cup {o}
    /\ Enqueue(o, CachedKeys(o))
    /\ UNCHANGED <<vars, started, stopping>>

\* The lease runs out: its holder is gone, for it ends before the lease does.
Expire ==
    /\ lease \in Operators \ leading
    /\ lease' = NoOne
    /\ UNCHANGED <<vars, started, stopping, leading, work>>

\* Mutant: the controller runs on every replica, whoever leads.
Informer_Everywhere(o) ==
    /\ o \in started
    /\ \E v \in (seen[o] + 1) .. Len(versions) :
         /\ seen' = [seen EXCEPT ![o] = v]
         /\ Enqueue(o, Events(seen[o], v))
    /\ UNCHANGED <<versions, up, crashes, pod, call, handler, cluster, counters, landed,
                   processVars>>

\* The cache of a replica catches up with a later version.
Informer(o) ==
    /\ o \in started
    /\ \E v \in (seen[o] + 1) .. Len(versions) :
         /\ seen' = [seen EXCEPT ![o] = v]
         /\ IF o \in leading THEN Enqueue(o, Events(seen[o], v)) ELSE UNCHANGED work
    /\ UNCHANGED <<versions, up, crashes, pod, call, handler, cluster, counters, landed,
                   processVars>>

-----------------------------------------------------------------------------
(* The controller: one worker, as MaxConcurrentReconciles is not set.      *)

Move(o, k, from, to) ==
    /\ from \in work[o][k]
    /\ work' = [work EXCEPT ![o][k] = (@ \ {from}) \cup to]
    /\ UNCHANGED <<vars, processVars>>

Busy(o) == \E k \in Keys : "processing" \in work[o][k]

Take(o, k) ==
    /\ o \in leading \ stopping /\ ~Busy(o)
    /\ Move(o, k, "queued", {"processing"})

\* Mutant: no periodic reconciliation.
ReconcileFound_Once(o, k) ==
    /\ k \in CachedKeys(o)
    /\ Move(o, k, "processing", {})

\* Get finds the Profiler: again in five minutes.
ReconcileFound(o, k) ==
    /\ k \in CachedKeys(o)
    /\ Move(o, k, "processing", {"delayed"})

\* Mutant: a Profiler that is gone is an error like any other.
ReconcileNotFound_Retries(o, k) ==
    /\ k \notin CachedKeys(o)
    /\ Move(o, k, "processing", {"backoff"})

\* handleProfilerGetError, not found: no more of it.
ReconcileNotFound(o, k) ==
    /\ k \notin CachedKeys(o)
    /\ Move(o, k, "processing", {})

\* Mutant: the error is logged and not returned.
ReconcileFails_Swallowed(o, k) == Move(o, k, "processing", {})

\* handleProfilerGetError, any other error: the key is retried.
ReconcileFails(o, k) == Move(o, k, "processing", {"backoff"})

\* The five minutes are over.
Requeue(o, k) == Move(o, k, "delayed", {"queued"})

\* The delay of the rate limiter is over.
Retry(o, k) == Move(o, k, "backoff", {"queued"})

-----------------------------------------------------------------------------
Reconciler(o, k) ==
    \/ Take(o, k) \/ ReconcileFound(o, k) \/ ReconcileNotFound(o, k) \/ ReconcileFails(o, k)
    \/ Requeue(o, k) \/ Retry(o, k)

Process(o) ==
    \/ Launch(o) \/ Listen(o) \/ Fail(o) \/ Terminate(o) \/ Exit(o) \/ Elect(o) \/ Informer(o)

\* Pods are created and admitted, Profilers change.
Admission ==
    /\ \/ \E p \in Profilers : ChangeProfilers(p)
       \/ \E r \in Requests : Request(r)
    /\ UNCHANGED <<processVars, work>>

OperatorNext ==
    \/ Admission \/ Expire
    \/ \E o \in Operators : Process(o) \/ \E k \in Keys : Reconciler(o, k)

OperatorSpec == OperatorInit /\ [][OperatorNext]_operatorVars

\* Kubernetes restarts the container, the goroutines of the manager run, the
\* cache follows, leases run out and Get does not fail for ever.
FairOperator ==
    /\ OperatorSpec
    /\ RequestFairness
    /\ WF_operatorVars(Expire \/ \E o \in Operators : Elect(o))
    /\ \A o \in Operators :
         /\ WF_operatorVars(Exit(o) \/ Launch(o) \/ Listen(o)) /\ WF_operatorVars(Informer(o))
         /\ \A k \in Keys :
              /\ SF_operatorVars(Take(o, k))
              /\ SF_operatorVars(ReconcileFound(o, k) \/ ReconcileNotFound(o, k))
              /\ WF_operatorVars(Requeue(o, k) \/ Retry(o, k))

-----------------------------------------------------------------------------
\* Every variable of the processes stays in its type, and a replica has a
\* webhook, a controller or work only while it runs.
ProcessesOK ==
    /\ started \subseteq Operators /\ up \subseteq started
    /\ stopping \subseteq started /\ leading \subseteq started
    /\ lease \in Operators \cup {NoOne}
    /\ seen \in [Operators -> 0 .. Len(versions)]
    /\ work \in [Operators -> [Keys -> SUBSET Places]]
    /\ \A o \in Operators \ leading : work[o] = NoWork

\* Who reconciles has the lease, so that no two replicas do so at the same
\* time: neither a leader that is told to terminate with a reconciliation under
\* way nor one that comes back changes that (main.go:182-200, 247-250).
OneController == \A o \in Operators : Busy(o) => lease = o

\* A Profiler that the leader knows of is on its way to be reconciled: no
\* result of a reconciliation, no event and no change of leader drops it
\* (profiler_controller.go:50-78).
NoLostProfiler == \A o \in leading : \A k \in CachedKeys(o) : work[o][k] # {}

LastKeys == {Key(p) : p \in versions[Len(versions)]}

\* A Profiler that stays is reconciled again and again
\* (profiler_controller.go:61).
ReconciledForever ==
    \A k \in Keys : <>[](k \in LastKeys)
                    => []<>(\E o \in Operators : "processing" \in work[o][k])

\* A Profiler that is deleted for good leaves the queues of every replica
\* (profiler_controller.go:68-73).
DeletedForgotten ==
    \A k \in Keys : <>[](k \notin LastKeys)
                    => <>[](\A o \in Operators : work[o][k] = {})

\* Every replica comes to serve the webhook, whether it leads or not
\* (main.go:133-135, 215-218, 247).
EveryReplicaServes == <>[](up = Operators)
=============================================================================
