---------------------------- MODULE PodAdmission ----------------------------
(***************************************************************************)
(* The mutating webhook, internal/webhook/v1/pod_webhook.go, between the   *)
(* API server that calls it for every CREATE of a pod and the informer     *)
(* cache it reads Profilers from.  Every replica of the operator serves    *)
(* the webhook; each handles its requests concurrently and keeps counters  *)
(* of its own.  The API server gives up on a call after its timeout, or    *)
(* when the operator does not answer, and then creates the pod as          *)
(* submitted (failurePolicy=ignore); the handler goes on regardless.  An   *)
(* error response is an answer like any other: it refuses the pod.         *)
(*                                                                         *)
(* A handler is cut at every call that leaves it or touches what handlers  *)
(* share: the cache read and the updates of the two metrics.               *)
(***************************************************************************)
EXTENDS AdmissionService, FiniteSets, SequencesExt

CONSTANTS
    Operators,      \* replicas of the operator
    MaxCrashes      \* bound: crashes of the operator

ASSUME OperatorsAssumption == "none" \notin Operators
ASSUME RequestsFinite == IsFiniteSet(Requests)
ASSUME AdmissionBounds == MaxChanges \in Nat /\ MaxCrashes \in Nat

VARIABLES
    seen,       \* the version in each operator's cache, 0 before its first list
    up,         \* operators that run
    crashes,
    handler,    \* the operator's side: [pc, op, answer, sidecar, since], with the
                \* sidecar it built and, as history, the version cached at its start
    counters,   \* per operator: SidecarsAttached, SidecarsRemoved, ActiveSidecars
    landed      \* history, per life of an operator: pods created as it answered,
                \* with a sidecar added or with one removed

cacheVars == <<versions, seen>>
vars == <<versions, seen, up, crashes, pod, call, handler, cluster, counters, landed>>

-----------------------------------------------------------------------------
NoAnswer == [kind |-> "none", containers |-> <<>>]
Allowed == [kind |-> "allowed", containers |-> <<>>]
Errored == [kind |-> "errored", containers |-> <<>>]
Unread == [kind |-> "unread", containers |-> <<>>]   \* the error of a failing list
Refusal(a) == a.kind \in {"errored", "unread"}
Patch(cs) == [kind |-> "patch", containers |-> cs]
NoHandler == [pc |-> "none", op |-> "none", answer |-> NoAnswer, sidecar |-> NoContainer,
              since |-> 0]
NoCounters == [attached |-> 0, removed |-> 0, active |-> 0]
NoLanded == [injected |-> 0, stripped |-> 0]

\* Mutant: the list is not restricted to the namespace of the pod.
Listed_EveryNamespace(o, ns) == versions[seen[o]]

\* client.InNamespace(req.Namespace)
Listed(o, ns) == {p \in versions[seen[o]] : p.ns = ns}

-----------------------------------------------------------------------------
\* The operators in `running` have started.
InitWith(running) ==
    /\ ServiceInit
    /\ seen = [o \in Operators |-> 0]
    /\ up = running
    /\ crashes = 0
    /\ handler = [r \in Requests |-> NoHandler]
    /\ counters = [o \in Operators |-> NoCounters]
    /\ landed = [o \in Operators |-> NoLanded]

Init == InitWith(Operators)

-----------------------------------------------------------------------------
(* The cluster around the webhook.                                         *)

ChangeProfilers(p) ==
    /\ Change(p)
    /\ UNCHANGED <<seen, up, crashes, handler, counters, landed>>

\* The informer of an operator catches up with a later version.
Sync(o) ==
    /\ o \in up
    /\ \E v \in (seen[o] + 1) .. Len(versions) : seen' = [seen EXCEPT ![o] = v]
    /\ UNCHANGED <<versions, up, crashes, pod, call, handler, cluster, counters, landed>>

Submit(r, s) ==
    /\ Ask(r, s)
    /\ UNCHANGED <<seen, up, crashes, handler, counters, landed>>

\* The call reaches an operator, which starts a handler for it.
Receive(r, o) ==
    /\ call[r] = "calling" /\ handler[r].pc = "none" /\ o \in up
    /\ handler' = [handler EXCEPT ![r] = [NoHandler EXCEPT !.pc = "decode", !.op = o,
                                                            !.since = seen[o]]]
    /\ UNCHANGED <<cacheVars, up, crashes, pod, call, cluster, counters, landed>>

\* The API server applies the answer.
Admit(r) ==
    /\ call[r] = "calling" /\ handler[r].pc = "replied"
    /\ call' = [call EXCEPT ![r] = "answered"]
    /\ LET a == handler[r].answer
           out == CASE Refusal(a) -> [phase |-> "refused", containers |-> <<>>]
                    [] a.kind = "allowed" -> Outcome(r, pod[r].containers)
                    [] OTHER -> Outcome(r, a.containers)
       IN
       /\ cluster' = [cluster EXCEPT ![r] = out]
       /\ landed' = IF a.kind = "patch" /\ out.phase = "running"
                    THEN IF Disabled(pod[r])
                         THEN [landed EXCEPT ![handler[r].op].stripped = @ + 1]
                         ELSE [landed EXCEPT ![handler[r].op].injected = @ + 1]
                    ELSE landed
    /\ UNCHANGED <<cacheVars, up, crashes, pod, handler, counters>>

Ignore(r) == GiveUp(r) /\ UNCHANGED <<seen, up, crashes, handler, counters, landed>>

Delete(r) == EndPod(r) /\ UNCHANGED <<seen, up, crashes, handler, counters, landed>>

\* The process of an operator is gone: with its counters, its handlers and the
\* answers not applied yet.
Gone(o) ==
    /\ up' = up \ {o}
    /\ handler' = [r \in Requests |->
                     IF handler[r].op = o THEN [handler[r] EXCEPT !.pc = "lost"]
                     ELSE handler[r]]
    /\ counters' = [counters EXCEPT ![o] = NoCounters]
    /\ landed' = [landed EXCEPT ![o] = NoLanded]
    /\ UNCHANGED <<pod, call, cluster>>

Crash(o) ==
    /\ o \in up /\ crashes < MaxCrashes
    /\ crashes' = crashes + 1
    /\ Gone(o)
    /\ UNCHANGED cacheVars

\* It comes back with an empty cache.
Start(o) ==
    /\ o \notin up
    /\ up' = up \cup {o}
    /\ seen' = [seen EXCEPT ![o] = 0]
    /\ UNCHANGED <<versions, crashes, pod, call, handler, cluster, counters, landed>>

-----------------------------------------------------------------------------
(* PodMutator.Handle                                                       *)

Goto(r, label) == handler' = [handler EXCEPT ![r].pc = label]
Reply(r, a) ==
    handler' = [handler EXCEPT ![r] = [NoHandler EXCEPT
                  !.pc = "replied", !.op = handler[r].op, !.answer = a,
                  !.since = IF Disabled(pod[r]) \/ a.kind # "patch" THEN 0
                            ELSE handler[r].since]]
Counted(r, field, n) == counters' = [counters EXCEPT ![handler[r].op][field] = @ + n]

\* Mutant: a pod that is not enabled is always allowed as it is.
AllowUntouched_Disabled(r) ==
    /\ handler[r].pc = "decode" /\ Disabled(pod[r])
    /\ Reply(r, Allowed)
    /\ UNCHANGED <<cacheVars, up, crashes, pod, call, cluster, counters, landed>>

\* Mutant: a pod that is enabled has to name a Profiler.
AllowUntouched_Refuses(r) ==
    /\ handler[r].pc = "decode"
    /\ IF Disabled(pod[r]) THEN ~HasSidecar(pod[r].containers)
       ELSE pod[r].profiler = "absent"
    /\ Reply(r, IF Disabled(pod[r]) THEN Allowed ELSE Errored)
    /\ UNCHANGED <<cacheVars, up, crashes, pod, call, cluster, counters, landed>>

\* Not enabled and without a sidecar, or enabled without naming a Profiler.
AllowUntouched(r) ==
    /\ handler[r].pc = "decode"
    /\ IF Disabled(pod[r]) THEN ~HasSidecar(pod[r].containers)
       ELSE pod[r].profiler = "absent"
    /\ Reply(r, Allowed)
    /\ UNCHANGED <<cacheVars, up, crashes, pod, call, cluster, counters, landed>>

\* Not enabled but with a sidecar: removeSidecarIfExists, SidecarsRemoved.Inc().
IncRemoved(r) ==
    /\ handler[r].pc = "decode"
    /\ Disabled(pod[r]) /\ HasSidecar(pod[r].containers)
    /\ Counted(r, "removed", 1)
    /\ Goto(r, "removed")
    /\ UNCHANGED <<cacheVars, up, crashes, pod, call, cluster, landed>>

\* Mutant: the gauge is not decremented.
DecActive_Missing(r) ==
    /\ handler[r].pc = "removed"
    /\ Reply(r, Patch(App(pod[r].containers)))
    /\ UNCHANGED <<cacheVars, up, crashes, pod, call, cluster, counters, landed>>

\* Mutant: the counter of attached sidecars is decremented instead.
DecActive_Attached(r) ==
    /\ handler[r].pc = "removed"
    /\ Counted(r, "attached", -1)
    /\ Reply(r, Patch(App(pod[r].containers)))
    /\ UNCHANGED <<cacheVars, up, crashes, pod, call, cluster, landed>>

\* Mutant: the sidecar is taken to be the first container.
DecActive_First(r) ==
    /\ handler[r].pc = "removed"
    /\ Counted(r, "active", -1)
    /\ Reply(r, Patch(Tail(pod[r].containers)))
    /\ UNCHANGED <<cacheVars, up, crashes, pod, call, cluster, landed>>

\* ActiveSidecars.Dec() and the patch without any sidecar.
DecActive(r) ==
    /\ handler[r].pc = "removed"
    /\ Counted(r, "active", -1)
    /\ Reply(r, Patch(App(pod[r].containers)))
    /\ UNCHANGED <<cacheVars, up, crashes, pod, call, cluster, landed>>

\* Enabled, with the name of a Profiler: go on to look it up.
LookUp(r) ==
    /\ handler[r].pc = "decode"
    /\ ~Disabled(pod[r]) /\ pod[r].profiler # "absent"
    /\ Goto(r, "list")
    /\ UNCHANGED <<cacheVars, up, crashes, pod, call, cluster, counters, landed>>

\* Mutant: a failing list lets the pod through.
ListFails_Allows(r) ==
    /\ handler[r].pc = "list"
    /\ Reply(r, Allowed)
    /\ UNCHANGED <<cacheVars, up, crashes, pod, call, cluster, counters, landed>>

\* client.List fails (the context ended, the cache never synced).
ListFails(r) ==
    /\ handler[r].pc = "list"
    /\ Reply(r, Unread)
    /\ UNCHANGED <<cacheVars, up, crashes, pod, call, cluster, counters, landed>>

\* BuildProfilerSidecar has configured the sidecar from Profiler p.
Built(r, p) == handler' = [handler EXCEPT ![r].pc = "attach", ![r].sidecar = SidecarOf(p)]

\* Mutant: the handler waits for the Profiler to appear.
List_Waits(r) ==
    /\ handler[r].pc = "list" /\ seen[handler[r].op] > 0
    /\ \E p \in Listed(handler[r].op, pod[r].ns) :
         p.name = pod[r].profiler /\ Built(r, p)
    /\ UNCHANGED <<cacheVars, up, crashes, pod, call, cluster, counters, landed>>

\* Mutant: the first container is not taken where no target is named.
List_TargetRequired(r) ==
    /\ handler[r].pc = "list" /\ seen[handler[r].op] > 0
    /\ LET s == pod[r]
           found == Listed(handler[r].op, s.ns)
           named == {p \in found : p.name = s.profiler}
       IN
       \/ found = {} /\ Reply(r, Allowed)
       \/ found # {} /\ (named = {} \/ ~s.target) /\ Reply(r, Errored)
       \/ s.target /\ \E p \in named : Built(r, p)
    /\ UNCHANGED <<cacheVars, up, crashes, pod, call, cluster, counters, landed>>

\* client.List answers from the cache, once it has synced.
List(r) ==
    /\ handler[r].pc = "list" /\ seen[handler[r].op] > 0
    /\ LET s == pod[r]
           found == Listed(handler[r].op, s.ns)
           named == {p \in found : p.name = s.profiler}
       IN
       \/ found = {} /\ Reply(r, Allowed)
       \/ found # {} /\ (named = {} \/ ~Buildable(s)) /\ Reply(r, Errored)
       \/ Buildable(s) /\ \E p \in named : Built(r, p)
    /\ UNCHANGED <<cacheVars, up, crashes, pod, call, cluster, counters, landed>>

\* Mutant: SidecarsAttached is not counted.
IncAttached_Missing(r) ==
    /\ handler[r].pc = "attach"
    /\ Goto(r, "attached")
    /\ UNCHANGED <<cacheVars, up, crashes, pod, call, cluster, counters, landed>>

\* SidecarsAttached.Inc()
IncAttached(r) ==
    /\ handler[r].pc = "attach"
    /\ Counted(r, "attached", 1)
    /\ Goto(r, "attached")
    /\ UNCHANGED <<cacheVars, up, crashes, pod, call, cluster, landed>>

\* ActiveSidecars.Inc() and the patch that appends the sidecar.
IncActive(r) ==
    /\ handler[r].pc = "attached"
    /\ Counted(r, "active", 1)
    /\ Reply(r, Patch(Append(pod[r].containers, handler[r].sidecar)))
    /\ UNCHANGED <<cacheVars, up, crashes, pod, call, cluster, landed>>

-----------------------------------------------------------------------------
Proceed(r) ==
    \/ AllowUntouched(r) \/ IncRemoved(r) \/ DecActive(r) \/ LookUp(r)
    \/ List(r) \/ IncAttached(r) \/ IncActive(r)

Handle(r) == Proceed(r) \/ ListFails(r)

\* The life of one pod, from its CREATE request to its deletion.
Request(r) ==
    \/ \E s \in Specs : Submit(r, s)
    \/ \E o \in Operators : Receive(r, o)
    \/ Admit(r) \/ Ignore(r) \/ Delete(r) \/ Handle(r)

Next ==
    \/ \E p \in Profilers : ChangeProfilers(p)
    \/ \E o \in Operators : Sync(o) \/ Crash(o) \/ Start(o)
    \/ \E r \in Requests : Request(r)

Spec == Init /\ [][Next]_vars

\* The operator's goroutines run, and the API server ends a call that has an
\* answer or has lasted too long.
RequestFairness ==
    \A r \in Requests :
        WF_vars(Proceed(r)) /\ WF_vars(Admit(r) \/ Ignore(r))

-----------------------------------------------------------------------------
Admitted == {"running", "dryrun", "deleted"}
Sidecars == {SidecarOf(p) : p \in Profilers}
Containers == {<<>>} \cup UNION {{s.containers, App(s.containers)}
                   \cup {Append(s.containers, c) : c \in Sidecars} : s \in Specs}
Answers == [kind : {"none", "allowed", "errored", "unread", "patch"}, containers : Containers]
Labels == {"none", "decode", "removed", "list", "attach", "attached", "replied", "lost"}
Handlers == [pc : Labels, op : Operators \cup {"none"}, answer : Answers,
             sidecar : Sidecars \cup {NoContainer}, since : 0 .. Len(versions)]

CacheOK ==
    /\ versions \in Seq(SUBSET Profilers) /\ versions # <<>>
    /\ seen \in [Operators -> 0 .. Len(versions)]
    /\ up \subseteq Operators
    /\ crashes \in 0 .. MaxCrashes

RequestsOK ==
    /\ pod \in [Requests -> Specs \cup {NoPod}]
    /\ call \in [Requests -> {"unsent", "calling", "answered", "ignored"}]
    /\ handler \in [Requests -> Handlers]
    /\ cluster \in [Requests -> [phase : Admitted \cup {"absent", "refused"},
                                 containers : Containers]]

CountersOK ==
    /\ counters \in [Operators -> [attached : Nat, removed : Nat, active : Int]]
    /\ landed \in [Operators -> [injected : Nat, stripped : Nat]]

\* Every variable stays in its type; only the gauge can fall below zero.
TypeOK == CacheOK /\ RequestsOK /\ CountersOK

\* Whatever happened on the way, a pod that exists runs the containers its
\* author wrote, in that order, and at most one sidecar
\* (pod_webhook.go:116, 158-164).
AppContainersKept ==
    \A r \in Requests : cluster[r].phase \in Admitted =>
        /\ App(cluster[r].containers) = App(pod[r].containers)
        /\ Cardinality({i \in DOMAIN cluster[r].containers :
                          cluster[r].containers[i].name = Sidecar}) <= 1

\* A sidecar is added only to a pod that asked for one, and its configuration
\* is that of the Profiler of that name in the pod's own namespace, in a
\* version no older than the one cached when the request came in (pod_webhook.go:62-116).
SidecarOnlyWhenAsked ==
    \A r \in Requests :
        /\ cluster[r].phase \in Admitted
        /\ HasSidecar(cluster[r].containers) /\ ~HasSidecar(pod[r].containers)
        => /\ ~Disabled(pod[r])
           /\ \E v \in DOMAIN versions : \E p \in versions[v] :
                /\ v >= handler[r].since
                /\ Named(pod[r], p) /\ Last(cluster[r].containers) = SidecarOf(p)

\* A pod that the webhook answered for and that is not enabled runs without a
\* sidecar, even when its author copied one into it (pod_webhook.go:64-69).
DisabledStripped ==
    \A r \in Requests :
        call[r] = "answered" /\ Disabled(pod[r]) /\ cluster[r].phase \in Admitted
        => ~HasSidecar(cluster[r].containers)

\* A sidecar can be built for pod s and has a place in it.
Injectable(s) == Buildable(s) /\ Valid(Append(s.containers, Container(Sidecar, "any")))

\* A pod that names a Profiler which its namespace has always had gets its
\* sidecar if the webhook answers at all: a cache that is behind or has not
\* synced never lets it through without one, and it is refused only when the
\* list itself failed or no sidecar fits into it (pod_webhook.go:75-116).
EnabledServed ==
    \A r \in Requests :
        /\ call[r] = "answered" /\ ~Disabled(pod[r])
        /\ \A v \in DOMAIN versions : \E p \in versions[v] : Named(pod[r], p)
        => \/ HasSidecar(cluster[r].containers)
           \/ /\ cluster[r].phase = "refused"
              /\ handler[r].answer.kind = "unread" \/ ~Injectable(pod[r])

\* Handlers of operator o between the two metrics they update.
Between(o, label) == Cardinality({r \in Requests : handler[r].op = o /\ handler[r].pc = label})

\* The three metrics of an operator agree, but for the handlers that are
\* between their two updates (pod_webhook.go:119-120, 171-172).
GaugeConsistent ==
    \A o \in Operators :
        counters[o].active + Between(o, "attached") + counters[o].removed
          = counters[o].attached + Between(o, "removed")

\* Every sidecar this life of the operator put into a running pod, or took out
\* of one, was counted before the pod was created (pod_webhook.go:119-130,
\* 171-180).
LandedCounted ==
    \A o \in Operators :
        /\ landed[o].injected <= counters[o].attached
        /\ landed[o].stripped <= counters[o].removed

\* No handler runs for ever: it ends with an answer, unless its operator dies,
\* and waits for nothing but the first sync of the cache
\* (pod_webhook.go:46-131).
HandlerReplies ==
    \A r \in Requests : []<>(handler[r].pc \in {"none", "replied", "lost"})

-----------------------------------------------------------------------------
(* What the documentation says and the code does not do.                   *)

\* Nothing crashed, and no call timed out or is under way.
Quiet ==
    /\ crashes = 0
    /\ \A r \in Requests : call[r] \in {"unsent", "answered"}

\* "Current number of active pprof sidecars": with every request answered, the
\* gauges add up to the sidecars that run.
ActiveGaugeExact ==
    Quiet => MapThenSumSet(LAMBDA o : counters[o].active, Operators)
             = Cardinality({r \in Requests : /\ cluster[r].phase = "running"
                                             /\ HasSidecar(cluster[r].containers)})
=============================================================================
