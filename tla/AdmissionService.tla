--------------------------- MODULE AdmissionService ---------------------------
(***************************************************************************)
(* What the webhook promises the cluster, without operators, caches,       *)
(* handlers or metrics: each CREATE of a pod is answered at one moment,    *)
(* with what the rules of Verdicts make of the pod and of the Profilers as *)
(* they are or once were, or not at all.  PodAdmission implements it.      *)
(***************************************************************************)
EXTENDS Integers, Sequences

CONSTANTS
    Requests,       \* one for each CREATE of a pod
    Profilers,      \* what Profilers may exist: records [ns, name, spec]
    Specs,          \* the pods that may be submitted
    MaxChanges      \* bound: Profilers created, edited or deleted

\* A submitted pod: its namespace, its containers in order, the value of
\* profiler.pprof.dev/enable, that of profiler.pprof.dev/name, whether
\* profiler.pprof.dev/target-container is set, and kubectl's dry run.
PodSpec(s) ==
    /\ DOMAIN s = {"ns", "containers", "enable", "profiler", "target", "dryRun"}
    /\ s.enable \in {"absent", "false", "true", "other"}
    /\ s.target \in BOOLEAN /\ s.dryRun \in BOOLEAN
    /\ s.containers \in Seq({s.containers[i] : i \in DOMAIN s.containers})
ASSUME SpecsAssumption == \A s \in Specs : PodSpec(s)
\* "absent" is the name in a pod that names no Profiler.
ASSUME NamesAssumption == \A p \in Profilers : p.name # "absent"

VARIABLES
    versions,   \* the sets of Profilers the API server has held, in order
    pod,        \* what was submitted
    call,       \* whether a request is "unsent", "calling", "answered" or "ignored"
    cluster     \* what became of each pod

serviceVars == <<versions, pod, call, cluster>>

-----------------------------------------------------------------------------
Sidecar == "pprof-sidecar"

\* A container is its name and what it was configured from: its author, or the
\* spec of a Profiler.
Container(name, spec) == [name |-> name, spec |-> spec]
NoContainer == Container("none", "none")
SidecarOf(p) == Container(Sidecar, p.spec)

NoPod == [ns |-> "none", containers |-> <<>>, enable |-> "absent",
          profiler |-> "absent", target |-> FALSE, dryRun |-> FALSE]
Absent == [phase |-> "absent", containers |-> <<>>]


HasSidecar(cs) == \E i \in DOMAIN cs : cs[i].name = Sidecar

\* The loop over the containers: what it has kept after each of them.
Kept(cs) ==
    LET kept[i \in 0 .. Len(cs)] ==
          IF i = 0 THEN <<>>
          ELSE IF cs[i].name = Sidecar THEN kept[i - 1]
          ELSE Append(kept[i - 1], cs[i])
    IN kept
App(cs) == Kept(cs)[Len(cs)]

\* The test of line 64: any value but "false" enables the profiler.
Disabled(s) == s.enable \in {"absent", "false"}

\* BuildProfilerSidecar finds a target container.
Buildable(s) == s.target \/ s.containers # <<>>

\* Profiler p is the one that pod s names.
Named(s, p) == p.ns = s.ns /\ p.name = s.profiler

\* The API server's validation of a pod: containers, with distinct names.
Valid(cs) == cs # <<>> /\ \A i, j \in DOMAIN cs : i # j => cs[i].name # cs[j].name

\* What the API server makes of a pod once admission is over.
Outcome(r, cs) ==
    IF ~Valid(cs) THEN [phase |-> "refused", containers |-> <<>>]
    ELSE IF pod[r].dryRun THEN [phase |-> "dryrun", containers |-> cs]
    ELSE [phase |-> "running", containers |-> cs]

\* What admission may answer for pod s when ps are the Profilers: containers
\* to create it with, none to refuse it.  Only a pod that asks for a Profiler
\* may be refused, and it may always: looking the Profiler up may fail.
Verdicts(s, ps) ==
    LET found == {p \in ps : p.ns = s.ns}
        named == {p \in ps : Named(s, p)}
    IN
    IF Disabled(s) THEN {App(s.containers)}
    ELSE IF s.profiler = "absent" THEN {s.containers}
    ELSE UNION {{<<>>},
                IF found = {} THEN {s.containers} ELSE {},
                IF Buildable(s) THEN {Append(s.containers, SidecarOf(p)) : p \in named}
                ELSE {}}

-----------------------------------------------------------------------------
ServiceInit ==
    /\ versions \in {<<{}>>} \cup {<<{p}>> : p \in Profilers}
    /\ pod = [r \in Requests |-> NoPod]
    /\ call = [r \in Requests |-> "unsent"]
    /\ cluster = [r \in Requests |-> Absent]

SameKey(p, q) == p.ns = q.ns /\ p.name = q.name

\* A Profiler is deleted, or created, or edited into p.
Change(p) ==
    /\ Len(versions) <= MaxChanges
    /\ LET last == versions[Len(versions)]
           rest == {q \in last : ~SameKey(p, q)}
       IN
       versions' = Append(versions, IF p \in last THEN rest ELSE rest \cup {p})
    /\ UNCHANGED <<pod, call, cluster>>

\* A pod is submitted.
Ask(r, s) ==
    /\ call[r] = "unsent"
    /\ call' = [call EXCEPT ![r] = "calling"]
    /\ pod' = [pod EXCEPT ![r] = s]
    /\ UNCHANGED <<versions, cluster>>

\* The webhook answers, by a state of the Profilers that has been.
Answer(r) ==
    /\ call[r] = "calling"
    /\ call' = [call EXCEPT ![r] = "answered"]
    /\ \E v \in DOMAIN versions : \E cs \in Verdicts(pod[r], versions[v]) :
         cluster' = [cluster EXCEPT ![r] = Outcome(r, cs)]
    /\ UNCHANGED <<versions, pod>>

\* The call times out or cannot be made: failurePolicy=ignore.
GiveUp(r) ==
    /\ call[r] = "calling"
    /\ call' = [call EXCEPT ![r] = "ignored"]
    /\ cluster' = [cluster EXCEPT ![r] = Outcome(r, pod[r].containers)]
    /\ UNCHANGED <<versions, pod>>

\* A running pod is deleted: the webhook is not called.
EndPod(r) ==
    /\ cluster[r].phase = "running"
    /\ cluster' = [cluster EXCEPT ![r] = [@ EXCEPT !.phase = "deleted"]]
    /\ UNCHANGED <<versions, pod, call>>

ServiceNext ==
    \/ \E p \in Profilers : Change(p)
    \/ \E r \in Requests : (\E s \in Specs : Ask(r, s)) \/ Answer(r) \/ GiveUp(r) \/ EndPod(r)

\* Property: the cluster sees no more of the webhook than this, whatever its
\* handlers, caches, timeouts and crashes are.
WebhookService == ServiceInit /\ [][ServiceNext]_serviceVars
=============================================================================
