---------------------------- MODULE KubeletMetrics ----------------------------
(***************************************************************************)
(* GetKubeletMetrics, sidecar/pkg/kubelet/metrics.go, and what the loop of *)
(* sidecar/cmd/main.go makes of its answer.  One query asks the API server *)
(* for the pod, then the kubelet of the pod's node for its stats and, when *)
(* a limit is not set, the API server for the node.  Nothing keeps the     *)
(* three answers together: in between the pod may be deleted and created   *)
(* again under its name, scheduled, or resized, and the kubelet refreshes  *)
(* its stats, where an earlier pod of that name may linger.  Entries are   *)
(* matched by namespace and name, never by UID.                            *)
(*                                                                         *)
(* A query is cut at each of its calls.  A resource is "cpu" or "mem"; the *)
(* units of usage, limit and capacity are one, and 0 stands for a limit    *)
(* that is not set and for a capacity the node does not report.            *)
(***************************************************************************)
EXTENDS Integers, FiniteSets

CONSTANTS
    Nodes,
    Capacity,       \* of each node
    Usages,         \* what a container may use
    Limits,         \* the limits it may have
    Thresholds,     \* CPU_THRESHOLD and MEMORY_THRESHOLD, in percent
    RuleSets,       \* what the service account may be allowed to read
    NoNode,         \* of a pod that is not scheduled
    MaxChanges      \* bound: changes of the pod

Resources == {"cpu", "mem"}
Amounts == [Resources -> Nat]

ASSUME AmountsAssumption ==
    /\ Capacity \in [Nodes -> Amounts]
    /\ Usages \subseteq Amounts /\ Limits \subseteq Amounts
    /\ Thresholds \in Amounts
ASSUME NodesAssumption == NoNode \notin Nodes
ASSUME ChangesBound == MaxChanges \in Nat

VARIABLES
    rules,      \* what the service account may read, fixed
    pod,        \* the pod that has the name now
    stats,      \* what each kubelet lists under the name
    changes,
    query,      \* [pc, pod, listed, limits]: the query and the answers so far
    verdict,    \* which thresholds the last query that was answered exceeded
    was,        \* history: the pods that had the name during this query
    shown       \* history: what its kubelet listed, until it answered

env == <<pod, stats, changes>>
vars == <<rules, pod, stats, changes, query, verdict, was, shown>>

-----------------------------------------------------------------------------
UIDs == 0 .. MaxChanges
Pods == [uid : UIDs, node : Nodes \cup {NoNode}, limits : Limits]

Zero == [r \in Resources |-> 0]
NoPod == [uid |-> 0, node |-> NoNode, limits |-> Zero]

\* The pod as a kubelet lists it, with its container or, before that starts,
\* without.
Entries(uids) ==
    [uid : uids, node : Nodes, listed : {TRUE}, usage : Usages]
        \cup [uid : uids, node : Nodes, listed : {FALSE}, usage : {Zero}]

\* Mutant: the comparison is the other way round, and NaN is not below anything.
Over_Negated(used, limit, threshold) ==
    IF limit = 0 THEN TRUE ELSE ~(used * 100 < threshold * limit)

\* usage / limit * 100 >= threshold in floating point: over a missing limit
\* the quotient is +Inf, or NaN when nothing is used (main.go:536-537).
Over(used, limit, threshold) ==
    IF limit = 0 THEN used > 0 ELSE used * 100 >= threshold * limit

\* The resources over their threshold, for this usage under these limits.
Exceeded(usage, limits) ==
    {r \in Resources : Over(usage[r], limits[r], Thresholds[r])}

\* Mutant: of the capacity only what the system leaves, which may be nothing.
Effective_Reserved(limits, node) ==
    [r \in Resources |-> IF limits[r] = 0 THEN Capacity[node][r] - 1 ELSE limits[r]]

\* What the container may use: its limits, or the capacity of its node.
Effective(limits, node) ==
    [r \in Resources |-> IF limits[r] = 0 THEN Capacity[node][r] ELSE limits[r]]

\* Mutant: the node is asked only when neither limit is set.
NeedsNode_Both(limits) == \A r \in Resources : limits[r] = 0

NeedsNode(limits) == \E r \in Resources : limits[r] = 0

-----------------------------------------------------------------------------
Idle == [pc |-> "idle", pod |-> NoPod, listed |-> {}, limits |-> Zero]

Init ==
    /\ rules \in RuleSets
    /\ pod \in [uid : {0}, node : {NoNode}, limits : Limits]
    /\ stats = [n \in Nodes |-> {}]
    /\ changes = 0
    /\ query = Idle
    /\ verdict = {}
    /\ was = {}
    /\ shown = {}

-----------------------------------------------------------------------------
(* The cluster.                                                            *)

Querying == query.pc # "idle"

\* The pod becomes p; a query under way has seen one more.
Replace(p) ==
    /\ pod' = p
    /\ was' = IF Querying THEN was \cup {p} ELSE was
    /\ UNCHANGED <<rules, stats, query, verdict, shown>>

Change(p) ==
    /\ changes < MaxChanges
    /\ changes' = changes + 1
    /\ Replace(p)

\* The pod is deleted and created again: a StatefulSet, or by hand.
Recreate == \E l \in Limits : Change([uid |-> pod.uid + 1, node |-> NoNode, limits |-> l])

\* Its limits are changed in place.
Resize == \E l \in Limits : Change([pod EXCEPT !.limits = l])

Schedule ==
    /\ pod.node = NoNode
    /\ \E n \in Nodes : Replace([pod EXCEPT !.node = n])
    /\ UNCHANGED changes

\* What the kubelet of n lists of the pod, if it runs it.
Measured(n) ==
    IF pod.node # n THEN {{}} ELSE {{e} : e \in {f \in Entries({pod.uid}) : f.node = n}}

\* The kubelet of n refreshes its stats: earlier pods stay for a while.
Refresh(n) ==
    /\ \E left \in SUBSET {e \in stats[n] : e.uid # pod.uid}, own \in Measured(n) :
         /\ stats' = [stats EXCEPT ![n] = left \cup own]
         /\ shown' = IF query.pc = "stats" /\ query.pod.node = n
                     THEN shown \cup own ELSE shown
    /\ UNCHANGED <<rules, pod, changes, query, verdict, was>>

-----------------------------------------------------------------------------
(* The query.                                                              *)

Ask(pc, p, listed, limits) ==
    query' = [pc |-> pc, pod |-> p, listed |-> listed, limits |-> limits]

\* A call fails or is refused, or its answer is of no use: the loop goes on
\* to its next tick with the gauges as they were.
GiveUp ==
    /\ query' = Idle
    /\ was' = {} /\ shown' = {}
    /\ UNCHANGED <<rules, env, verdict>>

CallFails ==
    /\ query.pc \in {"stats", "node"}
    /\ GiveUp

\* A tick of the loop, and the pod as the API server has it.  A tick that
\* gets no pod, or one that is not scheduled, changes nothing.
GetPod ==
    /\ query.pc = "idle" /\ "pods" \in rules /\ pod.node # NoNode
    /\ Ask("stats", pod, {}, pod.limits)
    /\ was' = {pod}
    /\ shown' = stats[pod.node]
    /\ UNCHANGED <<rules, env, verdict>>

\* The summary of the node found there.
GetStats ==
    /\ query.pc = "stats" /\ "nodes/proxy" \in rules
    /\ Ask(IF NeedsNode(query.pod.limits) THEN "node" ELSE "find",
           query.pod, stats[query.pod.node], query.limits)
    /\ UNCHANGED <<rules, env, verdict, was, shown>>

\* The capacity of that node.
GetNode ==
    /\ query.pc = "node" /\ "nodes" \in rules
    /\ Ask("find", query.pod, query.listed, Effective(query.limits, query.pod.node))
    /\ UNCHANGED <<rules, env, verdict, was, shown>>

Decide(e) ==
    /\ verdict' = Exceeded(e.usage, query.limits)
    /\ Ask("answered", query.pod, {e}, query.limits)
    /\ UNCHANGED <<rules, env, was, shown>>

\* Mutant: the search ends at the first entry of that name.
Find_FirstName ==
    /\ query.pc = "find"
    /\ \E e \in query.listed : IF e.listed THEN Decide(e) ELSE GiveUp

\* The first entry of that name which has the container; entries come in no
\* particular order.
Find ==
    /\ query.pc = "find"
    /\ \E e \in query.listed : e.listed /\ Decide(e)

NotFound ==
    /\ query.pc = "find"
    /\ \A e \in query.listed : ~e.listed
    /\ GiveUp

\* The loop has acted on the verdict.
Done ==
    /\ query.pc = "answered"
    /\ query' = Idle
    /\ was' = {} /\ shown' = {}
    /\ UNCHANGED <<rules, env, verdict>>

-----------------------------------------------------------------------------
Next ==
    \/ Recreate \/ Resize \/ Schedule
    \/ \E n \in Nodes : Refresh(n)
    \/ CallFails \/ GetPod \/ GetStats \/ GetNode \/ Find \/ NotFound \/ Done

Spec == Init /\ [][Next]_vars

\* The loop runs; every call ends (nothing in the code sees to it: the calls
\* have no timeout), and none that is allowed fails each time it is made.
FairSpec ==
    /\ Spec
    /\ WF_vars(Done) /\ WF_vars(Find \/ NotFound)
    /\ WF_vars(CallFails \/ GetStats \/ GetNode)
    /\ SF_vars(GetPod) /\ SF_vars(GetStats) /\ SF_vars(GetNode)

-----------------------------------------------------------------------------
\* Every variable stays in its type.
TypeOK ==
    /\ rules \in RuleSets
    /\ pod \in Pods
    /\ stats \in [Nodes -> SUBSET Entries(UIDs)]
    /\ changes \in 0 .. MaxChanges
    /\ query \in [pc : {"idle", "stats", "node", "find", "answered"},
                  pod : Pods \cup {NoPod}, listed : SUBSET Entries(UIDs), limits : Amounts]
    /\ verdict \subseteq Resources
    /\ was \subseteq Pods
    /\ shown \subseteq Entries(UIDs)

\* An answer is true of one moment of each source: what it says of both resources follows
\* from one entry that the kubelet listed during the query, and from the limits,
\* completed by the capacity of the node of that entry, of one pod that had
\* the name during the query (metrics.go:95-163, main.go:536-537).  The entry
\* and the limits may be those of two pods of that name: no UID is compared.
VerdictTrue ==
    query.pc = "answered" =>
        \E p \in was, e \in shown :
            /\ e.listed /\ e.node = p.node
            /\ verdict = Exceeded(e.usage, Effective(p.limits, p.node))

\* A resource of which nothing is used is over no threshold but 0, whatever
\* is missing of limits and capacity (metrics.go:162-163, main.go:536-537).
IdleNeverOver ==
    \A r \in Resources :
        /\ query.pc = "answered" /\ Thresholds[r] > 0
        /\ \A e \in shown : e.listed => e.usage[r] = 0
        => r \notin verdict

\* The pod runs, its kubelet lists its container, and what the query needs to
\* read it may read.
Answerable(needs) ==
    /\ needs \subseteq rules
    /\ pod.node # NoNode
    /\ \E e \in stats[pod.node] : e.uid = pod.uid /\ e.listed

Answered == query.pc = "answered"

\* Queries are answered again and again once the pod runs, whatever the query
\* met before: entries of earlier pods, a pod that was not scheduled or that
\* moved, failing calls.  The node is read only for a pod that lacks a limit
\* (metrics.go:60-157).
AnswersInTheEnd ==
    <>[]Answerable({"pods", "nodes/proxy"}
                   \cup IF NeedsNode(pod.limits) THEN {"nodes"} ELSE {}) => []<>Answered

-----------------------------------------------------------------------------
(* What a comment says and the code does not do as it is deployed.         *)

\* "If no limits are set, get node capacity" (metrics.go:113): with what the
\* manifest of the service account grants, a container that runs is measured.
CapacityFallback ==
    <>[]Answerable({"pods", "nodes/proxy"}) => []<>Answered
=============================================================================
