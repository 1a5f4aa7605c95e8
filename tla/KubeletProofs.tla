---------------------------- MODULE KubeletProofs ----------------------------
(***************************************************************************)
(* Theorems about KubeletMetrics for every value of its constants: its     *)
(* types, that an answered query tells the truth, and that an idle         *)
(* container is over no threshold.                                         *)
(***************************************************************************)
EXTENDS KubeletMetrics, TLAPS

-----------------------------------------------------------------------------
(* Types.                                                                  *)

LEMMA ConstantTypes ==
  /\ Zero \in Amounts /\ NoPod \in Pods \cup {NoPod}
  /\ Idle \in [pc : {"idle", "stats", "node", "find", "answered"},
               pod : Pods \cup {NoPod}, listed : SUBSET Entries(UIDs), limits : Amounts]
  BY DEF Zero, Amounts, Resources, Idle

\* Missing limits completed by a capacity are amounts.
LEMMA EffectiveType ==
  ASSUME NEW l \in Amounts, NEW n \in Nodes
  PROVE  Effective(l, n) \in Amounts
<1>1. Capacity[n] \in Amounts
  BY AmountsAssumption
<1> QED
  BY <1>1 DEF Effective, Amounts

\* With both limits set the capacity of the node does not matter.
LEMMA EffectiveOfLimited ==
  ASSUME NEW l \in Amounts, NEW n, ~NeedsNode(l)
  PROVE  Effective(l, n) = l
  BY DEF Effective, Amounts, NeedsNode

\* What the kubelet of a node lists of the pod are entries of that node.
LEMMA MeasuredType ==
  ASSUME pod \in Pods, NEW n \in Nodes, NEW own \in Measured(n)
  PROVE  own \subseteq Entries(UIDs) /\ \A e \in own : e.node = n
<1>1. \A f \in Entries({pod.uid}) : f \in Entries(UIDs)
  BY DEF Entries, Pods
<1>2. CASE pod.node # n
  BY <1>2 DEF Measured
<1>3. CASE pod.node = n
  <2>1. PICK e \in Entries({pod.uid}) : own = {e} /\ e.node = n
    BY <1>3 DEF Measured
  <2> QED
    BY <1>1, <2>1
<1> QED
  BY <1>2, <1>3

-----------------------------------------------------------------------------
(* The invariant: what each step of a query holds comes from what it was   *)
(* answered, and that was true at some moment of the query.                *)

QueryInv ==
  /\ \A n \in Nodes : \A e \in stats[n] : e.node = n
  /\ query.pc # "idle" => query.pod \in was /\ query.pod.node \in Nodes
  /\ query.pc = "stats" => stats[query.pod.node] \subseteq shown
  /\ query.pc \in {"stats", "node"} => query.limits = query.pod.limits
  /\ query.pc \in {"find", "answered"} =>
       query.limits = Effective(query.pod.limits, query.pod.node)
  /\ query.pc \in {"node", "find", "answered"} =>
       \A e \in query.listed : e \in shown /\ e.node = query.pod.node
  /\ query.pc = "answered" =>
       \E e \in query.listed : e.listed /\ verdict = Exceeded(e.usage, query.limits)

\* Each change makes at most one new pod.
UIDInv == pod.uid <= changes

Inv == TypeOK /\ UIDInv /\ QueryInv

LEMMA InitInv == Init => Inv
<1> SUFFICES ASSUME Init PROVE Inv
  OBVIOUS
<1>1. pod \in Pods
  BY ChangesBound DEF Init, Pods, UIDs
<1>2. TypeOK
  BY <1>1, ConstantTypes, ChangesBound DEF Init, TypeOK
<1>3. QueryInv
  BY DEF Init, QueryInv, Idle
<1>4. UIDInv
  BY DEF Init, UIDInv
<1> QED
  BY <1>2, <1>3, <1>4 DEF Inv

\* A change of the pod.
LEMMA ReplaceInv ==
  ASSUME Inv, NEW p \in Pods, Replace(p), changes' \in 0 .. MaxChanges, p.uid <= changes'
  PROVE  Inv'
<1>1. TypeOK'
  BY DEF Inv, TypeOK, Replace
<1>2. query' = query /\ stats' = stats /\ shown' = shown /\ verdict' = verdict
      /\ was \subseteq was'
  BY DEF Replace
<1>3. QueryInv'
  BY <1>2 DEF Inv, QueryInv
<1>4. UIDInv'
  BY DEF Replace, UIDInv
<1> QED
  BY <1>1, <1>3, <1>4 DEF Inv

\* A refresh of the stats of a node.
LEMMA RefreshInv ==
  ASSUME Inv, NEW n \in Nodes, Refresh(n)
  PROVE  Inv'
<1>1. PICK left \in SUBSET {e \in stats[n] : e.uid # pod.uid}, own \in Measured(n) :
        /\ stats' = [stats EXCEPT ![n] = left \cup own]
        /\ shown' = IF query.pc = "stats" /\ query.pod.node = n
                    THEN shown \cup own ELSE shown
  BY DEF Refresh
<1>2. /\ own \subseteq Entries(UIDs) /\ \A e \in own : e.node = n
      /\ left \subseteq stats[n] /\ stats[n] \subseteq Entries(UIDs)
  BY MeasuredType DEF Inv, TypeOK
<1>3. UNCHANGED <<rules, pod, changes, query, verdict, was>>
  BY DEF Refresh
<1>4. TypeOK'
  BY <1>1, <1>2, <1>3 DEF Inv, TypeOK
<1>5. /\ \A m \in Nodes : stats'[m] = IF m = n THEN left \cup own ELSE stats[m]
      /\ shown \subseteq shown'
  BY <1>1 DEF Inv, TypeOK
<1>6. \A m \in Nodes : \A e \in stats'[m] : e.node = m
  BY <1>2, <1>5 DEF Inv, QueryInv
<1>7. query.pc = "stats" => stats'[query.pod.node] \subseteq shown'
  BY <1>1, <1>2, <1>5 DEF Inv, QueryInv
<1>8. QueryInv'
  BY <1>3, <1>5, <1>6, <1>7 DEF Inv, QueryInv
<1>9. UIDInv'
  BY <1>3 DEF Inv, UIDInv
<1> QED
  BY <1>4, <1>8, <1>9 DEF Inv

\* The end of a query, whatever its verdict.
LEMMA IdleInv ==
  ASSUME Inv, query' = Idle, was' = {}, shown' = {}, UNCHANGED <<rules, env, verdict>>
  PROVE  Inv'
<1>1. TypeOK'
  BY ConstantTypes DEF Inv, TypeOK, env
<1>2. QueryInv'
  BY DEF Inv, QueryInv, env, Idle
<1>9. UIDInv'
  BY DEF Inv, UIDInv, env
<1> QED
  BY <1>1, <1>2, <1>9 DEF Inv

\* The pod is known.
LEMMA GetPodInv ==
  ASSUME Inv, GetPod
  PROVE  Inv'
<1>1. /\ query' = [pc |-> "stats", pod |-> pod, listed |-> {}, limits |-> pod.limits]
      /\ was' = {pod} /\ shown' = stats[pod.node]
      /\ UNCHANGED <<rules, pod, stats, changes, verdict>>
      /\ pod.node \in Nodes /\ pod.limits \in Amounts
  BY AmountsAssumption DEF GetPod, Ask, env, Inv, TypeOK, Pods
<1>2. TypeOK'
  BY <1>1 DEF Inv, TypeOK
<1>3. QueryInv'
  BY <1>1 DEF Inv, QueryInv
<1>9. UIDInv'
  BY <1>1 DEF Inv, UIDInv
<1> QED
  BY <1>2, <1>3, <1>9 DEF Inv

\* The stats are known.
LEMMA GetStatsInv ==
  ASSUME Inv, GetStats
  PROVE  Inv'
<1> DEFINE next == IF NeedsNode(query.pod.limits) THEN "node" ELSE "find"
<1>1. /\ query' = [pc |-> next, pod |-> query.pod, listed |-> stats[query.pod.node],
                    limits |-> query.limits]
      /\ UNCHANGED <<rules, pod, stats, changes, verdict, was, shown>>
      /\ query.pc = "stats"
  BY DEF GetStats, Ask, env
<1>2. /\ query.pod.node \in Nodes /\ query.pod \in Pods \cup {NoPod}
      /\ query.limits = query.pod.limits /\ query.limits \in Amounts
  BY <1>1 DEF Inv, TypeOK, QueryInv
<1>3. TypeOK'
  BY <1>1, <1>2 DEF Inv, TypeOK
<1>4. next = "find" => query.limits = Effective(query.pod.limits, query.pod.node)
  BY <1>2, EffectiveOfLimited
<1>5. next \in {"node", "find"}
  OBVIOUS
<1> HIDE DEF next
<1>6. QueryInv'
  BY <1>1, <1>2, <1>4, <1>5 DEF Inv, QueryInv
<1>9. UIDInv'
  BY <1>1 DEF Inv, UIDInv
<1> QED
  BY <1>3, <1>6, <1>9 DEF Inv

\* The capacity of the node is known.
LEMMA GetNodeInv ==
  ASSUME Inv, GetNode
  PROVE  Inv'
<1> DEFINE all == Effective(query.limits, query.pod.node)
<1>1. /\ query' = [pc |-> "find", pod |-> query.pod, listed |-> query.listed, limits |-> all]
      /\ UNCHANGED <<rules, pod, stats, changes, verdict, was, shown>>
      /\ query.pc = "node"
  BY DEF GetNode, Ask, env
<1>2. all \in Amounts /\ query.limits = query.pod.limits
  BY <1>1, EffectiveType DEF Inv, TypeOK, QueryInv
<1> HIDE DEF all
<1>3. TypeOK'
  BY <1>1, <1>2 DEF Inv, TypeOK
<1>4. all = Effective(query.pod.limits, query.pod.node)
  BY <1>2 DEF all
<1>5. QueryInv'
  BY <1>1, <1>4 DEF Inv, QueryInv
<1>9. UIDInv'
  BY <1>1 DEF Inv, UIDInv
<1> QED
  BY <1>3, <1>5, <1>9 DEF Inv

\* The container is found.
LEMMA FindInv ==
  ASSUME Inv, Find
  PROVE  Inv'
<1>1. PICK e \in query.listed :
        /\ e.listed
        /\ verdict' = Exceeded(e.usage, query.limits)
        /\ query' = [pc |-> "answered", pod |-> query.pod, listed |-> {e},
                     limits |-> query.limits]
        /\ UNCHANGED <<rules, pod, stats, changes, was, shown>>
        /\ query.pc = "find"
  BY DEF Find, Decide, Ask, env
<1>2. verdict' \subseteq Resources
  BY <1>1 DEF Exceeded
<1>3. TypeOK'
  BY <1>1, <1>2 DEF Inv, TypeOK
<1>4. QueryInv'
  BY <1>1 DEF Inv, QueryInv
<1>9. UIDInv'
  BY <1>1 DEF Inv, UIDInv
<1> QED
  BY <1>3, <1>4, <1>9 DEF Inv

LEMMA NextInv == Inv /\ [Next]_vars => Inv'
<1> SUFFICES ASSUME Inv, [Next]_vars PROVE Inv'
  OBVIOUS
<1>1. CASE Recreate
  <2>1. PICK l \in Limits : Change([uid |-> pod.uid + 1, node |-> NoNode, limits |-> l])
    BY <1>1 DEF Recreate
  <2>2. [uid |-> pod.uid + 1, node |-> NoNode, limits |-> l] \in Pods
        /\ changes' \in 0 .. MaxChanges
        /\ pod.uid + 1 <= changes'
    BY <2>1, ChangesBound DEF Change, Inv, TypeOK, UIDInv, Pods, UIDs
  <2> QED
    BY <2>1, <2>2, ReplaceInv DEF Change
<1>2. CASE Resize
  <2>1. PICK l \in Limits : Change([pod EXCEPT !.limits = l])
    BY <1>2 DEF Resize
  <2> DEFINE p == [pod EXCEPT !.limits = l]
  <2>2. p \in Pods /\ p.uid = pod.uid
    BY DEF Inv, TypeOK, Pods
  <2> HIDE DEF p
  <2>3. changes' \in 0 .. MaxChanges /\ pod.uid <= changes'
    BY <2>1, ChangesBound DEF Change, Inv, TypeOK, UIDInv, Pods, UIDs
  <2>4. Replace(p)
    BY <2>1 DEF Change, p
  <2> QED
    BY <2>2, <2>3, <2>4, ReplaceInv
<1>3. CASE Schedule
  <2>1. PICK n \in Nodes : Replace([pod EXCEPT !.node = n])
    BY <1>3 DEF Schedule
  <2> DEFINE p == [pod EXCEPT !.node = n]
  <2>2. p \in Pods /\ p.uid = pod.uid
    BY DEF Inv, TypeOK, Pods
  <2>3. Replace(p)
    BY <2>1
  <2> HIDE DEF p
  <2>4. changes' \in 0 .. MaxChanges /\ pod.uid <= changes'
    BY <1>3 DEF Schedule, Inv, TypeOK, UIDInv
  <2> QED
    BY <2>2, <2>3, <2>4, ReplaceInv
<1>4. CASE \E n \in Nodes : Refresh(n)
  BY <1>4, RefreshInv
<1>5. CASE CallFails \/ NotFound
  BY <1>5, IdleInv DEF CallFails, NotFound, GiveUp
<1>6. CASE GetPod
  BY <1>6, GetPodInv
<1>7. CASE GetStats
  BY <1>7, GetStatsInv
<1>8. CASE GetNode
  BY <1>8, GetNodeInv
<1>9. CASE Find
  BY <1>9, FindInv
<1>10. CASE Done
  BY <1>10, IdleInv DEF Done
<1>11. CASE UNCHANGED vars
  BY <1>11 DEF vars, env, Inv, TypeOK, UIDInv, QueryInv
<1> QED
  BY <1>1, <1>2, <1>3, <1>4, <1>5, <1>6, <1>7, <1>8, <1>9, <1>10, <1>11 DEF Next

LEMMA Invariance == Spec => []Inv
<1>1. Init => Inv
  BY InitInv
<1>2. Inv /\ [Next]_vars => Inv'
  BY NextInv
<1> QED
  BY <1>1, <1>2, PTL DEF Spec

-----------------------------------------------------------------------------
(* Theorems.                                                               *)

\* The types of every variable of the query (metrics.go:53-178).
THEOREM QueryTypes == Spec => []TypeOK
<1>1. Inv => TypeOK
  BY DEF Inv
<1> QED
  BY <1>1, Invariance, PTL

\* An answered query tells the truth, for all limits, capacities, thresholds
\* and changes of the pod: one entry and one pod explain it
\* (metrics.go:95-163).
THEOREM AnswersTrue == Spec => []VerdictTrue
<1>1. Inv => VerdictTrue
  <2> SUFFICES ASSUME Inv, query.pc = "answered" PROVE VerdictTrue
    BY DEF VerdictTrue
  <2>1. PICK e \in query.listed : e.listed /\ verdict = Exceeded(e.usage, query.limits)
    BY DEF Inv, QueryInv
  <2>2. /\ query.pod \in was /\ e \in shown /\ e.node = query.pod.node
        /\ query.limits = Effective(query.pod.limits, query.pod.node)
    BY DEF Inv, QueryInv
  <2> QED
    BY <2>1, <2>2 DEF VerdictTrue
<1> QED
  BY <1>1, Invariance, PTL

\* Nothing used is below every threshold but 0, whatever the divisor.
LEMMA OverZero ==
  ASSUME NEW l \in Nat, NEW t \in Nat, t > 0
  PROVE  ~Over(0, l, t)
<1>1. CASE l = 0
  BY <1>1 DEF Over
<1>2. CASE l # 0
  <2>1. t * l > 0
    BY <1>2
  <2> QED
    BY <1>2, <2>1 DEF Over
<1> QED
  BY <1>1, <1>2

\* A container that uses nothing of a resource is never over its threshold,
\* with limits and capacity set or missing (metrics.go:162-163).
THEOREM IdleQuiet == Spec => []IdleNeverOver
<1>1. Inv => IdleNeverOver
  <2> SUFFICES ASSUME Inv, NEW r \in Resources, query.pc = "answered", Thresholds[r] > 0,
                      \A e \in shown : e.listed => e.usage[r] = 0
               PROVE  r \notin verdict
    BY DEF IdleNeverOver
  <2>1. PICK e \in query.listed : e.listed /\ verdict = Exceeded(e.usage, query.limits)
    BY DEF Inv, QueryInv
  <2>2. e.usage[r] = 0
    BY <2>1 DEF Inv, QueryInv
  <2>3. query.limits[r] \in Nat /\ Thresholds[r] \in Nat
    BY AmountsAssumption DEF Inv, TypeOK, Amounts
  <2>4. ~Over(e.usage[r], query.limits[r], Thresholds[r])
    BY <2>2, <2>3, OverZero
  <2> QED
    BY <2>1, <2>4 DEF Exceeded
<1> QED
  BY <1>1, Invariance, PTL
=============================================================================
