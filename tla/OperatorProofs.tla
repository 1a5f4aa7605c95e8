---------------------------- MODULE OperatorProofs ----------------------------
(***************************************************************************)
(* Theorems about Operator for every number of replicas, Profilers and     *)
(* requests: its types, that one controller at a time works and has the    *)
(* lease, that no Profiler drops out of the leader's queue, and that the   *)
(* webhook keeps in it what PodAdmission promises.                         *)
(***************************************************************************)
EXTENDS Operator, AdmissionRefinement

\* Admission requests leave the Profilers, the caches and the servers alone.
LEMMA RequestsApart ==
  ASSUME NEW r \in Requests, Request(r)
  PROVE  UNCHANGED <<versions, seen, up>>
<1>1. CASE \E s \in Specs : Submit(r, s)
  BY <1>1 DEF Submit, Ask, cacheVars
<1>2. CASE \E o \in Operators : Receive(r, o)
  BY <1>2 DEF Receive, cacheVars
<1>3. CASE Admit(r) \/ Ignore(r) \/ Delete(r)
  BY <1>3 DEF Admit, Ignore, GiveUp, Delete, EndPod, cacheVars
<1>4. CASE Handle(r)
  <2>1. CASE AllowUntouched(r) \/ IncRemoved(r) \/ DecActive(r)
    BY <2>1 DEF AllowUntouched, IncRemoved, DecActive, cacheVars
  <2>2. CASE LookUp(r) \/ List(r) \/ ListFails(r)
    BY <2>2 DEF LookUp, List, ListFails, cacheVars
  <2>3. CASE IncAttached(r) \/ IncActive(r)
    BY <2>3 DEF IncAttached, IncActive, cacheVars
  <2> QED
    BY <1>4, <2>1, <2>2, <2>3 DEF Handle, Proceed
<1> QED
  BY <1>1, <1>2, <1>3, <1>4 DEF Request

-----------------------------------------------------------------------------
(* The invariant.  To the types it adds what ties a controller to the      *)
(* lease: it runs only where the lease says, so a lease that is taken or   *)
(* runs out finds no other controller.                                     *)

VersionsType == versions \in Seq(SUBSET Profilers) /\ versions # <<>>
LeaderHoldsLease == \A o \in leading : lease = o

OperatorInv == VersionsType /\ ProcessesOK /\ LeaderHoldsLease /\ NoLostProfiler

LEMMA NoWorkType == NoWork \in [Keys -> SUBSET Places]
  BY DEF NoWork

LEMMA OperatorInitInv == OperatorInit => OperatorInv
<1> SUFFICES ASSUME OperatorInit PROVE OperatorInv
  OBVIOUS
<1>1. VersionsType /\ seen = [o \in Operators |-> 0] /\ up = {}
  <2>1. PICK ps \in SUBSET Profilers : versions = <<ps>>
    BY DEF OperatorInit, InitWith, ServiceInit
  <2>2. VersionsType
    BY <2>1 DEF VersionsType
  <2> QED
    BY <2>2 DEF OperatorInit, InitWith, ServiceInit
<1>2. ProcessesOK
  <2>1. seen \in [Operators -> 0 .. Len(versions)]
    BY <1>1 DEF VersionsType
  <2>2. work \in [Operators -> [Keys -> SUBSET Places]]
    BY NoWorkType DEF OperatorInit
  <2> QED
    BY <1>1, <2>1, <2>2 DEF OperatorInit, ProcessesOK
<1> QED
  BY <1>1, <1>2 DEF OperatorInv, OperatorInit, VersionsType, LeaderHoldsLease, NoLostProfiler

\* A change of the Profilers leaves what is cached: only the end grows.
LEMMA CacheStays ==
  ASSUME VersionsType, seen \in [Operators -> 0 .. Len(versions)],
         NEW p \in Profilers, ChangeProfilers(p)
  PROVE  /\ VersionsType'
         /\ seen' \in [Operators -> 0 .. Len(versions')]
         /\ \A o \in Operators : CachedKeys(o)' = CachedKeys(o)
<1> DEFINE last == versions[Len(versions)]
           rest == {q \in last : ~SameKey(p, q)}
           next == IF p \in last THEN rest ELSE rest \cup {p}
<1>1. next \in SUBSET Profilers
  <2>1. last \in SUBSET Profilers
    BY DEF VersionsType
  <2> QED
    BY <2>1
<1>2. versions' = Append(versions, next) /\ seen' = seen
  BY DEF ChangeProfilers, Change
<1> HIDE DEF next
<1>3. /\ VersionsType'
      /\ Len(versions') = Len(versions) + 1
      /\ \A i \in 1 .. Len(versions) : versions'[i] = versions[i]
  BY <1>1, <1>2 DEF VersionsType
<1>4. seen' \in [Operators -> 0 .. Len(versions')]
  <2>1. 0 .. Len(versions) \subseteq 0 .. Len(versions')
    BY <1>3 DEF VersionsType
  <2> QED
    BY <1>2, <2>1
<1>5. ASSUME NEW o \in Operators PROVE CachedKeys(o)' = CachedKeys(o)
  <2>1. seen[o] = 0 \/ seen[o] \in 1 .. Len(versions)
    BY DEF VersionsType
  <2> QED
    BY <1>2, <1>3, <2>1 DEF CachedKeys, Cached
<1> QED
  BY <1>3, <1>4, <1>5

\* What is cached are Profilers.
LEMMA CachedAreKeys ==
  ASSUME VersionsType, NEW v \in 0 .. Len(versions)
  PROVE  {Key(p) : p \in Cached(v)} \subseteq Keys
<1>1. Cached(v) \subseteq Profilers
  BY DEF Cached, VersionsType
<1> QED
  BY <1>1 DEF Keys

\* What the informer adds to the queue, and what else it leaves.
LEMMA EnqueueEffect ==
  ASSUME work \in [Operators -> [Keys -> SUBSET Places]],
         NEW o \in Operators, NEW ks, Enqueue(o, ks)
  PROVE  /\ work' \in [Operators -> [Keys -> SUBSET Places]]
         /\ \A q \in Operators \ {o} : work'[q] = work[q]
         /\ \A k \in Keys : work[o][k] \subseteq work'[o][k]
         /\ \A k \in Keys \cap ks : work'[o][k] # {}
<1> DEFINE row == [k \in Keys |-> IF k \in ks THEN work[o][k] \cup {"queued"} ELSE work[o][k]]
<1>1. row \in [Keys -> SUBSET Places]
  BY DEF Places
<1>2. work' = [work EXCEPT ![o] = row]
  BY DEF Enqueue
<1>3. \A k \in Keys : work[o][k] \subseteq row[k] /\ (k \in ks => row[k] # {})
  OBVIOUS
<1> HIDE DEF row
<1> QED
  BY <1>1, <1>2, <1>3

\* What becomes of one key leaves the others where they are.
LEMMA MoveEffect ==
  ASSUME work \in [Operators -> [Keys -> SUBSET Places]],
         NEW o \in Operators, NEW k \in Keys, NEW from, NEW to \in SUBSET Places,
         Move(o, k, from, to)
  PROVE  /\ work' \in [Operators -> [Keys -> SUBSET Places]]
         /\ \A q \in Operators \ {o} : work'[q] = work[q]
         /\ \A l \in Keys \ {k} : work'[o][l] = work[o][l]
         /\ to \subseteq work'[o][k]
         /\ from \in work[o][k]
<1> DEFINE row == [work[o] EXCEPT ![k] = (work[o][k] \ {from}) \cup to]
<1>1. row \in [Keys -> SUBSET Places] /\ to \subseteq row[k]
  OBVIOUS
<1>2. work' = [work EXCEPT ![o] = row] /\ from \in work[o][k]
  BY DEF Move
<1>3. \A l \in Keys \ {k} : row[l] = work[o][l]
  OBVIOUS
<1> HIDE DEF row
<1> QED
  BY <1>1, <1>2, <1>3

-----------------------------------------------------------------------------
(* Each step keeps the invariant.                                          *)

\* The caches and the queues, as a step leaves them, when it moves neither.
LEMMA QueuesStay ==
  ASSUME NoLostProfiler, UNCHANGED <<versions, seen, work>>, leading' \subseteq leading
  PROVE  NoLostProfiler'
  BY DEF NoLostProfiler, CachedKeys, Cached

\* Pods and Profilers.
LEMMA AdmissionInv == OperatorInv /\ Admission => OperatorInv'
<1> SUFFICES ASSUME OperatorInv, Admission PROVE OperatorInv'
  OBVIOUS
<1> USE DEF OperatorInv
<1>1. CASE \E p \in Profilers : ChangeProfilers(p)
  <2>1. PICK p \in Profilers : ChangeProfilers(p)
    BY <1>1
  <2>2. /\ VersionsType'
        /\ seen' \in [Operators -> 0 .. Len(versions')]
        /\ \A o \in Operators : CachedKeys(o)' = CachedKeys(o)
    BY <2>1, CacheStays DEF ProcessesOK
  <2>3. UNCHANGED <<processVars, work, up>>
    BY <2>1 DEF Admission, ChangeProfilers, Change
  <2>4. ProcessesOK'
    BY <2>2, <2>3 DEF ProcessesOK, processVars
  <2>5. NoLostProfiler'
    BY <2>2, <2>3 DEF NoLostProfiler, processVars, ProcessesOK
  <2> QED
    BY <2>2, <2>3, <2>4, <2>5 DEF LeaderHoldsLease, processVars
<1>2. CASE \E r \in Requests : Request(r)
  <2>1. UNCHANGED <<versions, seen, up, processVars, work>>
    BY <1>2, RequestsApart DEF Admission
  <2>2. ProcessesOK' /\ VersionsType'
    BY <2>1 DEF ProcessesOK, VersionsType, processVars
  <2>3. NoLostProfiler'
    BY <2>1, QueuesStay DEF processVars
  <2> QED
    BY <2>1, <2>2, <2>3 DEF LeaderHoldsLease, processVars
<1> QED
  BY <1>1, <1>2 DEF Admission

\* The life of a replica.
LEMMA ProcessInv ==
  ASSUME OperatorInv, NEW o \in Operators, Process(o)
  PROVE  OperatorInv'
<1> USE DEF OperatorInv
<1>1. VersionsType'
  <2>1. versions' = versions
    BY DEF Process, Launch, Listen, Fail, Terminate, Exit, Ends, Elect, Informer, vars
  <2> QED
    BY <2>1 DEF VersionsType
<1>2. CASE Launch(o)
  <2>1. 0 \in 0 .. Len(versions)
    BY DEF VersionsType
  <2>2. ProcessesOK'
    BY <1>2, <2>1 DEF Launch, ProcessesOK
  <2>3. o \notin leading
    BY <1>2 DEF Launch, ProcessesOK
  <2>4. NoLostProfiler'
    BY <1>2, <2>3 DEF Launch, NoLostProfiler, CachedKeys, Cached, ProcessesOK
  <2> QED
    BY <1>1, <1>2, <2>2, <2>4 DEF Launch, LeaderHoldsLease
<1>3. CASE Listen(o)
  <2>1. ProcessesOK'
    BY <1>3 DEF Listen, ProcessesOK, processVars
  <2>2. NoLostProfiler'
    BY <1>3, QueuesStay DEF Listen, processVars
  <2> QED
    BY <1>1, <1>3, <2>1, <2>2 DEF Listen, LeaderHoldsLease, processVars
<1>4. CASE Fail(o) \/ Exit(o)
  <2>1. Ends(o)
    BY <1>4 DEF Fail, Exit
  <2>2. up' = up \ {o}
    BY <2>1 DEF Ends, Gone
  <2>3. ProcessesOK'
    BY <2>1, <2>2, NoWorkType DEF Ends, ProcessesOK
  <2>4. NoLostProfiler'
    BY <2>1 DEF Ends, NoLostProfiler, CachedKeys, Cached, ProcessesOK
  <2> QED
    BY <1>1, <2>1, <2>3, <2>4 DEF Ends, LeaderHoldsLease
<1>5. CASE Terminate(o)
  <2>1. ProcessesOK'
    BY <1>5 DEF Terminate, ProcessesOK
  <2>2. NoLostProfiler'
    BY <1>5, QueuesStay DEF Terminate
  <2> QED
    BY <1>1, <1>5, <2>1, <2>2 DEF Terminate, LeaderHoldsLease
<1>6. CASE Elect(o)
  <2>1. leading = {}
    BY <1>6, NoOneAssumption DEF Elect, LeaderHoldsLease, ProcessesOK
  <2>2. /\ lease' = o /\ leading' = {o} /\ o \in started
        /\ UNCHANGED <<versions, seen, up, started, stopping>>
    BY <1>6, <2>1 DEF Elect, vars
  <2>3. /\ work' \in [Operators -> [Keys -> SUBSET Places]]
        /\ \A q \in Operators \ {o} : work'[q] = work[q]
        /\ \A k \in Keys \cap CachedKeys(o) : work'[o][k] # {}
    BY <1>6, EnqueueEffect DEF Elect, ProcessesOK
  <2>4. ProcessesOK'
    BY <2>1, <2>2, <2>3 DEF ProcessesOK
  <2>5. CachedKeys(o) \subseteq Keys
    BY CachedAreKeys DEF CachedKeys, ProcessesOK
  <2>6. NoLostProfiler'
    BY <2>2, <2>3, <2>5 DEF NoLostProfiler, CachedKeys, Cached
  <2> QED
    BY <1>1, <2>2, <2>4, <2>6 DEF LeaderHoldsLease
<1>7. CASE Informer(o)
  <2>1. PICK v \in (seen[o] + 1) .. Len(versions) :
           /\ seen' = [seen EXCEPT ![o] = v]
           /\ IF o \in leading THEN Enqueue(o, Events(seen[o], v)) ELSE UNCHANGED work
    BY <1>7 DEF Informer
  <2>2. UNCHANGED <<versions, up, processVars>>
    BY <1>7 DEF Informer
  <2>3. v \in 0 .. Len(versions) /\ seen' \in [Operators -> 0 .. Len(versions)]
    BY <2>1 DEF ProcessesOK, VersionsType
  <2>4. CASE o \in leading
    <3>1. /\ work' \in [Operators -> [Keys -> SUBSET Places]]
          /\ \A q \in Operators \ {o} : work'[q] = work[q]
          /\ \A k \in Keys : work[o][k] \subseteq work'[o][k]
          /\ \A k \in Keys \cap Events(seen[o], v) : work'[o][k] # {}
      BY <2>1, <2>4, EnqueueEffect DEF ProcessesOK
    <3>2. ProcessesOK'
      BY <2>2, <2>3, <2>4, <3>1 DEF ProcessesOK, processVars
    <3>3. ASSUME NEW q \in leading', NEW k \in CachedKeys(q)' PROVE work'[q][k] # {}
      <4>1. CASE q # o
        BY <2>1, <2>2, <3>1, <3>3, <4>1
        DEF NoLostProfiler, CachedKeys, Cached, ProcessesOK, processVars
      <4>2. CASE q = o
        <5>1. k \in Keys /\ \E p \in Cached(v) : Key(p) = k
          BY <2>1, <2>2, <2>3, <3>3, <4>2, CachedAreKeys DEF CachedKeys, Cached, ProcessesOK
        <5>2. CASE k \in Events(seen[o], v)
          BY <3>1, <4>2, <5>1, <5>2
        <5>3. CASE k \notin Events(seen[o], v)
          <6>1. k \in CachedKeys(o)
            BY <5>1, <5>3 DEF Events, CachedKeys
          <6> QED
            BY <2>4, <3>1, <4>2, <5>1, <6>1 DEF NoLostProfiler
        <5> QED
          BY <5>2, <5>3
      <4> QED
        BY <4>1, <4>2
    <3> QED
      BY <1>1, <2>2, <3>2, <3>3 DEF NoLostProfiler, LeaderHoldsLease, processVars
  <2>5. CASE o \notin leading
    <3>1. ProcessesOK'
      BY <2>1, <2>2, <2>3, <2>5 DEF ProcessesOK, processVars
    <3>2. NoLostProfiler'
      BY <2>1, <2>2, <2>5 DEF NoLostProfiler, CachedKeys, Cached, ProcessesOK, processVars
    <3> QED
      BY <1>1, <2>2, <3>1, <3>2 DEF LeaderHoldsLease, processVars
  <2> QED
    BY <2>4, <2>5
<1> QED
  BY <1>2, <1>3, <1>4, <1>5, <1>6, <1>7 DEF Process

\* The lease runs out.
LEMMA ExpireInv == OperatorInv /\ Expire => OperatorInv'
<1> SUFFICES ASSUME OperatorInv, Expire PROVE OperatorInv'
  OBVIOUS
<1> USE DEF OperatorInv
<1>1. leading = {}
  BY DEF Expire, LeaderHoldsLease, ProcessesOK
<1>2. ProcessesOK' /\ VersionsType'
  BY DEF Expire, ProcessesOK, VersionsType, vars
<1>3. NoLostProfiler'
  BY QueuesStay DEF Expire, vars
<1> QED
  BY <1>1, <1>2, <1>3 DEF Expire, LeaderHoldsLease

\* The controller: a key that is cached leaves no place but for another.
LEMMA ReconcilerInv ==
  ASSUME OperatorInv, NEW o \in Operators, NEW k \in Keys, Reconciler(o, k)
  PROVE  OperatorInv'
<1> USE DEF OperatorInv
<1>1. PICK from \in Places, to \in SUBSET Places :
         /\ Move(o, k, from, to)
         /\ to = {} => k \notin CachedKeys(o)
  <2>1. CASE Take(o, k)
    BY <2>1 DEF Take, Places
  <2>2. CASE ReconcileFound(o, k) \/ ReconcileFails(o, k)
    BY <2>2 DEF ReconcileFound, ReconcileFails, Places
  <2>3. CASE ReconcileNotFound(o, k)
    BY <2>3 DEF ReconcileNotFound, Places
  <2>4. CASE Requeue(o, k) \/ Retry(o, k)
    BY <2>4 DEF Requeue, Retry, Places
  <2> QED
    BY <2>1, <2>2, <2>3, <2>4 DEF Reconciler
<1>2. UNCHANGED <<versions, seen, up, started, stopping, lease, leading>>
  BY <1>1 DEF Move, vars, processVars
<1>3. /\ work' \in [Operators -> [Keys -> SUBSET Places]]
      /\ \A q \in Operators \ {o} : work'[q] = work[q]
      /\ \A l \in Keys \ {k} : work'[o][l] = work[o][l]
      /\ to \subseteq work'[o][k]
      /\ from \in work[o][k]
  BY <1>1, MoveEffect DEF ProcessesOK
<1>4. o \in leading
  BY <1>3 DEF ProcessesOK, NoWork
<1>5. ProcessesOK' /\ VersionsType' /\ LeaderHoldsLease'
  BY <1>2, <1>3, <1>4 DEF ProcessesOK, VersionsType, LeaderHoldsLease
<1>6. ASSUME NEW q \in leading', NEW l \in CachedKeys(q)' PROVE work'[q][l] # {}
  <2>1. q \in leading /\ l \in CachedKeys(q) /\ l \in Keys
    BY <1>2, <1>6, CachedAreKeys DEF CachedKeys, Cached, ProcessesOK
  <2>2. work[q][l] # {}
    BY <2>1 DEF NoLostProfiler
  <2>3. CASE q = o /\ l = k
    BY <1>1, <1>3, <2>1, <2>3
  <2>4. CASE q # o \/ l # k
    BY <1>3, <2>1, <2>2, <2>4 DEF ProcessesOK
  <2> QED
    BY <2>3, <2>4
<1> QED
  BY <1>5, <1>6 DEF NoLostProfiler

LEMMA OperatorStepInv == OperatorInv /\ [OperatorNext]_operatorVars => OperatorInv'
<1>1. CASE UNCHANGED operatorVars
  BY <1>1 DEF OperatorInv, VersionsType, ProcessesOK, LeaderHoldsLease, NoLostProfiler, CachedKeys, Cached,
              operatorVars, vars, processVars
<1>2. CASE Admission
  BY <1>2, AdmissionInv
<1>3. CASE Expire
  BY <1>3, ExpireInv
<1>4. CASE \E o \in Operators : Process(o)
  BY <1>4, ProcessInv
<1>5. CASE \E o \in Operators, k \in Keys : Reconciler(o, k)
  BY <1>5, ReconcilerInv
<1> QED
  BY <1>1, <1>2, <1>3, <1>4, <1>5 DEF OperatorNext

LEMMA OperatorInvHolds == OperatorSpec => []OperatorInv
  BY OperatorInitInv, OperatorStepInv, PTL DEF OperatorSpec

-----------------------------------------------------------------------------
\* Every variable of the processes stays in its type, and a replica has a
\* webhook, a controller or work only while it runs (main.go:133-250).
THEOREM OperatorTypes == OperatorSpec => []ProcessesOK
<1>1. OperatorInv => ProcessesOK
  BY DEF OperatorInv
<1> QED
  BY <1>1, OperatorInvHolds, PTL

\* No Profiler that the leader knows of is dropped, by any result of a
\* reconciliation, any event or change of leader (profiler_controller.go:50-78).
THEOREM NoProfilerLost == OperatorSpec => []NoLostProfiler
<1>1. OperatorInv => NoLostProfiler
  BY DEF OperatorInv
<1> QED
  BY <1>1, OperatorInvHolds, PTL

\* Who reconciles has the lease, so that no two replicas do at a time
\* (main.go:182-200, 247-250).
THEOREM OneControllerAtATime == OperatorSpec => []OneController
<1>1. OperatorInv => OneController
  <2> SUFFICES ASSUME OperatorInv, NEW o \in Operators, Busy(o) PROVE lease = o
    BY DEF OneController
  <2>1. o \in leading
    BY DEF OperatorInv, ProcessesOK, Busy, NoWork
  <2> QED
    BY <2>1 DEF OperatorInv, LeaderHoldsLease
<1> QED
  BY <1>1, OperatorInvHolds, PTL
-----------------------------------------------------------------------------
(* The webhook in the operator's process: what PodAdmission promises when  *)
(* replicas crash and start out of nothing holds with the whole life of    *)
(* their processes in its place.                                           *)

WebhookInv == Inv /\ CountersInv

\* What a step of the processes does to the webhook, if anything.
LEMMA ProcessWebhook ==
  ASSUME WebhookInv, ProcessesOK, NEW o \in Operators, Process(o)
  PROVE  WebhookInv'
<1> USE DEF WebhookInv
<1>1. CASE Launch(o)
  <2>1. o \notin up
    BY <1>1 DEF Launch, ProcessesOK
  <2>2. Inv'
    BY <1>1, <2>1, StartInv DEF Launch
  <2> QED
    BY <1>1, <2>2, StillCounted DEF Launch
<1>2. CASE Listen(o)
  <2>1. /\ up' = up \cup {o}
        /\ UNCHANGED <<versions, seen, crashes, pod, call, handler, cluster, counters, landed>>
    BY <1>2 DEF Listen
  <2>2. CacheOK' /\ Grows
    BY <2>1 DEF Inv, CacheOK, Grows
  <2>3. Inv'
    BY <2>1, <2>2, LiveFacts, CacheStep
  <2> QED
    BY <2>1, <2>3, StillCounted
<1>3. CASE Fail(o) \/ Exit(o)
  <2>1. Gone(o) /\ UNCHANGED cacheVars
    BY <1>3 DEF Fail, Exit, Ends, cacheVars
  <2>2. crashes' \in 0 .. MaxCrashes
    BY <1>3, AdmissionBounds DEF Fail, Exit, Inv, CacheOK
  <2> QED
    BY <2>1, <2>2, GoneInv, GoneCounted
<1>4. CASE Terminate(o)
  <2>1. /\ crashes < MaxCrashes /\ crashes' = crashes + 1
        /\ UNCHANGED <<versions, seen, up, pod, call, handler, cluster, counters, landed>>
    BY <1>4 DEF Terminate
  <2>2. CacheOK' /\ Grows
    BY <2>1, AdmissionBounds DEF Inv, CacheOK, Grows
  <2>3. Inv'
    BY <2>1, <2>2, LiveFacts, CacheStep
  <2> QED
    BY <2>1, <2>3, StillCounted
<1>5. CASE Elect(o)
  BY <1>5, StepInv, StepCounted DEF Elect
<1>6. CASE Informer(o)
  <2>1. PICK v \in (seen[o] + 1) .. Len(versions) : seen' = [seen EXCEPT ![o] = v]
    BY <1>6 DEF Informer
  <2>2. UNCHANGED <<versions, up, crashes, pod, call, handler, cluster, counters, landed>>
    BY <1>6 DEF Informer
  <2> QED
    BY <2>1, <2>2, SyncInv, StillCounted
<1> QED
  BY <1>1, <1>2, <1>3, <1>4, <1>5, <1>6 DEF Process

LEMMA WebhookStep == WebhookInv /\ OperatorInv /\ [OperatorNext]_operatorVars => WebhookInv'
<1> SUFFICES ASSUME WebhookInv, OperatorInv, [OperatorNext]_operatorVars PROVE WebhookInv'
  OBVIOUS
<1> USE DEF WebhookInv
<1>1. CASE UNCHANGED vars
  BY <1>1, StepInv, StepCounted
<1>2. CASE Admission
  <2>1. CASE \E p \in Profilers : ChangeProfilers(p)
    <3>1. Next
      BY <2>1 DEF Next
    <3> QED
      BY <3>1, StepInv, StepCounted
  <2>2. CASE \E r \in Requests : Request(r)
    BY <2>2, RequestStep, RequestCounted
  <2> QED
    BY <1>2, <2>1, <2>2 DEF Admission
<1>3. CASE \E o \in Operators : Process(o)
  BY <1>3, ProcessWebhook DEF OperatorInv
<1>4. CASE Expire \/ \E o \in Operators, k \in Keys : Reconciler(o, k)
  <2>1. UNCHANGED vars
    BY <1>4 DEF Expire, Reconciler, Take, ReconcileFound, ReconcileNotFound, ReconcileFails,
                Requeue, Retry, Move
  <2> QED
    BY <1>1, <2>1
<1>5. CASE UNCHANGED operatorVars
  BY <1>1, <1>5 DEF operatorVars
<1> QED
  BY <1>2, <1>3, <1>4, <1>5 DEF OperatorNext

\* The webhook keeps its promises in every replica through launches, listening
\* without a cache, elections, terminations that let the webhook serve on, and
\* exits: no pod gets a sidecar unasked or another Profiler's, none that is not
\* enabled keeps one, no named Profiler is passed over, and the metrics agree
\* (main.go:133-250, pod_webhook.go:46-183).
THEOREM WebhookInOperator ==
  OperatorSpec => [](/\ TypeOK /\ AppContainersKept /\ SidecarOnlyWhenAsked
                     /\ DisabledStripped /\ EnabledServed
                     /\ GaugeConsistent /\ LandedCounted)
<1>1. OperatorInit => WebhookInv
  <2>1. {} \in SUBSET Operators
    OBVIOUS
  <2> QED
    BY <2>1, InitInv, InitCounted DEF OperatorInit, WebhookInv
<1>2. WebhookInv => /\ TypeOK /\ AppContainersKept /\ SidecarOnlyWhenAsked
                    /\ DisabledStripped /\ EnabledServed
                    /\ GaugeConsistent /\ LandedCounted
  BY TypesFollow, KeptFollows, UnaskedFollows, StrippedFollows, ServedFollows, GaugeFollows,
     LandedFollows DEF WebhookInv
<1> QED
  BY <1>1, <1>2, OperatorInvHolds, WebhookStep, PTL DEF OperatorSpec

\* What the processes do leaves handlers alone or loses them.
LEMMA ProcessesServe ==
  ASSUME ServiceInv, Inv', NEW o \in Operators, Process(o)
  PROVE  ServiceInv' /\ UNCHANGED serviceVars
<1>1. UNCHANGED <<versions, pod, call, cluster>>
  BY DEF Process, Launch, Listen, Fail, Exit, Ends, Gone, Terminate, Elect, Informer, vars
<1>2. \A q \in Requests : handler'[q] = handler[q] \/ handler'[q].pc = "lost"
  BY DEF Process, Launch, Listen, Fail, Exit, Ends, Gone, Terminate, Elect, Informer, vars,
         ServiceInv, Inv, RequestsOK, Handlers
<1>3. Grows
  BY <1>1 DEF Grows
<1> QED
  BY <1>1, <1>2, <1>3, VerdictsKept DEF serviceVars

LEMMA OperatorServes ==
  ASSUME ServiceInv, Inv', [OperatorNext]_operatorVars
  PROVE  ServiceInv' /\ [ServiceNext]_serviceVars
<1>1. CASE \E p \in Profilers : ChangeProfilers(p)
  <2>1. Next
    BY <1>1 DEF Next
  <2> QED
    BY <2>1, ServiceStepInv, StepServed
<1>2. CASE \E r \in Requests : Request(r)
  BY <1>2, RequestVerdict, RequestServed
<1>3. CASE \E o \in Operators : Process(o)
  BY <1>3, ProcessesServe
<1>4. CASE \/ Expire \/ \E o \in Operators, k \in Keys : Reconciler(o, k)
           \/ UNCHANGED operatorVars
  <2>1. UNCHANGED vars
    BY <1>4 DEF Expire, Reconciler, Take, ReconcileFound, ReconcileNotFound, ReconcileFails,
                Requeue, Retry, Move, operatorVars
  <2> QED
    BY <2>1, ServiceStepInv, StepServed
<1> QED
  BY <1>1, <1>2, <1>3, <1>4 DEF OperatorNext, Admission

\* The replicas of the operator, with whatever lives they lead, are to the
\* cluster the one webhook of AdmissionService.
THEOREM OperatorImplements == OperatorSpec => WebhookService
<1>1. OperatorInit => WebhookInv /\ ServiceInv /\ ServiceInit
  <2>1. {} \in SUBSET Operators
    OBVIOUS
  <2> QED
    BY <2>1, InitInv, InitCounted, ServiceInitInv DEF OperatorInit, WebhookInv, InitWith
<1>2. ServiceInv /\ WebhookInv' /\ [OperatorNext]_operatorVars
        => ServiceInv' /\ [ServiceNext]_serviceVars
  BY OperatorServes DEF WebhookInv
<1> QED
  BY <1>1, <1>2, OperatorInvHolds, WebhookStep, PTL DEF OperatorSpec, WebhookService
=============================================================================
