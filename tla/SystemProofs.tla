---------------------------- MODULE SystemProofs ----------------------------
(***************************************************************************)
(* Theorems about System: what the webhook promises of pods and what the   *)
(* life of a pod promises of its sidecar, joined from end to end for every *)
(* number of operators, requests, Profilers and pods.                      *)
(***************************************************************************)
EXTENDS System, PodAdmissionProofs, SidecarPodProofs

-----------------------------------------------------------------------------
(* What becomes of a pod in the cluster.                                   *)

\* A step submits the pod of r, ends its admission, deletes it or leaves it alone.
Moves(r) ==
  \/ UNCHANGED <<pod[r], cluster[r]>>
  \/ call[r] = "unsent" /\ UNCHANGED cluster[r]
  \/ call[r] = "calling" /\ UNCHANGED pod[r]
  \/ /\ cluster[r].phase = "running" /\ UNCHANGED pod[r]
     /\ cluster'[r] = [cluster[r] EXCEPT !.phase = "deleted"]

LEMMA RequestMoves ==
  ASSUME Inv, NEW q \in Requests, Request(q), NEW r \in Requests
  PROVE  Moves(r)
<1> USE DEF Moves
<1>0. pod \in [Requests -> Specs \cup {NoPod}] /\ DOMAIN cluster = Requests
  BY DEF Inv, RequestsOK
<1>1. CASE \E s \in Specs : Submit(q, s)
  BY <1>0, <1>1 DEF Submit, Ask
<1>2. CASE \E o \in Operators : Receive(q, o)
  BY <1>2 DEF Receive
<1>3. CASE Admit(q)
  <2>1. call[q] = "calling" /\ UNCHANGED pod /\ (r # q => UNCHANGED cluster[r])
    BY <1>0, <1>3 DEF Admit
  <2> QED
    BY <2>1
<1>4. CASE Ignore(q)
  BY <1>0, <1>4 DEF Ignore, GiveUp
<1>5. CASE Delete(q)
  BY <1>0, <1>5 DEF Delete, EndPod
<1>6. CASE Handle(q)
  <2>1. UNCHANGED <<pod, cluster>>
    BY <1>6 DEF Handle, Proceed, AllowUntouched, IncRemoved, DecActive, LookUp, List,
                IncAttached, IncActive, ListFails
  <2> QED
    BY <2>1
<1> QED
  BY <1>1, <1>2, <1>3, <1>4, <1>5, <1>6 DEF Request

LEMMA ClusterMoves ==
  ASSUME Inv, [Next]_vars, NEW r \in Requests
  PROVE  Moves(r)
<1>1. CASE UNCHANGED vars
  BY <1>1 DEF vars, Moves
<1>2. CASE \E p \in Profilers : ChangeProfilers(p)
  BY <1>2 DEF ChangeProfilers, Change, Moves
<1>3. CASE \E o \in Operators : Sync(o) \/ Crash(o) \/ Start(o)
  BY <1>3 DEF Sync, Crash, Gone, Start, Moves
<1> QED
  BY <1>1, <1>2, <1>3, RequestMoves DEF Next

Exists(r) == cluster[r].phase \in {"running", "deleted"}

\* A pod that exists stays what it was submitted and created as.
LEMMA CreatedStays ==
  ASSUME Inv, [Next]_vars, NEW r \in Requests, Exists(r)
  PROVE  Exists(r)' /\ UNCHANGED <<pod[r], cluster[r].containers>>
<1>1. call[r] # "unsent" /\ call[r] # "calling"
  BY DEF Inv, RequestInv, PhaseInv, Exists
<1>2. cluster[r] \in [phase : Admitted \cup {"absent", "refused"}, containers : Containers]
  BY DEF Inv, RequestsOK
<1>3. CASE UNCHANGED <<pod[r], cluster[r]>>
  BY <1>3 DEF Exists
<1>4. CASE /\ cluster[r].phase = "running" /\ UNCHANGED pod[r]
           /\ cluster'[r] = [cluster[r] EXCEPT !.phase = "deleted"]
  BY <1>2, <1>4 DEF Exists
<1> QED
  BY <1>1, <1>3, <1>4, ClusterMoves DEF Moves

\* A pod that comes into existence was submitted before.
LEMMA CreatedAsSubmitted ==
  ASSUME Inv, [Next]_vars, NEW r \in Requests,
         cluster[r].phase = "absent", cluster'[r].phase = "running"
  PROVE  pod[r] \in Specs /\ UNCHANGED pod[r]
<1>1. call[r] = "calling" /\ UNCHANGED pod[r]
  BY ClusterMoves DEF Moves
<1> QED
  BY <1>1 DEF Inv, RequestInv, PhaseInv

-----------------------------------------------------------------------------
(* What connects the two: the sidecar that has a life is the container the *)
(* pod was created with, built from what it is named after.                *)

Linked ==
    sidecar # "absent" =>
        /\ Exists(Followed)
        /\ HasSidecar(cluster[Followed].containers) /\ ~HasSidecar(pod[Followed].containers)
        /\ admitted = ConfigOf[Last(cluster[Followed].containers).spec]
        /\ annotations = AnnotationsOf[pod[Followed]]

SystemInv == Inv /\ LifeInv /\ Linked

\* The life of the pod begins with a spec that some Profiler had, and with
\* annotations that a pod may have.
LEMMA BeginsAsLife ==
  ASSUME Inv, Inv', [Next]_vars, Injected
  PROVE  \E s \in ProfilerSpecs, a \in Pods :
           /\ s = ConfigOf[Last(cluster'[Followed].containers).spec]
           /\ a = AnnotationsOf[pod[Followed]]
<1>1. pod[Followed] \in Specs /\ UNCHANGED pod[Followed]
  BY CreatedAsSubmitted, FollowedAssumption DEF Injected
<1>2. SidecarOnlyWhenAsked'
  BY UnaskedFollows, PTL
<1>3. PICK v \in DOMAIN versions' : \E p \in versions'[v] :
        Last(cluster'[Followed].containers) = SidecarOf(p)
  BY <1>1, <1>2, FollowedAssumption DEF SidecarOnlyWhenAsked, Injected, Admitted
<1>4. PICK p \in Profilers : Last(cluster'[Followed].containers) = SidecarOf(p)
  BY <1>3 DEF Inv, CacheOK
<1>5. Last(cluster'[Followed].containers).spec = p.spec
  BY <1>4 DEF SidecarOf, Container
<1> QED
  BY <1>1, <1>5, SpecsContained, PodsAnnotated

\* Every step of the system is a step in the life of the pod, or none.
LEMMA StepIsLife ==
  ASSUME Inv, Inv', [SystemNext]_systemVars
  PROVE  [LifeNext]_lifeVars
<1>1. CASE AdmissionStep
  <2>1. CASE Injected
    BY <1>1, <2>1, BeginsAsLife DEF AdmissionStep, BeginsLife, LifeNext
  <2>2. CASE ~Injected
    BY <1>1, <2>2 DEF AdmissionStep, BeginsLife
  <2> QED
    BY <2>1, <2>2
<1>2. CASE PodStep
  BY <1>2, Zenon DEF PodStep, Running, LifeNext
<1>3. CASE SecretStep
  BY <1>3, Zenon DEF SecretStep, LifeNext
<1>4. CASE UNCHANGED systemVars
  BY <1>4 DEF systemVars
<1> QED
  BY <1>1, <1>2, <1>3, <1>4 DEF SystemNext

\* Every step of the system is one of the webhook's, or none.
LEMMA StepIsAdmission ==
  ASSUME [SystemNext]_systemVars
  PROVE  [Next]_vars
<1>1. CASE PodStep
  BY <1>1, Zenon DEF PodStep, Running
<1>2. CASE SecretStep
  BY <1>2, Zenon DEF SecretStep
<1> QED
  BY <1>1, <1>2, Zenon DEF SystemNext, AdmissionStep, systemVars

\* Nothing that has begun begins again.
LEMMA LinkedStep ==
  ASSUME SystemInv, [SystemNext]_systemVars
  PROVE  Linked'
<1>1. CASE AdmissionStep /\ Injected
  <2>1. pod[Followed] \in Specs /\ UNCHANGED pod[Followed]
    BY <1>1, CreatedAsSubmitted, StepIsAdmission, FollowedAssumption DEF Injected, SystemInv
  <2> QED
    BY <1>1, <2>1 DEF AdmissionStep, BeginsLife, Create, Linked, Injected, Exists
<1>2. CASE UNCHANGED <<annotations, admitted>> /\ (sidecar = "absent" => UNCHANGED sidecar)
  BY <1>2, CreatedStays, StepIsAdmission, FollowedAssumption DEF Linked, SystemInv
<1>3. ASSUME AdmissionStep, ~Injected
      PROVE  UNCHANGED <<annotations, admitted, sidecar>>
  BY <1>3 DEF AdmissionStep, BeginsLife, lifeVars
<1>4. ASSUME PodStep
      PROVE  UNCHANGED <<annotations, admitted>> /\ (sidecar = "absent" => UNCHANGED sidecar)
  BY <1>4 DEF PodStep, Running, AppStarts, AppCrashes, SidecarKilled, LoadOK, LoadFails,
              Started, BindMetrics, StartMonitoring, TickerPanics, Live
<1>5. ASSUME SecretStep
      PROVE  UNCHANGED <<annotations, admitted, sidecar>>
  BY <1>5 DEF SecretStep, WriteSecret
<1>6. ASSUME UNCHANGED systemVars
      PROVE  UNCHANGED <<annotations, admitted, sidecar>>
  BY <1>6 DEF systemVars, lifeVars
<1> QED
  BY <1>1, <1>2, <1>3, <1>4, <1>5, <1>6, Zenon DEF SystemNext

LEMMA SystemStepInv == SystemInv /\ [SystemNext]_systemVars => SystemInv'
<1> SUFFICES ASSUME SystemInv, [SystemNext]_systemVars PROVE SystemInv'
  OBVIOUS
<1>1. Inv'
  BY StepIsAdmission, StepInv DEF SystemInv
<1>2. LifeInv'
  BY <1>1, StepIsLife, LifeStepInv DEF SystemInv
<1> QED
  BY <1>1, <1>2, LinkedStep DEF SystemInv

LEMMA SystemInitInv == SystemInit => SystemInv
  BY InitInv, LifeInitInv DEF SystemInit, SystemInv, Linked, LifeInit, Init

LEMMA SystemInvariance == SystemSpec => []SystemInv
  BY SystemInitInv, SystemStepInv, PTL DEF SystemSpec

-----------------------------------------------------------------------------
LEMMA ProfiledFollows == SystemInv => ProfiledAsNamed
<1> SUFFICES ASSUME SystemInv, Live PROVE ProfiledAsNamed
  BY DEF ProfiledAsNamed
<1>1. /\ Exists(Followed)
      /\ HasSidecar(cluster[Followed].containers) /\ ~HasSidecar(pod[Followed].containers)
      /\ admitted = ConfigOf[Last(cluster[Followed].containers).spec]
      /\ annotations = AnnotationsOf[pod[Followed]]
  BY DEF SystemInv, Linked, Live
<1>2. /\ ~Disabled(pod[Followed])
      /\ \E v \in DOMAIN versions : \E p \in versions[v] :
           /\ v >= handler[Followed].since /\ Named(pod[Followed], p)
           /\ Last(cluster[Followed].containers) = SidecarOf(p)
  BY <1>1, UnaskedFollows, FollowedAssumption
     DEF SystemInv, SidecarOnlyWhenAsked, Exists, Admitted
<1>3. Serves(conf, admitted)
  BY ConfigFollows DEF SystemInv, AdmittedConfig, Serves
<1>4. \A p : Last(cluster[Followed].containers) = SidecarOf(p) => admitted = ConfigOf[p.spec]
  BY <1>1 DEF SidecarOf, Container
<1> QED
  BY <1>1, <1>2, <1>3, <1>4, Zenon DEF ProfiledAsNamed

\* From end to end, for every number of operators, requests, Profilers and
\* restarts: a sidecar that works was asked for, and works by what the
\* Profiler said that its pod named.
THEOREM EndToEnd == SystemSpec => []ProfiledAsNamed
  BY ProfiledFollows, SystemInvariance, PTL
=============================================================================
