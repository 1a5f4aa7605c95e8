------------------------------- MODULE System -------------------------------
(***************************************************************************)
(* The two programs of the repository on the way of one pod: the webhook   *)
(* of PodAdmission decides what the pod is created with, and when that is  *)
(* with a sidecar, the life of SidecarPod begins.  What connects them is   *)
(* the container the webhook appends: its environment is that of the       *)
(* Profiler the handler found in its cache and of the annotations of the   *)
(* pod, and it is never written again, whatever becomes of the Profiler,   *)
(* of the operator and of the handler.                                     *)
(*                                                                         *)
(* PodAdmission names the specs of Profilers and tells pods apart by what  *)
(* the handler asks of them; ConfigOf and AnnotationsOf say what SidecarPod*)
(* reads in them.  A deleted pod does nothing more; the life of a pod      *)
(* without an injected sidecar is not followed.                            *)
(***************************************************************************)
EXTENDS PodAdmission, SidecarPod

CONSTANTS
    ConfigOf,       \* the contents of the specs of Profilers, by their names
    AnnotationsOf,  \* the annotations of the pods that may be submitted
    Followed        \* the request whose pod is followed

ASSUME FollowedAssumption == Followed \in Requests
ASSUME SpecsContained == \A p \in Profilers : ConfigOf[p.spec] \in ProfilerSpecs
ASSUME PodsAnnotated == \A s \in Specs :
    AnnotationsOf[s] \in Pods /\ s.target = (AnnotationsOf[s].target # "")

systemVars == <<vars, lifeVars>>

-----------------------------------------------------------------------------
\* The pod is created with a sidecar that its author did not write.
Injected ==
    /\ cluster[Followed].phase = "absent" /\ cluster'[Followed].phase = "running"
    /\ HasSidecar(cluster'[Followed].containers) /\ ~HasSidecar(pod[Followed].containers)

\* What an admission step does to the pod: its life begins when it is created
\* with the container that BuildProfilerSidecar has configured.
BeginsLife ==
    IF Injected
    THEN Create(ConfigOf[Last(cluster'[Followed].containers).spec],
                AnnotationsOf[pod[Followed]])
    ELSE UNCHANGED lifeVars

AdmissionStep == Next /\ BeginsLife

\* Its containers run as long as it exists.
Running(step) == cluster[Followed].phase = "running" /\ step /\ UNCHANGED vars
PodStep == Running(
    \/ AppStarts \/ AppCrashes \/ SidecarKilled
    \/ LoadOK \/ LoadFails
    \/ BindMetrics \/ StartMonitoring \/ TickerPanics)

SecretStep == \E n \in Secrets, ks \in KeySets : WriteSecret(n, ks) /\ UNCHANGED vars

SystemInit == Init /\ LifeInit
SystemNext == AdmissionStep \/ PodStep \/ SecretStep

SystemSpec == SystemInit /\ [][SystemNext]_systemVars

\* As in SidecarPod: the kubelet starts what has stopped, a process runs.
FairSystem ==
    /\ SystemSpec
    /\ WF_systemVars(Running(LoadOK))
    /\ WF_systemVars(Running(StartMonitoring))
    /\ WF_systemVars(Running(TickerPanics))

-----------------------------------------------------------------------------
\* The thresholds, the period and the destination that spec s asks for.
Serves(c, s) ==
    /\ c.cpu = (IF s.cpu = NotSet THEN 80 ELSE s.cpu)
    /\ c.mem = (IF s.mem = NotSet THEN 80 ELSE s.mem)
    /\ c.period = (IF s.period = 0 THEN 15 ELSE s.period)
    /\ c.bucket = s.bucket

\* From end to end: a sidecar that works does so in a pod that asked for one,
\* by what a Profiler of the name and namespace the pod asked for has said in
\* a version no older than the one cached when the request came in.  Neither
\* a cache that is behind, nor an edit, a deletion or a crash of the operator
\* afterwards, nor any restart of the sidecar makes it another one
\* (pod_webhook.go:62-130, sidecar_manager.go:52-161, sidecar/cmd/main.go:85-124).
ProfiledAsNamed ==
    Live =>
        /\ ~Disabled(pod[Followed]) /\ annotations = AnnotationsOf[pod[Followed]]
        /\ \E v \in DOMAIN versions : \E p \in versions[v] :
             /\ v >= handler[Followed].since /\ Named(pod[Followed], p)
             /\ Serves(conf, ConfigOf[p.spec])

\* The Profiler was there all along and fit for use, and so are the Secrets
\* and the token.
Served ==
    /\ call[Followed] = "answered" /\ cluster[Followed].phase = "running"
    /\ ~Disabled(pod[Followed]) /\ ~HasSidecar(pod[Followed].containers)
    /\ AnnotationsOf[pod[Followed]].token /\ Resolvable(env, secrets)
    /\ \A v \in DOMAIN versions :
         LET named == {p \in versions[v] : Named(pod[Followed], p)} IN
         /\ named # {}
         /\ \A p \in named : ConfigOf[p.spec].bucket # "" /\ ConfigOf[p.spec].period >= 0

\* A pod that the webhook answered for and that names a Profiler which has
\* always been there is profiled in the end: the cache that is behind, the
\* edits, the restarts and the kills only delay it.
ProfiledInTheEnd == <>[]Served => <>[](sidecar = "monitoring")
=============================================================================
