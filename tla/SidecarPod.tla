----------------------------- MODULE SidecarPod -----------------------------
(***************************************************************************)
(* The life of one injected pod, across the two programs that make it up:  *)
(* the webhook, which turns a Profiler and the pod's annotations into the  *)
(* environment of the sidecar (internal/webhook/v1/sidecar_manager.go and  *)
(* utility.go), and the sidecar, which turns that environment back into a  *)
(* configuration whenever its container starts (sidecar/cmd/main.go).      *)
(* Between the two are the kubelet, which resolves references to Secrets   *)
(* at every start, and time: the Profiler and the Secrets may change, the  *)
(* environment of the pod no longer does.  Which version of the Profiler   *)
(* the webhook has in hand is PodAdmission's matter: here it may be any.   *)
(* Both containers share the ports of the pod.                             *)
(*                                                                         *)
(* Names and URLs are members of small sets, "" where nothing is set.  A   *)
(* credential is known by where it comes from.  Left out because nothing   *)
(* below depends on them: the image, the resources, S3_PATH_PREFIX (which  *)
(* goes the way of S3_BUCKET), LOG_LEVEL and DEBUG, POD_NAME and           *)
(* POD_NAMESPACE (always set from the pod).                                *)
(***************************************************************************)
EXTENDS Integers

CONSTANTS
    ProfilerSpecs,  \* the specs the Profiler may have, as the API server stores them
    Pods,           \* the pods that may be submitted, by their annotations
    Secrets,        \* names of Secrets
    KeySets,        \* the sets of keys a Secret may hold, {} when there is none
    AppPort,        \* the port the application listens on
    MaxWrites,      \* bound: writes of Secrets
    MaxKills        \* bound: containers killed

NotSet == -1    \* a nil threshold
Ports == 1 .. 65535

ASSUME PodBounds ==
    /\ AppPort \in Ports
    /\ MaxWrites \in Nat /\ MaxKills \in Nat
\* What has a name of its own among the sources of a credential.
ASSUME SecretNames == Secrets \cap {"", "annotation", "profiler"} = {}
\* What the API server stores of a Profiler, after the schema of the CRD.
ProfilerSpec(s) ==
    /\ DOMAIN s = {"cpu", "mem", "period", "bucket", "region", "aws", "url", "auth"}
    /\ s.cpu \in {NotSet} \cup 0 .. 100 /\ s.mem \in {NotSet} \cup 0 .. 100
    /\ s.period \in Int
    /\ s.aws.secret \in Secrets \cup {""} /\ s.aws.id \in BOOLEAN /\ s.aws.key \in BOOLEAN
    /\ s.auth.type \in {"", "Basic", "None"}    \* "" stands for Auth == nil
    /\ s.auth.secret \in Secrets \cup {""}
    /\ s.auth.username \in BOOLEAN /\ s.auth.password \in BOOLEAN
ASSUME PodProfilers == \A s \in ProfilerSpecs : ProfilerSpec(s)
\* The annotations of a pod, and whether a service account token is mounted.
Annotated(a) ==
    /\ DOMAIN a = {"target", "url", "authType", "username", "password", "secret",
                   "usernameKey", "passwordKey", "endpoint", "pathStyle", "port", "token"}
    /\ a.username \in BOOLEAN /\ a.password \in BOOLEAN /\ a.token \in BOOLEAN
    /\ a.secret \in Secrets \cup {""} /\ a.port \in Int
ASSUME PodSubmitted == \A a \in Pods : Annotated(a)

VARIABLES
    secrets,        \* [generation, keys] of each Secret
    annotations,    \* of the pod as submitted, and whether it mounts a token
    env,            \* the environment the webhook gave the sidecar
    admitted,       \* history: the Profiler the webhook built it from
    sidecar,        \* how far the sidecar is
    conf,           \* the configuration it loaded last
    metrics,        \* its metrics server
    app,            \* the application's container
    writes, kills

counts == <<writes, kills>>
lifeVars == <<secrets, annotations, env, admitted, sidecar, conf, metrics, app, counts>>

-----------------------------------------------------------------------------
(* Credentials, and the environment variables that hold one.               *)

NoCredential == [source |-> "", key |-> "", generation |-> 0]
FromPod(key) == [source |-> "annotation", key |-> key, generation |-> 0]
FromProfiler(key) == [source |-> "profiler", key |-> key, generation |-> 0]
SecretKeyRef(name, key) == [source |-> name, key |-> key, generation |-> 0]

AWSVars == {"AWS_ACCESS_KEY_ID", "AWS_SECRET_ACCESS_KEY"}
CredentialVars == AWSVars \cup {"AUTH_USERNAME", "AUTH_PASSWORD"}

OrDefault(s, default) == IF s = "" THEN default ELSE s

\* An environment is a function from names to values.
Var(name, value) == [v \in {name} |-> value]
Merged(e, f) == [v \in DOMAIN e \cup DOMAIN f |-> IF v \in DOMAIN e THEN e[v] ELSE f[v]]
Empty == <<>>

-----------------------------------------------------------------------------
(* What the webhook puts in the environment.                               *)

\* Mutant: a threshold of zero is taken for none.
CPUThreshold_Zero(s) == IF s.cpu > 0 THEN Var("CPU_THRESHOLD", s.cpu) ELSE Empty

CPUThreshold(s) == IF s.cpu # NotSet THEN Var("CPU_THRESHOLD", s.cpu) ELSE Empty
MemoryThreshold(s) == IF s.mem # NotSet THEN Var("MEMORY_THRESHOLD", s.mem) ELSE Empty
MonitoringPeriod(s) == IF s.period # 0 THEN Var("MONITORING_PERIOD", s.period) ELSE Empty

AWSConfiguration(s) ==
    LET keys == IF s.aws.secret # "" THEN [v \in AWSVars |-> SecretKeyRef(s.aws.secret, v)]
                ELSE IF s.aws.id /\ s.aws.key THEN [v \in AWSVars |-> FromProfiler(v)]
                ELSE Empty
    IN Merged(Merged(Var("S3_BUCKET", s.bucket), Var("S3_REGION", s.region)), keys)

ScrapeTargetURL(s, a) ==
    IF OrDefault(a.url, s.url) = "" THEN Empty
    ELSE Var("SCRAPE_URL", OrDefault(a.url, s.url))

BasicAuthEnvVars(username, password) ==
    Merged(Var("AUTH_USERNAME", username), Var("AUTH_PASSWORD", password))

SecretAuthEnvVars(name, usernameKey, passwordKey) ==
    BasicAuthEnvVars(SecretKeyRef(name, OrDefault(usernameKey, "username")),
                     SecretKeyRef(name, OrDefault(passwordKey, "password")))

\* Mutant: an annotation overrides one half of a pair.
ScrapeTargetBasicAuth_Halves(s, a) ==
    BasicAuthEnvVars(IF a.username THEN FromPod("username") ELSE FromProfiler("username"),
                     IF a.password THEN FromPod("password") ELSE FromProfiler("password"))

\* Mutant: the Profiler is asked before the annotations.
ScrapeTargetBasicAuth_ProfilerFirst(s, a) ==
    IF s.auth.username /\ s.auth.password
    THEN BasicAuthEnvVars(FromProfiler("username"), FromProfiler("password"))
    ELSE IF s.auth.secret # ""
    THEN SecretAuthEnvVars(s.auth.secret, s.auth.usernameKey, s.auth.passwordKey)
    ELSE Empty

ScrapeTargetBasicAuth(s, a) ==
    IF a.username /\ a.password
    THEN BasicAuthEnvVars(FromPod("username"), FromPod("password"))
    ELSE IF a.secret # ""
    THEN SecretAuthEnvVars(a.secret, a.usernameKey, a.passwordKey)
    ELSE IF s.auth.username /\ s.auth.password
    THEN BasicAuthEnvVars(FromProfiler("username"), FromProfiler("password"))
    ELSE IF s.auth.secret # ""
    THEN SecretAuthEnvVars(s.auth.secret, s.auth.usernameKey, s.auth.passwordKey)
    ELSE Empty

AuthType(s, a) == OrDefault(a.authType, s.auth.type)
ScrapeTarget(s, a) ==
    LET type == IF AuthType(s, a) = "" THEN Empty ELSE Var("AUTH_TYPE", AuthType(s, a))
        auth == IF AuthType(s, a) = "Basic" THEN ScrapeTargetBasicAuth(s, a) ELSE Empty
    IN Merged(ScrapeTargetURL(s, a), Merged(type, auth))

Optional(name, value) == IF value = "" THEN Empty ELSE Var(name, value)

\* Mutant: the annotation is never read.
MetricsPort_Default(a) == 8080

\* Mutant: its range is not checked.
MetricsPort_Unchecked(a) == IF a.port # 0 THEN a.port ELSE 8080

\* A valid port of the annotation, or 8080; text that is no number counts as 0.
MetricsPort(a) == IF a.port \in Ports THEN a.port ELSE 8080

BuildProfilerSidecar(s, a) ==
    LET own == Merged(Var("TARGET_CONTAINER", OrDefault(a.target, "first")),
                      Var("METRICS_ADDR", MetricsPort(a)))
        thresholds == Merged(CPUThreshold(s), Merged(MemoryThreshold(s), MonitoringPeriod(s)))
        endpoint == Merged(Optional("S3_ENDPOINT", a.endpoint),
                           Optional("S3_FORCE_PATH_STYLE", a.pathStyle))
    IN Merged(own, Merged(thresholds, Merged(AWSConfiguration(s),
                          Merged(ScrapeTarget(s, a), endpoint))))

-----------------------------------------------------------------------------
(* What the kubelet makes of it: a container starts only when every key    *)
(* its environment refers to exists.                                       *)

Reference(v, e) == v \in DOMAIN e \cap CredentialVars /\ e[v].source \in Secrets

Resolvable(e, ss) ==
    \A v \in DOMAIN e : Reference(v, e) => e[v].key \in ss[e[v].source].keys

Resolve(e, ss) ==
    [v \in DOMAIN e |->
        IF Reference(v, e) THEN [e[v] EXCEPT !.generation = ss[e[v].source].generation]
        ELSE e[v]]

-----------------------------------------------------------------------------
(* What the sidecar reads back.                                            *)

Getenv(e, v, unset) == IF v \in DOMAIN e THEN e[v] ELSE unset

NoConf == [target |-> "", cpu |-> 0, mem |-> 0, period |-> 0, duration |-> 0,
           bucket |-> "", region |-> "", endpoint |-> "", pathStyle |-> FALSE,
           awsId |-> NoCredential, awsKey |-> NoCredential, url |-> "",
           username |-> NoCredential, password |-> NoCredential, port |-> 0]

\* Mutant: the period has no default of its own.
Period_NoDefault(e) == Getenv(e, "MONITORING_PERIOD", 0)
Period(e) == Getenv(e, "MONITORING_PERIOD", 15)

\* getScrapTarget: credentials count under basic authentication only.
AuthVar(e, v) ==
    IF Getenv(e, "AUTH_TYPE", "") = "Basic" THEN Getenv(e, v, NoCredential)
    ELSE NoCredential

LoadConfig(e) ==
    [target |-> e["TARGET_CONTAINER"],
     cpu |-> Getenv(e, "CPU_THRESHOLD", 80),
     mem |-> Getenv(e, "MEMORY_THRESHOLD", 80),
     period |-> Period(e),
     duration |-> Getenv(e, "PROFILE_DURATION", 30),
     bucket |-> e["S3_BUCKET"],
     region |-> OrDefault(e["S3_REGION"], "us-west-2"),
     endpoint |-> Getenv(e, "S3_ENDPOINT", ""),
     pathStyle |-> Getenv(e, "S3_FORCE_PATH_STYLE", "") \in {"1", "true", "TRUE", "True"},
     awsId |-> Getenv(e, "AWS_ACCESS_KEY_ID", NoCredential),
     awsKey |-> Getenv(e, "AWS_SECRET_ACCESS_KEY", NoCredential),
     url |-> Getenv(e, "SCRAPE_URL", ""),
     username |-> AuthVar(e, "AUTH_USERNAME"),
     password |-> AuthVar(e, "AUTH_PASSWORD"),
     port |-> e["METRICS_ADDR"]]

\* TARGET_CONTAINER and S3_BUCKET are required, and so is the token of the
\* service account, which rest.InClusterConfig reads.
Unusable(e, token) == e["TARGET_CONTAINER"] = "" \/ e["S3_BUCKET"] = "" \/ ~token

-----------------------------------------------------------------------------
NoAnnotations ==
    [target |-> "", url |-> "", authType |-> "", username |-> FALSE, password |-> FALSE,
     secret |-> "", usernameKey |-> "", passwordKey |-> "", endpoint |-> "",
     pathStyle |-> "", port |-> 0, token |-> FALSE]

LifeInit ==
    /\ \E ks \in KeySets : secrets = [n \in Secrets |-> [generation |-> 0, keys |-> ks]]
    /\ annotations = NoAnnotations /\ env = Empty /\ admitted \in ProfilerSpecs
    /\ sidecar = "absent" /\ conf = NoConf /\ metrics = "none" /\ app = "down"
    /\ writes = 0 /\ kills = 0

Live == sidecar \in {"loaded", "monitoring"}

-----------------------------------------------------------------------------
(* The cluster around the pod.                                             *)

\* A Secret is created, rotated or deleted.
WriteSecret(n, ks) ==
    /\ writes < MaxWrites
    /\ secrets' = [secrets EXCEPT ![n] = [generation |-> @.generation + 1, keys |-> ks]]
    /\ writes' = writes + 1
    /\ UNCHANGED <<annotations, env, admitted, sidecar, conf, metrics, app, kills>>

\* Pod a is submitted, the webhook answers from version s of the Profiler and
\* the pod is created.
Create(s, a) ==
    /\ sidecar = "absent"
    /\ annotations' = a
    /\ env' = BuildProfilerSidecar(s, a)
    /\ admitted' = s
    /\ sidecar' = "waiting"
    /\ UNCHANGED <<secrets, conf, metrics, app, counts>>

\* The application binds its port, at its first start or after a crash; it
\* exits when the port is taken.
AppStarts ==
    /\ sidecar # "absent" /\ app # "serving"
    /\ app' = IF metrics = "serving" /\ conf.port = AppPort THEN "refused" ELSE "serving"
    /\ UNCHANGED <<secrets, annotations, env, admitted, sidecar, conf, metrics, counts>>

AppCrashes ==
    /\ app = "serving" /\ kills < MaxKills
    /\ app' = "down" /\ kills' = kills + 1
    /\ UNCHANGED <<secrets, annotations, env, admitted, sidecar, conf, metrics, writes>>

\* The sidecar's container is killed; its process holds nothing afterwards.
SidecarKilled ==
    /\ Live /\ kills < MaxKills
    /\ sidecar' = "killed" /\ metrics' = "none" /\ kills' = kills + 1
    /\ UNCHANGED <<secrets, annotations, env, admitted, conf, app, writes>>

-----------------------------------------------------------------------------
(* The sidecar's main, from the start of the process.                      *)

\* The kubelet starts the container, again and again, and hands it the
\* Secrets of the moment.
Started ==
    /\ sidecar \in {"waiting", "killed", "failed", "panicked"}
    /\ Resolvable(env, secrets)

\* Mutant: the environment is rendered at every start, from the Profiler of
\* that moment.
LoadOK_Rerendered ==
    /\ Started /\ ~Unusable(env, annotations.token)
    /\ \E s \in ProfilerSpecs :
         conf' = LoadConfig(Resolve(BuildProfilerSidecar(s, annotations), secrets))
    /\ sidecar' = "loaded" /\ metrics' = "starting"
    /\ UNCHANGED <<secrets, annotations, env, admitted, app, counts>>

LoadOK ==
    /\ Started /\ ~Unusable(env, annotations.token)
    /\ conf' = LoadConfig(Resolve(env, secrets))
    /\ sidecar' = "loaded" /\ metrics' = "starting"
    /\ UNCHANGED <<secrets, annotations, env, admitted, app, counts>>

\* os.Exit(1)
LoadFails ==
    /\ Started /\ Unusable(env, annotations.token)
    /\ sidecar' = "failed"
    /\ UNCHANGED <<secrets, annotations, env, admitted, conf, metrics, app, counts>>

\* The goroutine of the metrics server; a port that is taken is only logged.
BindMetrics ==
    /\ Live /\ metrics = "starting"
    /\ metrics' = IF app = "serving" /\ conf.port = AppPort THEN "failed" ELSE "serving"
    /\ UNCHANGED <<secrets, annotations, env, admitted, sidecar, conf, app, counts>>

\* monitorResourceUsage begins with time.NewTicker, which panics unless the
\* period is positive.
StartMonitoring ==
    /\ sidecar = "loaded" /\ conf.period > 0
    /\ sidecar' = "monitoring"
    /\ UNCHANGED <<secrets, annotations, env, admitted, conf, metrics, app, counts>>

TickerPanics ==
    /\ sidecar = "loaded" /\ conf.period <= 0
    /\ sidecar' = "panicked" /\ metrics' = "none"
    /\ UNCHANGED <<secrets, annotations, env, admitted, conf, app, counts>>

LifeNext ==
    \/ \E n \in Secrets, ks \in KeySets : WriteSecret(n, ks)
    \/ \E s \in ProfilerSpecs, a \in Pods : Create(s, a)
    \/ AppStarts \/ AppCrashes \/ SidecarKilled
    \/ LoadOK \/ LoadFails \/ BindMetrics \/ StartMonitoring \/ TickerPanics

LifeSpec == LifeInit /\ [][LifeNext]_lifeVars

\* The kubelet keeps starting what has stopped, and a started process runs;
\* nothing obliges anyone to write, to submit or to crash.
FairLife ==
    LifeSpec /\ WF_lifeVars(LoadOK) /\ WF_lifeVars(StartMonitoring) /\ WF_lifeVars(TickerPanics)

-----------------------------------------------------------------------------
CredentialType(c) ==
    /\ c.source \in Secrets \cup {"", "annotation", "profiler"}
    /\ c.generation \in 0 .. MaxWrites
    /\ c.source = "" => c = NoCredential

\* Every variable keeps its type: a port is a port whatever the annotation
\* says, a threshold a percentage, and a credential names where it is from.
LifeTypeOK ==
    /\ admitted \in ProfilerSpecs
    /\ annotations \in Pods \cup {NoAnnotations}
    /\ sidecar \in {"absent", "waiting", "loaded", "monitoring", "failed", "panicked", "killed"}
    /\ metrics \in {"none", "starting", "serving", "failed"}
    /\ (metrics = "none") = ~Live
    /\ app \in {"down", "serving", "refused"}
    /\ \A n \in Secrets : secrets[n].keys \in KeySets /\ secrets[n].generation <= writes
    /\ conf # NoConf => /\ conf.port \in Ports
                        /\ conf.cpu \in 0 .. 100 /\ conf.mem \in 0 .. 100
    /\ \A c \in {conf.awsId, conf.awsKey, conf.username, conf.password} : CredentialType(c)
    /\ writes <= MaxWrites /\ kills <= MaxKills

\* The two halves of a credential the sidecar works with come from one place
\* as it was at one moment: never a user of the annotations with a password
\* of the Profiler, nor one half of a Secret from before its rotation.
CredentialsPaired ==
    \A c \in {<<conf.awsId, conf.awsKey>>, <<conf.username, conf.password>>} :
        c[1].source = c[2].source /\ c[1].generation = c[2].generation

\* What the sidecar runs with is what the Profiler said when the pod was
\* admitted, through any number of restarts, zero thresholds and
\* the defaults of two programs included: a threshold of 0 profiles always.
AdmittedConfig ==
    Live =>
        /\ conf.cpu = (IF admitted.cpu = NotSet THEN 80 ELSE admitted.cpu)
        /\ conf.mem = (IF admitted.mem = NotSet THEN 80 ELSE admitted.mem)
        /\ conf.period = (IF admitted.period = 0 THEN 15 ELSE admitted.period)
        /\ conf.bucket = admitted.bucket /\ conf.bucket # ""
        /\ (conf.awsId # NoCredential) =
            (admitted.aws.secret # "" \/ (admitted.aws.id /\ admitted.aws.key))

\* The pod has the last word: a complete credential of its annotations is
\* the one used under basic authentication, the pair written there before the
\* Secret named there, and an authentication type or URL of its own replaces
\* that of the Profiler (utility.go:257-330).
AnnotationsWin ==
    Live =>
        LET basic == \/ annotations.authType = "Basic"
                     \/ annotations.authType = "" /\ admitted.auth.type = "Basic"
            own == IF annotations.username /\ annotations.password THEN "annotation"
                   ELSE annotations.secret
        IN /\ basic /\ own # "" => conf.username.source = own
           /\ conf.username # NoCredential => basic
           /\ annotations.url # "" => conf.url = annotations.url

\* A sidecar gives up only over what it was given at its admission: no
\* bucket, no service account token, or a period no ticker accepts.
ExitsExplained ==
    /\ sidecar = "failed" => admitted.bucket = "" \/ ~annotations.token
    /\ sidecar = "panicked" => admitted.period < 0

\* Moving the metrics of the sidecar to another port leaves the application
\* its own, whichever of the two starts or restarts first; where the two want
\* one port, no order of starts, crashes and kills has both refused
\* (sidecar_manager.go:145-155, sidecar/cmd/main.go:485-489).
PortContention ==
    /\ annotations.port \in Ports \ {AppPort} => app # "refused" /\ metrics # "failed"
    /\ ~(app = "refused" /\ metrics = "failed")

\* A sidecar with a usable configuration, whose Secrets are there from some
\* moment on, ends up monitoring, though it was held back, restarted or killed.
Startable ==
    /\ sidecar # "absent" /\ Resolvable(env, secrets)
    /\ admitted.bucket # "" /\ annotations.token /\ admitted.period >= 0
MonitorsInTheEnd == <>[]Startable => <>[](sidecar = "monitoring")
=============================================================================
