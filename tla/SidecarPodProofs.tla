--------------------------- MODULE SidecarPodProofs ---------------------------
(***************************************************************************)
(* Theorems about SidecarPod for any Profilers, pods and Secrets.  What    *)
(* the sidecar loads is computed through both programs: the environment    *)
(* the webhook builds, the Secrets of some moment, the defaults of the     *)
(* sidecar.                                                                *)
(***************************************************************************)
EXTENDS SidecarPod, TLAPS

-----------------------------------------------------------------------------
(* Looking a variable up in an environment.                                *)

LEMMA GetMerged ==
  ASSUME NEW e, NEW f, NEW v, NEW u
  PROVE  Getenv(Merged(e, f), v, u) = Getenv(e, v, Getenv(f, v, u))
  BY DEF Merged, Getenv

LEMMA GetVar ==
  ASSUME NEW n, NEW x, NEW v, NEW u
  PROVE  Getenv(Var(n, x), v, u) = IF v = n THEN x ELSE u
  BY DEF Var, Getenv

LEMMA GetEmpty ==
  ASSUME NEW v, NEW u
  PROVE  Getenv(Empty, v, u) = u
  BY DEF Empty, Getenv

-----------------------------------------------------------------------------
(* What the webhook puts there, variable by variable.                      *)

LEMMA ThresholdVars ==
  ASSUME NEW s, NEW v, NEW u
  PROVE  /\ Getenv(CPUThreshold(s), v, u)
              = IF v = "CPU_THRESHOLD" /\ s.cpu # NotSet THEN s.cpu ELSE u
         /\ Getenv(MemoryThreshold(s), v, u)
              = IF v = "MEMORY_THRESHOLD" /\ s.mem # NotSet THEN s.mem ELSE u
         /\ Getenv(MonitoringPeriod(s), v, u)
              = IF v = "MONITORING_PERIOD" /\ s.period # 0 THEN s.period ELSE u
  BY GetVar, GetEmpty DEF CPUThreshold, MemoryThreshold, MonitoringPeriod

\* The credential for S3, or u where the Profiler has none.
AWSCredential(s, v, u) ==
  IF s.aws.secret # "" THEN SecretKeyRef(s.aws.secret, v)
  ELSE IF s.aws.id /\ s.aws.key THEN FromProfiler(v)
  ELSE u

LEMMA AWSConfigurationVars ==
  ASSUME NEW s, NEW v, NEW u
  PROVE  /\ v = "S3_BUCKET" => Getenv(AWSConfiguration(s), v, u) = s.bucket
         /\ v = "S3_REGION" => Getenv(AWSConfiguration(s), v, u) = s.region
         /\ v \in AWSVars => Getenv(AWSConfiguration(s), v, u) = AWSCredential(s, v, u)
<1> DEFINE keys == IF s.aws.secret # "" THEN [w \in AWSVars |-> SecretKeyRef(s.aws.secret, w)]
                   ELSE IF s.aws.id /\ s.aws.key THEN [w \in AWSVars |-> FromProfiler(w)]
                   ELSE Empty
           bucket == Var("S3_BUCKET", s.bucket)
           region == Var("S3_REGION", s.region)
           B == v = "S3_BUCKET"
           R == v = "S3_REGION"
<1>1. Getenv(keys, v, u) = IF v \in AWSVars THEN AWSCredential(s, v, u) ELSE u
  BY GetEmpty DEF Getenv, AWSCredential
<1>2. AWSConfiguration(s) = Merged(Merged(bucket, region), keys)
  BY DEF AWSConfiguration
<1>3. \A w : /\ Getenv(bucket, v, w) = IF B THEN s.bucket ELSE w
            /\ Getenv(region, v, w) = IF R THEN s.region ELSE w
  BY GetVar
<1>4. /\ ~(B /\ R)
      /\ v \in AWSVars => ~B /\ ~R
  BY DEF AWSVars
<1> HIDE DEF keys, bucket, region, B, R
<1>5. Getenv(AWSConfiguration(s), v, u) = Getenv(bucket, v, Getenv(region, v, Getenv(keys, v, u)))
  BY <1>2, GetMerged
<1>6. /\ B => Getenv(AWSConfiguration(s), v, u) = s.bucket
      /\ R => Getenv(AWSConfiguration(s), v, u) = s.region
      /\ v \in AWSVars => Getenv(AWSConfiguration(s), v, u) = AWSCredential(s, v, u)
  BY <1>1, <1>3, <1>4, <1>5
<1> QED
  BY <1>6 DEF B, R

-----------------------------------------------------------------------------
(* Where each variable comes from.                                         *)

AuthVars == {"AUTH_USERNAME", "AUTH_PASSWORD"}
TargetVars == {"SCRAPE_URL", "AUTH_TYPE"} \cup AuthVars

\* Environment e sets nothing but the variables in V.
Sets(e, V) == DOMAIN e \subseteq V

LEMMA Skipped ==
  ASSUME NEW e, NEW V, Sets(e, V), NEW v, v \notin V, NEW u
  PROVE  Getenv(e, v, u) = u
  BY DEF Sets, Getenv

LEMMA MergedSets ==
  ASSUME NEW V, NEW e, Sets(e, V), NEW f, Sets(f, V)
  PROVE  Sets(Merged(e, f), V)
  BY DEF Sets, Merged

LEMMA VarSets ==
  ASSUME NEW n, NEW V, n \in V, NEW x
  PROVE  Sets(Var(n, x), V)
  BY DEF Sets, Var

LEMMA EmptySets ==
  ASSUME NEW V
  PROVE  Sets(Empty, V)
  BY DEF Sets, Empty

\* What each part of the environment may set.
LEMMA PartsSet ==
  ASSUME NEW s, NEW a
  PROVE  /\ Sets(CPUThreshold(s), {"CPU_THRESHOLD"})
         /\ Sets(MemoryThreshold(s), {"MEMORY_THRESHOLD"})
         /\ Sets(MonitoringPeriod(s), {"MONITORING_PERIOD"})
         /\ Sets(AWSConfiguration(s), {"S3_BUCKET", "S3_REGION"} \cup AWSVars)
         /\ Sets(ScrapeTargetURL(s, a), {"SCRAPE_URL"})
         /\ Sets(ScrapeTargetBasicAuth(s, a), AuthVars)
<1>1. /\ Sets(CPUThreshold(s), {"CPU_THRESHOLD"})
      /\ Sets(MemoryThreshold(s), {"MEMORY_THRESHOLD"})
      /\ Sets(MonitoringPeriod(s), {"MONITORING_PERIOD"})
      /\ Sets(ScrapeTargetURL(s, a), {"SCRAPE_URL"})
  BY VarSets, EmptySets DEF CPUThreshold, MemoryThreshold, MonitoringPeriod, ScrapeTargetURL
<1>2. Sets(AWSConfiguration(s), {"S3_BUCKET", "S3_REGION"} \cup AWSVars)
  <2> DEFINE V == {"S3_BUCKET", "S3_REGION"} \cup AWSVars
             keys == IF s.aws.secret # "" THEN [w \in AWSVars |-> SecretKeyRef(s.aws.secret, w)]
                     ELSE IF s.aws.id /\ s.aws.key THEN [w \in AWSVars |-> FromProfiler(w)]
                     ELSE Empty
  <2>1. "S3_BUCKET" \in V /\ "S3_REGION" \in V
    OBVIOUS
  <2>2. Sets(keys, V)
    BY EmptySets DEF Sets
  <2>3. AWSConfiguration(s)
          = Merged(Merged(Var("S3_BUCKET", s.bucket), Var("S3_REGION", s.region)), keys)
    BY DEF AWSConfiguration
  <2> HIDE DEF V, keys
  <2>4. Sets(AWSConfiguration(s), V)
    BY <2>1, <2>2, <2>3, VarSets, MergedSets
  <2> QED
    BY <2>4 DEF V
<1>3. Sets(ScrapeTargetBasicAuth(s, a), AuthVars)
  <2>1. \A x, y : Sets(BasicAuthEnvVars(x, y), AuthVars)
    <3>1. "AUTH_USERNAME" \in AuthVars /\ "AUTH_PASSWORD" \in AuthVars
      BY DEF AuthVars
    <3> QED
      BY <3>1, VarSets, MergedSets DEF BasicAuthEnvVars
  <2> QED
    BY <2>1, EmptySets DEF ScrapeTargetBasicAuth, SecretAuthEnvVars
<1> QED
  BY <1>1, <1>2, <1>3

\* The part of the environment for the target.
LEMMA ScrapeTargetParts ==
  ASSUME NEW s, NEW a
  PROVE  /\ Sets(ScrapeTarget(s, a), TargetVars)
         /\ Getenv(ScrapeTarget(s, a), "SCRAPE_URL", "") = OrDefault(a.url, s.url)
         /\ Getenv(ScrapeTarget(s, a), "AUTH_TYPE", "") = AuthType(s, a)
         /\ AuthType(s, a) = "Basic" =>
              \A v \in AuthVars : \A u :
                Getenv(ScrapeTarget(s, a), v, u) = Getenv(ScrapeTargetBasicAuth(s, a), v, u)
<1> DEFINE url == ScrapeTargetURL(s, a)
           type == IF AuthType(s, a) = "" THEN Empty ELSE Var("AUTH_TYPE", AuthType(s, a))
           auth == IF AuthType(s, a) = "Basic" THEN ScrapeTargetBasicAuth(s, a) ELSE Empty
<1>1. ScrapeTarget(s, a) = Merged(url, Merged(type, auth))
  BY DEF ScrapeTarget
<1>2. Sets(url, {"SCRAPE_URL"}) /\ Sets(type, {"AUTH_TYPE"}) /\ Sets(auth, AuthVars)
  <2>1. Sets(type, {"AUTH_TYPE"})
    BY VarSets, EmptySets
  <2>2. Sets(auth, AuthVars)
    BY PartsSet, EmptySets
  <2> QED
    BY <2>1, <2>2, PartsSet
<1>3. Getenv(url, "SCRAPE_URL", "") = OrDefault(a.url, s.url)
  <2> DEFINE x == "SCRAPE_URL"
             unset == ""
  <2>1. url = IF OrDefault(a.url, s.url) = unset THEN Empty ELSE Var(x, OrDefault(a.url, s.url))
    BY DEF ScrapeTargetURL
  <2> HIDE DEF x, unset, url
  <2>2. Getenv(url, x, unset) = OrDefault(a.url, s.url)
    BY <2>1, GetVar, GetEmpty
  <2> QED
    BY <2>2 DEF x, unset
<1>4. Getenv(type, "AUTH_TYPE", "") = AuthType(s, a)
  <2> DEFINE x == "AUTH_TYPE"
             unset == ""
  <2>1. type = IF AuthType(s, a) = unset THEN Empty ELSE Var(x, AuthType(s, a))
    OBVIOUS
  <2> HIDE DEF x, unset, type
  <2>2. Getenv(type, x, unset) = AuthType(s, a)
    BY <2>1, GetVar, GetEmpty
  <2> QED
    BY <2>2 DEF x, unset
<1>5. AuthType(s, a) = "Basic" => auth = ScrapeTargetBasicAuth(s, a)
  OBVIOUS
<1> HIDE DEF url, type, auth
<1>6. \A v, u : Getenv(ScrapeTarget(s, a), v, u)
                  = Getenv(url, v, Getenv(type, v, Getenv(auth, v, u)))
  BY <1>1, GetMerged
<1>7. Sets(ScrapeTarget(s, a), TargetVars)
  <2>1. Sets(url, TargetVars) /\ Sets(type, TargetVars) /\ Sets(auth, TargetVars)
    BY <1>2 DEF Sets, TargetVars
  <2> QED
    BY <1>1, <2>1, MergedSets
<1>8. \A u : Getenv(ScrapeTarget(s, a), "SCRAPE_URL", u) = Getenv(url, "SCRAPE_URL", u)
  <2> DEFINE v == "SCRAPE_URL"
  <2>1. v \notin {"AUTH_TYPE"} /\ v \notin AuthVars
    BY DEF AuthVars
  <2> HIDE DEF v
  <2>2. \A w : Getenv(type, v, w) = w /\ Getenv(auth, v, w) = w
    BY <1>2, <2>1, Skipped
  <2>3. \A u : Getenv(ScrapeTarget(s, a), v, u) = Getenv(url, v, u)
    BY <1>6, <2>2
  <2> QED
    BY <2>3 DEF v
<1>9. \A u : Getenv(ScrapeTarget(s, a), "AUTH_TYPE", u) = Getenv(type, "AUTH_TYPE", u)
  <2> DEFINE v == "AUTH_TYPE"
  <2>1. v \notin {"SCRAPE_URL"} /\ v \notin AuthVars
    BY DEF AuthVars
  <2> HIDE DEF v
  <2>2. \A w : Getenv(url, v, w) = w /\ Getenv(auth, v, w) = w
    BY <1>2, <2>1, Skipped
  <2>3. \A u : Getenv(ScrapeTarget(s, a), v, u) = Getenv(type, v, u)
    BY <1>6, <2>2
  <2> QED
    BY <2>3 DEF v
<1>10. ASSUME NEW v \in AuthVars, NEW u
       PROVE  Getenv(ScrapeTarget(s, a), v, u) = Getenv(auth, v, u)
  <2>1. v \notin {"SCRAPE_URL"} /\ v \notin {"AUTH_TYPE"}
    BY DEF AuthVars
  <2>2. \A w : Getenv(url, v, w) = w /\ Getenv(type, v, w) = w
    BY <1>2, <2>1, Skipped
  <2> QED
    BY <1>6, <2>2
<1> QED
  BY <1>3, <1>4, <1>5, <1>7, <1>8, <1>9, <1>10, Zenon

\* The environment e, variable by variable, u standing for what is not set.
Environment(e, s, a, u) ==
    /\ Getenv(e, "TARGET_CONTAINER", u) = OrDefault(a.target, "first")
    /\ Getenv(e, "METRICS_ADDR", u) = MetricsPort(a)
    /\ Getenv(e, "CPU_THRESHOLD", u) = Getenv(CPUThreshold(s), "CPU_THRESHOLD", u)
    /\ Getenv(e, "MEMORY_THRESHOLD", u) = Getenv(MemoryThreshold(s), "MEMORY_THRESHOLD", u)
    /\ Getenv(e, "MONITORING_PERIOD", u) = Getenv(MonitoringPeriod(s), "MONITORING_PERIOD", u)
    /\ \A v \in {"S3_BUCKET", "S3_REGION"} \cup AWSVars :
          Getenv(e, v, u) = Getenv(AWSConfiguration(s), v, u)
    /\ \A v \in TargetVars : Getenv(e, v, u) = Getenv(ScrapeTarget(s, a), v, u)

LEMMA EnvironmentParts ==
  ASSUME NEW s, NEW a, NEW u
  PROVE  Environment(BuildProfilerSidecar(s, a), s, a, u)
<1> DEFINE e == BuildProfilerSidecar(s, a)
           own == Merged(Var("TARGET_CONTAINER", OrDefault(a.target, "first")),
                         Var("METRICS_ADDR", MetricsPort(a)))
           thresholds == Merged(CPUThreshold(s), Merged(MemoryThreshold(s), MonitoringPeriod(s)))
           endpoint == Merged(Optional("S3_ENDPOINT", a.endpoint),
                              Optional("S3_FORCE_PATH_STYLE", a.pathStyle))
           V1 == {"TARGET_CONTAINER", "METRICS_ADDR"}
           V3 == {"S3_BUCKET", "S3_REGION"} \cup AWSVars
           V5 == {"S3_ENDPOINT", "S3_FORCE_PATH_STYLE"}
<1>1. e = Merged(own, Merged(thresholds, Merged(AWSConfiguration(s),
                             Merged(ScrapeTarget(s, a), endpoint))))
  BY DEF BuildProfilerSidecar
<1>2. Sets(own, V1)
  <2>1. "TARGET_CONTAINER" \in V1 /\ "METRICS_ADDR" \in V1
    OBVIOUS
  <2> HIDE DEF V1
  <2> QED
    BY <2>1, VarSets, MergedSets
<1>3. Sets(endpoint, V5)
  <2>1. "S3_ENDPOINT" \in V5 /\ "S3_FORCE_PATH_STYLE" \in V5
    OBVIOUS
  <2> HIDE DEF V5
  <2> QED
    BY <2>1, VarSets, EmptySets, MergedSets DEF Optional
<1>4. /\ Getenv(own, "TARGET_CONTAINER", u) = OrDefault(a.target, "first")
      /\ Getenv(own, "METRICS_ADDR", u) = MetricsPort(a)
  BY DEF Merged, Var, Getenv
<1>5. /\ Sets(CPUThreshold(s), {"CPU_THRESHOLD"}) /\ Sets(MemoryThreshold(s), {"MEMORY_THRESHOLD"})
      /\ Sets(MonitoringPeriod(s), {"MONITORING_PERIOD"})
      /\ Sets(AWSConfiguration(s), V3) /\ Sets(ScrapeTarget(s, a), TargetVars)
  BY PartsSet, ScrapeTargetParts
<1> HIDE DEF e, own, endpoint
<1>6. \A v, w : Getenv(e, v, w)
        = Getenv(own, v, Getenv(CPUThreshold(s), v, Getenv(MemoryThreshold(s), v,
          Getenv(MonitoringPeriod(s), v, Getenv(AWSConfiguration(s), v,
          Getenv(ScrapeTarget(s, a), v, Getenv(endpoint, v, w)))))))
  <2>1. \A v, w : Getenv(e, v, w)
          = Getenv(own, v, Getenv(thresholds, v, Getenv(AWSConfiguration(s), v,
            Getenv(ScrapeTarget(s, a), v, Getenv(endpoint, v, w)))))
    BY <1>1, GetMerged
  <2> QED
    BY <2>1, GetMerged
<1>7. \A v, w :
        /\ v \notin V1 => Getenv(own, v, w) = w
        /\ v \notin {"CPU_THRESHOLD"} => Getenv(CPUThreshold(s), v, w) = w
        /\ v \notin {"MEMORY_THRESHOLD"} => Getenv(MemoryThreshold(s), v, w) = w
        /\ v \notin {"MONITORING_PERIOD"} => Getenv(MonitoringPeriod(s), v, w) = w
        /\ v \notin V3 => Getenv(AWSConfiguration(s), v, w) = w
        /\ v \notin TargetVars => Getenv(ScrapeTarget(s, a), v, w) = w
        /\ v \notin V5 => Getenv(endpoint, v, w) = w
  <2> HIDE DEF V1, V3, V5
  <2> QED
    BY <1>2, <1>3, <1>5, Skipped
<1>8. ASSUME NEW v \in V1 PROVE Getenv(e, v, u) = Getenv(own, v, u)
  <2>1. /\ v \notin {"CPU_THRESHOLD"} /\ v \notin {"MEMORY_THRESHOLD"}
        /\ v \notin {"MONITORING_PERIOD"} /\ v \notin V3 /\ v \notin TargetVars /\ v \notin V5
    BY DEF AWSVars, TargetVars, AuthVars
  <2> HIDE DEF V1, V3, V5
  <2> QED
    BY <1>6, <1>7, <2>1
<1>9. Getenv(e, "CPU_THRESHOLD", u) = Getenv(CPUThreshold(s), "CPU_THRESHOLD", u)
  <2> DEFINE v == "CPU_THRESHOLD"
  <2>1. /\ v \notin V1 /\ v \notin {"MEMORY_THRESHOLD"}
        /\ v \notin {"MONITORING_PERIOD"} /\ v \notin V3 /\ v \notin TargetVars /\ v \notin V5
    BY DEF AWSVars, TargetVars, AuthVars
  <2> HIDE DEF V1, V3, V5, v
  <2>2. Getenv(e, v, u) = Getenv(CPUThreshold(s), v, u)
    BY <1>6, <1>7, <2>1
  <2> QED
    BY <2>2 DEF v
<1>10. Getenv(e, "MEMORY_THRESHOLD", u) = Getenv(MemoryThreshold(s), "MEMORY_THRESHOLD", u)
  <2> DEFINE v == "MEMORY_THRESHOLD"
  <2>1. /\ v \notin V1 /\ v \notin {"CPU_THRESHOLD"}
        /\ v \notin {"MONITORING_PERIOD"} /\ v \notin V3 /\ v \notin TargetVars /\ v \notin V5
    BY DEF AWSVars, TargetVars, AuthVars
  <2> HIDE DEF V1, V3, V5, v
  <2>2. Getenv(e, v, u) = Getenv(MemoryThreshold(s), v, u)
    BY <1>6, <1>7, <2>1
  <2> QED
    BY <2>2 DEF v
<1>11. Getenv(e, "MONITORING_PERIOD", u) = Getenv(MonitoringPeriod(s), "MONITORING_PERIOD", u)
  <2> DEFINE v == "MONITORING_PERIOD"
  <2>1. /\ v \notin V1 /\ v \notin {"CPU_THRESHOLD"}
        /\ v \notin {"MEMORY_THRESHOLD"} /\ v \notin V3 /\ v \notin TargetVars /\ v \notin V5
    BY DEF AWSVars, TargetVars, AuthVars
  <2> HIDE DEF V1, V3, V5, v
  <2>2. Getenv(e, v, u) = Getenv(MonitoringPeriod(s), v, u)
    BY <1>6, <1>7, <2>1
  <2> QED
    BY <2>2 DEF v
<1>12. ASSUME NEW v \in V3 PROVE Getenv(e, v, u) = Getenv(AWSConfiguration(s), v, u)
  <2>1. /\ v \notin V1 /\ v \notin {"CPU_THRESHOLD"} /\ v \notin {"MEMORY_THRESHOLD"}
        /\ v \notin {"MONITORING_PERIOD"} /\ v \notin TargetVars /\ v \notin V5
    BY DEF AWSVars, TargetVars, AuthVars
  <2> HIDE DEF V1, V3, V5
  <2> QED
    BY <1>6, <1>7, <2>1
<1>13. ASSUME NEW v \in TargetVars PROVE Getenv(e, v, u) = Getenv(ScrapeTarget(s, a), v, u)
  <2>1. /\ v \notin V1 /\ v \notin {"CPU_THRESHOLD"} /\ v \notin {"MEMORY_THRESHOLD"}
        /\ v \notin {"MONITORING_PERIOD"} /\ v \notin V3 /\ v \notin V5
    BY DEF AWSVars, TargetVars, AuthVars
  <2> HIDE DEF V1, V3, V5
  <2> QED
    BY <1>6, <1>7, <2>1
<1>14. /\ Getenv(e, "TARGET_CONTAINER", u) = OrDefault(a.target, "first")
       /\ Getenv(e, "METRICS_ADDR", u) = MetricsPort(a)
  <2>1. "TARGET_CONTAINER" \in V1 /\ "METRICS_ADDR" \in V1
    OBVIOUS
  <2> HIDE DEF V1
  <2> QED
    BY <1>4, <1>8, <2>1, Zenon
<1> QED
  BY <1>9, <1>10, <1>11, <1>12, <1>13, <1>14 DEF e, Environment

-----------------------------------------------------------------------------
(* Credentials.                                                            *)

Cred(source, key) == [source |-> source, key |-> key, generation |-> 0]
Sources == Secrets \cup {"", "annotation", "profiler"}
SecretStates == [Secrets -> [generation : 0 .. MaxWrites, keys : KeySets]]

\* "", under a name of its own: no more than its being no Secret matters.
Unset == ""

\* A credential as the kubelet hands it over.
Filled(c, ss) ==
  IF c.source \in Secrets THEN [c EXCEPT !.generation = ss[c.source].generation] ELSE c

LEMMA UnsetFacts ==
  /\ Unset \notin Secrets /\ Unset \in Sources
  /\ NoCredential = Cred(Unset, Unset)
  /\ \A c : CredentialType(c) <=> /\ c.source \in Sources
                                  /\ c.generation \in 0 .. MaxWrites
                                  /\ c.source = Unset => c = NoCredential
<1>1. Unset \notin Secrets
  BY SecretNames DEF Unset
<1> QED
  BY <1>1 DEF Unset, Sources, NoCredential, Cred, CredentialType

LEMMA FilledFacts ==
  ASSUME NEW ss \in SecretStates, NEW src \in Sources, NEW key, src = Unset => key = Unset
  PROVE  /\ Filled(Cred(src, key), ss).source = src
         /\ Filled(Cred(src, key), ss).generation
              = IF src \in Secrets THEN ss[src].generation ELSE 0
         /\ CredentialType(Filled(Cred(src, key), ss))
         /\ Filled(Cred(src, key), ss) # NoCredential <=> src # Unset
<1> DEFINE c == Cred(src, key)
<1>1. c.source = src
  BY DEF Cred
<1>2. CASE src \in Secrets
  <2>1. ss[src].generation \in 0 .. MaxWrites /\ src # Unset
    BY <1>2, UnsetFacts DEF SecretStates
  <2>2. Filled(c, ss) = [source |-> src, key |-> key, generation |-> ss[src].generation]
    BY <1>2 DEF Filled, Cred
  <2>3. Filled(c, ss).source = src /\ NoCredential.source = Unset
    BY <2>2, UnsetFacts DEF Cred
  <2>4. Filled(c, ss) # NoCredential
    BY <2>1, <2>3
  <2>5. CredentialType(Filled(c, ss))
    BY <2>1, <2>2, <2>3, UnsetFacts
  <2> QED
    BY <1>2, <2>1, <2>2, <2>4, <2>5
<1>3. CASE src \notin Secrets
  <2>1. Filled(c, ss) = c /\ c = [source |-> src, key |-> key, generation |-> 0]
    BY <1>3 DEF Filled, Cred
  <2>2. 0 \in 0 .. MaxWrites
    BY PodBounds
  <2>3. src = Unset => c = NoCredential
    BY UnsetFacts
  <2>4. src # Unset => c # NoCredential
    BY <1>1, UnsetFacts DEF Cred
  <2>5. CredentialType(c)
    BY <2>1, <2>2, <2>3, UnsetFacts
  <2> QED
    BY <1>3, <2>1, <2>3, <2>4, <2>5
<1> QED
  BY <1>2, <1>3

\* What the kubelet leaves alone and what it fills in.
LEMMA ResolvedVars ==
  ASSUME NEW e, NEW ss, NEW v, NEW u
  PROVE  /\ v \notin CredentialVars => Getenv(Resolve(e, ss), v, u) = Getenv(e, v, u)
         /\ v \in CredentialVars => Getenv(Resolve(e, ss), v, NoCredential)
                                      = Filled(Getenv(e, v, NoCredential), ss)
<1>1. Filled(NoCredential, ss) = NoCredential
  BY SecretNames DEF Filled, NoCredential
<1> QED
  BY <1>1 DEF Getenv, Resolve, Reference, Filled

LEMMA AWSSources ==
  ASSUME NEW s \in ProfilerSpecs
  PROVE  \E src, k1, k2 :
           /\ src \in Sources
           /\ AWSCredential(s, "AWS_ACCESS_KEY_ID", NoCredential) = Cred(src, k1)
           /\ AWSCredential(s, "AWS_SECRET_ACCESS_KEY", NoCredential) = Cred(src, k2)
           /\ src = Unset => k1 = Unset /\ k2 = Unset
           /\ src # Unset <=> (s.aws.secret # "" \/ (s.aws.id /\ s.aws.key))
<1> DEFINE credential(v) == AWSCredential(s, v, NoCredential)
           given == s.aws.id /\ s.aws.key
           id == "AWS_ACCESS_KEY_ID"
           key == "AWS_SECRET_ACCESS_KEY"
           inline == "profiler"
<1>1. s.aws.secret \in Secrets \cup {Unset} /\ Secrets \subseteq Sources
      /\ inline \in Sources /\ inline # Unset /\ Unset \in Sources
  BY PodProfilers DEF ProfilerSpec, Sources, Unset
<1>2. \A v : credential(v) = IF s.aws.secret # Unset THEN Cred(s.aws.secret, v)
                            ELSE IF given THEN Cred(inline, v) ELSE Cred(Unset, Unset)
  BY UnsetFacts DEF AWSCredential, SecretKeyRef, FromProfiler, Cred, Unset
<1> HIDE DEF credential, given, id, key, inline
<1>3. \E src, k1, k2 :
        /\ src \in Sources
        /\ credential(id) = Cred(src, k1) /\ credential(key) = Cred(src, k2)
        /\ src = Unset => k1 = Unset /\ k2 = Unset
        /\ src # Unset <=> (s.aws.secret # Unset \/ given)
  <2>1. CASE s.aws.secret # Unset
    BY <1>1, <1>2, <2>1
  <2>2. CASE s.aws.secret = Unset /\ given
    BY <1>1, <1>2, <2>2
  <2>3. CASE s.aws.secret = Unset /\ ~given
    BY <1>1, <1>2, <2>3
  <2> QED
    BY <2>1, <2>2, <2>3
<1> QED
  BY <1>3 DEF credential, given, id, key, Unset

\* Where the pod has a complete credential of its own, if it has one.
Own(a) == IF a.username /\ a.password THEN "annotation" ELSE a.secret
UserOf(s, a) == Getenv(ScrapeTargetBasicAuth(s, a), "AUTH_USERNAME", NoCredential)
PasswordOf(s, a) == Getenv(ScrapeTargetBasicAuth(s, a), "AUTH_PASSWORD", NoCredential)

LEMMA BasicAuthVars ==
  ASSUME NEW x, NEW y, NEW u
  PROVE  /\ Getenv(BasicAuthEnvVars(x, y), "AUTH_USERNAME", u) = x
         /\ Getenv(BasicAuthEnvVars(x, y), "AUTH_PASSWORD", u) = y
  BY DEF BasicAuthEnvVars, Merged, Var, Getenv

LEMMA AuthSources ==
  ASSUME NEW s \in ProfilerSpecs, NEW a \in Pods
  PROVE  \E src, k1, k2 :
           /\ src \in Sources
           /\ UserOf(s, a) = Cred(src, k1) /\ PasswordOf(s, a) = Cred(src, k2)
           /\ src = Unset => k1 = Unset /\ k2 = Unset
           /\ Own(a) # Unset => src = Own(a)
<1> DEFINE both == ScrapeTargetBasicAuth(s, a)
           inline == "annotation"
           named == "profiler"
           given == a.username /\ a.password
           shared == s.auth.username /\ s.auth.password
<1>1. /\ a.secret \in Secrets \cup {Unset} /\ s.auth.secret \in Secrets \cup {Unset}
      /\ Secrets \subseteq Sources /\ Unset \in Sources
      /\ inline \in Sources /\ inline # Unset /\ named \in Sources /\ named # Unset
  BY PodSubmitted, PodProfilers DEF Annotated, ProfilerSpec, Sources, Unset
<1>2. \A x, y : both = BasicAuthEnvVars(x, y) => UserOf(s, a) = x /\ PasswordOf(s, a) = y
  BY BasicAuthVars DEF UserOf, PasswordOf
<1>3. \A n, k : FromPod(k) = Cred(inline, k) /\ FromProfiler(k) = Cred(named, k)
                /\ SecretKeyRef(n, k) = Cred(n, k)
  BY DEF FromPod, FromProfiler, SecretKeyRef, Cred
<1>4. both = Empty => UserOf(s, a) = Cred(Unset, Unset) /\ PasswordOf(s, a) = Cred(Unset, Unset)
  BY GetEmpty, UnsetFacts DEF UserOf, PasswordOf
<1>5. Own(a) = IF given THEN inline ELSE a.secret
  BY DEF Own
<1>6. /\ given => \E k1, k2 : both = BasicAuthEnvVars(FromPod(k1), FromPod(k2))
      /\ ~given /\ a.secret # Unset =>
           \E k1, k2 : both = BasicAuthEnvVars(SecretKeyRef(a.secret, k1),
                                              SecretKeyRef(a.secret, k2))
      /\ ~given /\ a.secret = Unset /\ shared =>
           \E k1, k2 : both = BasicAuthEnvVars(FromProfiler(k1), FromProfiler(k2))
      /\ ~given /\ a.secret = Unset /\ ~shared /\ s.auth.secret # Unset =>
           \E k1, k2 : both = BasicAuthEnvVars(SecretKeyRef(s.auth.secret, k1),
                                              SecretKeyRef(s.auth.secret, k2))
      /\ ~given /\ a.secret = Unset /\ ~shared /\ s.auth.secret = Unset => both = Empty
  BY Zenon DEF ScrapeTargetBasicAuth, SecretAuthEnvVars, Unset
<1> HIDE DEF both, inline, named, given, shared
<1>7. \E src, k1, k2 :
        /\ src \in Sources
        /\ UserOf(s, a) = Cred(src, k1) /\ PasswordOf(s, a) = Cred(src, k2)
        /\ src = Unset => k1 = Unset /\ k2 = Unset
        /\ Own(a) # Unset => src = Own(a)
  <2>1. CASE given
    BY <1>1, <1>2, <1>3, <1>5, <1>6, <2>1
  <2>2. CASE ~given /\ a.secret # Unset
    BY <1>1, <1>2, <1>3, <1>5, <1>6, <2>2
  <2>3. CASE ~given /\ a.secret = Unset /\ shared
    BY <1>1, <1>2, <1>3, <1>5, <1>6, <2>3
  <2>4. CASE ~given /\ a.secret = Unset /\ ~shared /\ s.auth.secret # Unset
    BY <1>1, <1>2, <1>3, <1>5, <1>6, <2>4
  <2>5. CASE ~given /\ a.secret = Unset /\ ~shared /\ s.auth.secret = Unset
    BY <1>1, <1>4, <1>5, <1>6, <2>5
  <2> QED
    BY <2>1, <2>2, <2>3, <2>4, <2>5
<1> QED
  BY <1>7 DEF inline
-----------------------------------------------------------------------------
(* What the sidecar loads.                                                 *)

\* A variable that is set whatever is asked for in its place.
LEMMA Given ==
  ASSUME NEW e, NEW v, NEW x, \A u : Getenv(e, v, u) = x
  PROVE  e[v] = x
<1>1. v \in DOMAIN e
  <2>1. SUFFICES ASSUME v \notin DOMAIN e PROVE FALSE
    OBVIOUS
  <2>2. Getenv(e, v, 0) = 0 /\ Getenv(e, v, 1) = 1
    BY <2>1 DEF Getenv
  <2>3. Getenv(e, v, 0) = Getenv(e, v, 1)
    BY Zenon
  <2> QED
    BY <2>2, <2>3
<1> QED
  BY <1>1 DEF Getenv

\* The configuration c follows the Profiler s, the pod a and the Secrets of
\* one moment.
FollowsProfiler(c, s) ==
    /\ c.cpu = (IF s.cpu = NotSet THEN 80 ELSE s.cpu)
    /\ c.mem = (IF s.mem = NotSet THEN 80 ELSE s.mem)
    /\ c.period = (IF s.period = 0 THEN 15 ELSE s.period)
    /\ c.bucket = s.bucket
    /\ (c.awsId # NoCredential) = (s.aws.secret # "" \/ (s.aws.id /\ s.aws.key))

FollowsPod(c, s, a) ==
    /\ c.port = MetricsPort(a)
    /\ c.url = OrDefault(a.url, s.url)
    /\ c.username # NoCredential => AuthType(s, a) = "Basic"
    /\ AuthType(s, a) = "Basic" /\ Own(a) # Unset => c.username.source = Own(a)

Pair(x, y) ==
    /\ CredentialType(x) /\ CredentialType(y)
    /\ x.source = y.source /\ x.generation = y.generation

Credentials(c) == Pair(c.awsId, c.awsKey) /\ Pair(c.username, c.password)

LEMMA NoPair == Pair(NoCredential, NoCredential)
<1>1. 0 \in 0 .. MaxWrites
  BY PodBounds
<1> QED
  BY <1>1, UnsetFacts DEF Pair, Cred

LEMMA LoadedConfig ==
  ASSUME NEW s \in ProfilerSpecs, NEW a \in Pods, NEW ss \in SecretStates
  PROVE  LET c == LoadConfig(Resolve(BuildProfilerSidecar(s, a), ss))
         IN  FollowsProfiler(c, s) /\ FollowsPod(c, s, a) /\ Credentials(c)
<1> DEFINE e == BuildProfilerSidecar(s, a)
           r == Resolve(e, ss)
           c == LoadConfig(r)
           id == Filled(AWSCredential(s, "AWS_ACCESS_KEY_ID", NoCredential), ss)
           key == Filled(AWSCredential(s, "AWS_SECRET_ACCESS_KEY", NoCredential), ss)
           B == AuthType(s, a) = "Basic"
           user == Filled(UserOf(s, a), ss)
           password == Filled(PasswordOf(s, a), ss)
<1>0. \A u : Environment(e, s, a, u)
  BY EnvironmentParts
<1>1. \A v : v \notin CredentialVars => \A u : Getenv(r, v, u) = Getenv(e, v, u)
  BY ResolvedVars
<1>2. c.port = MetricsPort(a) /\ c.bucket = s.bucket
  <2>1. "METRICS_ADDR" \notin CredentialVars /\ "S3_BUCKET" \notin CredentialVars
    BY DEF CredentialVars, AWSVars
  <2>2. \A u : Getenv(r, "METRICS_ADDR", u) = MetricsPort(a)
    BY <1>0, <1>1, <2>1, Zenon DEF Environment
  <2>3. \A u : Getenv(r, "S3_BUCKET", u) = s.bucket
    <3>1. "S3_BUCKET" \in {"S3_BUCKET", "S3_REGION"} \cup AWSVars
      OBVIOUS
    <3>2. \A u : Getenv(e, "S3_BUCKET", u) = Getenv(AWSConfiguration(s), "S3_BUCKET", u)
      BY <1>0, <3>1, Zenon DEF Environment
    <3> QED
      BY <1>1, <2>1, <3>2, AWSConfigurationVars, Zenon
  <2>4. r["METRICS_ADDR"] = MetricsPort(a) /\ r["S3_BUCKET"] = s.bucket
    BY <2>2, <2>3, Given, Zenon
  <2>5. c.port = r["METRICS_ADDR"] /\ c.bucket = r["S3_BUCKET"]
    BY Zenon DEF LoadConfig
  <2> QED
    BY <2>4, <2>5, Zenon
<1>3. /\ c.cpu = (IF s.cpu = NotSet THEN 80 ELSE s.cpu)
      /\ c.mem = (IF s.mem = NotSet THEN 80 ELSE s.mem)
      /\ c.period = (IF s.period = 0 THEN 15 ELSE s.period)
  <2>1. /\ "CPU_THRESHOLD" \notin CredentialVars /\ "MEMORY_THRESHOLD" \notin CredentialVars
        /\ "MONITORING_PERIOD" \notin CredentialVars
    BY DEF CredentialVars, AWSVars
  <2>2. /\ c.cpu = Getenv(r, "CPU_THRESHOLD", 80)
        /\ c.mem = Getenv(r, "MEMORY_THRESHOLD", 80)
        /\ c.period = Getenv(r, "MONITORING_PERIOD", 15)
    BY Zenon DEF LoadConfig, Period
  <2>3. \A u :
          /\ Getenv(r, "CPU_THRESHOLD", u) = Getenv(CPUThreshold(s), "CPU_THRESHOLD", u)
          /\ Getenv(r, "MEMORY_THRESHOLD", u) = Getenv(MemoryThreshold(s), "MEMORY_THRESHOLD", u)
          /\ Getenv(r, "MONITORING_PERIOD", u)
               = Getenv(MonitoringPeriod(s), "MONITORING_PERIOD", u)
    <3>1. \A u :
            /\ Getenv(e, "CPU_THRESHOLD", u) = Getenv(CPUThreshold(s), "CPU_THRESHOLD", u)
            /\ Getenv(e, "MEMORY_THRESHOLD", u)
                 = Getenv(MemoryThreshold(s), "MEMORY_THRESHOLD", u)
            /\ Getenv(e, "MONITORING_PERIOD", u)
                 = Getenv(MonitoringPeriod(s), "MONITORING_PERIOD", u)
      BY <1>0, Zenon DEF Environment
    <3>2. \A u : /\ Getenv(r, "CPU_THRESHOLD", u) = Getenv(e, "CPU_THRESHOLD", u)
                 /\ Getenv(r, "MEMORY_THRESHOLD", u) = Getenv(e, "MEMORY_THRESHOLD", u)
                 /\ Getenv(r, "MONITORING_PERIOD", u) = Getenv(e, "MONITORING_PERIOD", u)
      BY <1>1, <2>1, Zenon
    <3> QED
      BY <3>1, <3>2, Zenon
  <2>4. /\ Getenv(CPUThreshold(s), "CPU_THRESHOLD", 80) = IF s.cpu # NotSet THEN s.cpu ELSE 80
        /\ Getenv(MemoryThreshold(s), "MEMORY_THRESHOLD", 80)
             = IF s.mem # NotSet THEN s.mem ELSE 80
        /\ Getenv(MonitoringPeriod(s), "MONITORING_PERIOD", 15)
             = IF s.period # 0 THEN s.period ELSE 15
    BY ThresholdVars
  <2> HIDE DEF c, r
  <2> QED
    BY <2>2, <2>3, <2>4
<1>4. c.awsId = id /\ c.awsKey = key
  <2> DEFINE v1 == "AWS_ACCESS_KEY_ID"
             v2 == "AWS_SECRET_ACCESS_KEY"
             V == {"S3_BUCKET", "S3_REGION"} \cup AWSVars
  <2>1. v1 \in AWSVars /\ v2 \in AWSVars /\ AWSVars \subseteq V /\ AWSVars \subseteq CredentialVars
    BY DEF AWSVars, CredentialVars
  <2>2. c.awsId = Getenv(r, v1, NoCredential) /\ c.awsKey = Getenv(r, v2, NoCredential)
    BY Zenon DEF LoadConfig
  <2>3. \A v \in V : Getenv(e, v, NoCredential) = Getenv(AWSConfiguration(s), v, NoCredential)
    BY <1>0, Zenon DEF Environment
  <2>4. \A v \in AWSVars : Getenv(AWSConfiguration(s), v, NoCredential)
                             = AWSCredential(s, v, NoCredential)
    BY AWSConfigurationVars, Zenon
  <2>5. \A v \in CredentialVars : Getenv(r, v, NoCredential) = Filled(Getenv(e, v, NoCredential), ss)
    BY ResolvedVars
  <2>6. id = Filled(AWSCredential(s, v1, NoCredential), ss)
        /\ key = Filled(AWSCredential(s, v2, NoCredential), ss)
    OBVIOUS
  <2> HIDE DEF v1, v2, V, c, r, e, id, key
  <2> QED
    BY <2>1, <2>2, <2>3, <2>4, <2>5, <2>6
<1>5. \A v \in {"SCRAPE_URL", "AUTH_TYPE"} :
        \A u : Getenv(r, v, u) = Getenv(ScrapeTarget(s, a), v, u)
  <2>1. \A v \in {"SCRAPE_URL", "AUTH_TYPE"} : v \notin CredentialVars /\ v \in TargetVars
    BY DEF CredentialVars, AWSVars, TargetVars
  <2>2. \A v \in TargetVars : \A u : Getenv(e, v, u) = Getenv(ScrapeTarget(s, a), v, u)
    BY <1>0, Zenon DEF Environment
  <2> QED
    BY <1>1, <2>1, <2>2, Zenon
<1>6. c.url = OrDefault(a.url, s.url)
  <2>1. c.url = Getenv(r, "SCRAPE_URL", "")
    BY Zenon DEF LoadConfig
  <2>2. Getenv(r, "SCRAPE_URL", "") = Getenv(ScrapeTarget(s, a), "SCRAPE_URL", "")
    BY <1>5, Zenon
  <2> QED
    BY <2>1, <2>2, ScrapeTargetParts, Zenon
<1>7. /\ c.username = IF B THEN user ELSE NoCredential
      /\ c.password = IF B THEN password ELSE NoCredential
  <2> DEFINE v1 == "AUTH_USERNAME"
             v2 == "AUTH_PASSWORD"
             T == Getenv(r, "AUTH_TYPE", "")
  <2>1. /\ v1 \in AuthVars /\ v2 \in AuthVars /\ AuthVars \subseteq TargetVars
        /\ AuthVars \subseteq CredentialVars
    BY DEF AuthVars, TargetVars, CredentialVars
  <2>2. T = AuthType(s, a)
    BY <1>5, ScrapeTargetParts, Zenon
  <2>3. /\ c.username = AuthVar(r, v1) /\ c.password = AuthVar(r, v2)
    BY Zenon DEF LoadConfig
  <2>4. \A v : AuthVar(r, v) = IF B THEN Getenv(r, v, NoCredential) ELSE NoCredential
    BY <2>2, Zenon DEF AuthVar
  <2>5. \A v \in TargetVars : Getenv(e, v, NoCredential) = Getenv(ScrapeTarget(s, a), v, NoCredential)
    BY <1>0, Zenon DEF Environment
  <2>6. B => \A v \in AuthVars : Getenv(ScrapeTarget(s, a), v, NoCredential)
                               = Getenv(ScrapeTargetBasicAuth(s, a), v, NoCredential)
    BY ScrapeTargetParts, Zenon
  <2>7. \A v \in CredentialVars : Getenv(r, v, NoCredential) = Filled(Getenv(e, v, NoCredential), ss)
    BY ResolvedVars
  <2>8. /\ user = Filled(Getenv(ScrapeTargetBasicAuth(s, a), v1, NoCredential), ss)
        /\ password = Filled(Getenv(ScrapeTargetBasicAuth(s, a), v2, NoCredential), ss)
    BY DEF UserOf, PasswordOf
  <2> HIDE DEF v1, v2, T, B, c, r, e, user, password
  <2> QED
    BY <2>1, <2>3, <2>4, <2>5, <2>6, <2>7, <2>8
<1>8. /\ Pair(id, key)
      /\ (id # NoCredential) = (s.aws.secret # "" \/ (s.aws.id /\ s.aws.key))
  <2> DEFINE given == s.aws.secret # "" \/ (s.aws.id /\ s.aws.key)
             id0 == AWSCredential(s, "AWS_ACCESS_KEY_ID", NoCredential)
             key0 == AWSCredential(s, "AWS_SECRET_ACCESS_KEY", NoCredential)
  <2>1. PICK src, k1, k2 :
          /\ src \in Sources
          /\ id0 = Cred(src, k1) /\ key0 = Cred(src, k2)
          /\ src = Unset => k1 = Unset /\ k2 = Unset
          /\ src # Unset <=> given
    BY AWSSources, Zenon
  <2> HIDE DEF given, id0, key0
  <2>2. Pair(Filled(Cred(src, k1), ss), Filled(Cred(src, k2), ss))
        /\ (Filled(Cred(src, k1), ss) # NoCredential <=> src # Unset)
    BY <2>1, FilledFacts DEF Pair
  <2>3. Pair(Filled(id0, ss), Filled(key0, ss)) /\ (Filled(id0, ss) # NoCredential) = given
    BY <2>1, <2>2, Zenon DEF given
  <2> QED
    BY <2>3, Zenon DEF given, id0, key0
<1>9. Pair(user, password) /\ (Own(a) # Unset => user.source = Own(a))
  <2>1. PICK src, k1, k2 :
          /\ src \in Sources
          /\ UserOf(s, a) = Cred(src, k1) /\ PasswordOf(s, a) = Cred(src, k2)
          /\ src = Unset => k1 = Unset /\ k2 = Unset
          /\ Own(a) # Unset => src = Own(a)
    BY AuthSources, Zenon
  <2>2. Pair(Filled(Cred(src, k1), ss), Filled(Cred(src, k2), ss))
        /\ Filled(Cred(src, k1), ss).source = src
    BY <2>1, FilledFacts DEF Pair
  <2> QED
    BY <2>1, <2>2, Zenon
<1>10. Credentials(c)
  BY <1>4, <1>7, <1>8, <1>9, NoPair, Zenon DEF Credentials
<1>11. FollowsProfiler(c, s)
  BY <1>2, <1>3, <1>4, <1>8, Zenon DEF FollowsProfiler
<1>12. FollowsPod(c, s, a)
  BY <1>2, <1>6, <1>7, <1>9, Zenon DEF FollowsPod
<1> QED
  BY <1>10, <1>11, <1>12

\* What the environment must have to be usable is decided by two fields.
LEMMA UnusableWhen ==
  ASSUME NEW s \in ProfilerSpecs, NEW a \in Pods, NEW token
  PROVE  Unusable(BuildProfilerSidecar(s, a), token) <=> s.bucket = "" \/ ~token
<1> DEFINE e == BuildProfilerSidecar(s, a)
<1>0. \A u : Environment(e, s, a, u)
  BY EnvironmentParts
<1>1. \A u : Getenv(e, "TARGET_CONTAINER", u) = OrDefault(a.target, "first")
  BY <1>0, Zenon DEF Environment
<1>2. \A u : Getenv(e, "S3_BUCKET", u) = s.bucket
  <2>1. "S3_BUCKET" \in {"S3_BUCKET", "S3_REGION"} \cup AWSVars
    OBVIOUS
  <2>2. \A u : Getenv(e, "S3_BUCKET", u) = Getenv(AWSConfiguration(s), "S3_BUCKET", u)
    BY <1>0, <2>1, Zenon DEF Environment
  <2> QED
    BY <2>2, AWSConfigurationVars, Zenon
<1>3. e["TARGET_CONTAINER"] = OrDefault(a.target, "first") /\ e["S3_BUCKET"] = s.bucket
  BY <1>1, <1>2, Given, Zenon
<1>4. OrDefault(a.target, "first") # ""
  BY DEF OrDefault
<1> QED
  BY <1>3, <1>4, Zenon DEF Unusable
-----------------------------------------------------------------------------
(* The inductive invariant.                                                *)

\* Until its admission the pod does nothing; afterwards its environment is
\* that of the Profiler and the annotations it was admitted with.
PodInv ==
    IF sidecar = "absent"
    THEN annotations = NoAnnotations /\ conf = NoConf /\ metrics = "none" /\ app = "down"
    ELSE annotations \in Pods /\ env = BuildProfilerSidecar(admitted, annotations)

\* What was loaded last is what they say.
ConfInv ==
    \/ conf = NoConf /\ sidecar \notin {"loaded", "monitoring", "panicked"}
    \/ /\ FollowsProfiler(conf, admitted) /\ FollowsPod(conf, admitted, annotations)
       /\ Credentials(conf)
       /\ admitted.bucket # "" /\ sidecar # "absent"

\* Only an application and a sidecar that want one port refuse each other, and
\* never both.
PortInv ==
    /\ app = "refused" \/ metrics = "failed" => MetricsPort(annotations) = AppPort
    /\ ~(app = "refused" /\ metrics = "failed")

ClusterTypes ==
    /\ admitted \in ProfilerSpecs
    /\ secrets \in [Secrets -> [generation : 0 .. writes, keys : KeySets]]
    /\ writes \in 0 .. MaxWrites /\ kills \in 0 .. MaxKills

PodTypes ==
    /\ sidecar \in {"absent", "waiting", "loaded", "monitoring", "failed", "panicked", "killed"}
    /\ metrics \in {"none", "starting", "serving", "failed"}
    /\ (metrics = "none") = ~Live
    /\ app \in {"down", "serving", "refused"}

LifeInv == ClusterTypes /\ PodTypes /\ PodInv /\ ConfInv /\ PortInv /\ ExitsExplained

LEMMA MetricsPortType ==
  ASSUME NEW a \in Pods
  PROVE  MetricsPort(a) \in Ports
<1> DEFINE last == 65535
<1>1. 8080 <= last /\ last \in Nat
  OBVIOUS
<1>2. Ports = 1 .. last
  BY DEF Ports
<1> HIDE DEF last
<1>3. 8080 \in Ports
  BY <1>1, <1>2
<1> QED
  BY <1>3 DEF MetricsPort

\* The Secrets of the moment are a Secret state.
LEMMA SecretsTyped == ClusterTypes => secrets \in SecretStates
  BY PodBounds DEF ClusterTypes, SecretStates

LEMMA LifeInitInv == LifeInit => LifeInv
<1> SUFFICES ASSUME LifeInit PROVE LifeInv
  OBVIOUS
<1>1. ClusterTypes
  <2>1. PICK ks \in KeySets : secrets = [n \in Secrets |-> [generation |-> 0, keys |-> ks]]
    BY DEF LifeInit
  <2> QED
    BY <2>1, PodBounds DEF LifeInit, ClusterTypes
<1>2. PodTypes /\ PodInv /\ ConfInv /\ PortInv /\ ExitsExplained
  BY DEF LifeInit, PodTypes, Live, PodInv, ConfInv, PortInv, ExitsExplained
<1> QED
  BY <1>1, <1>2 DEF LifeInv

-----------------------------------------------------------------------------
(* One lemma for each thing a step may do.                                 *)

\* The Secrets change around the pod.
LEMMA WriteStep ==
  ASSUME LifeInv, NEW n \in Secrets, NEW ks \in KeySets, WriteSecret(n, ks)
  PROVE  LifeInv'
<1>1. PodTypes' /\ PodInv' /\ ConfInv' /\ PortInv' /\ ExitsExplained'
  BY DEF WriteSecret, LifeInv, PodTypes, Live, PodInv, ConfInv, PortInv, ExitsExplained
<1>2. /\ writes' = writes + 1 /\ writes < MaxWrites /\ writes \in 0 .. MaxWrites
      /\ secrets \in [Secrets -> [generation : 0 .. writes, keys : KeySets]]
      /\ secrets' = [secrets EXCEPT
           ![n] = [generation |-> secrets[n].generation + 1, keys |-> ks]]
  BY DEF LifeInv, ClusterTypes, WriteSecret
<1>3. writes' \in 0 .. MaxWrites
  BY <1>2, PodBounds
<1>4. secrets' \in [Secrets -> [generation : 0 .. writes', keys : KeySets]]
  <2>1. \A m \in Secrets : /\ secrets[m] \in [generation : 0 .. writes', keys : KeySets]
                           /\ secrets[m].generation + 1 \in 0 .. writes'
    BY <1>2
  <2> QED
    BY <1>2, <2>1
<1>5. ClusterTypes'
  BY <1>3, <1>4 DEF LifeInv, ClusterTypes, WriteSecret
<1> QED
  BY <1>1, <1>5 DEF LifeInv

LEMMA AdmitStep ==
  ASSUME LifeInv, NEW s \in ProfilerSpecs, NEW a \in Pods, Create(s, a)
  PROVE  LifeInv'
<1>1. ClusterTypes'
  BY DEF LifeInv, ClusterTypes, Create, counts
<1>2. PodTypes' /\ PodInv'
  BY DEF LifeInv, PodTypes, Live, PodInv, Create
<1>3. ConfInv' /\ PortInv' /\ ExitsExplained'
  BY DEF LifeInv, PodInv, ConfInv, PortInv, ExitsExplained, Create
<1> QED
  BY <1>1, <1>2, <1>3 DEF LifeInv

\* The application comes and goes.
LEMMA AppStep ==
  ASSUME LifeInv, AppStarts \/ AppCrashes
  PROVE  LifeInv'
<1>1. UNCHANGED <<secrets, annotations, env, admitted, sidecar, conf, metrics, writes>>
  BY DEF AppStarts, AppCrashes, counts
<1>2. ClusterTypes'
  <2>1. kills \in 0 .. MaxKills
    BY DEF LifeInv, ClusterTypes
  <2>2. kills' = kills \/ (kills < MaxKills /\ kills' = kills + 1)
    BY DEF AppStarts, AppCrashes, counts
  <2>3. kills' \in 0 .. MaxKills
    BY <2>1, <2>2, PodBounds
  <2> QED
    BY <1>1, <2>3 DEF LifeInv, ClusterTypes
<1>3. PodTypes' /\ PodInv' /\ ConfInv' /\ ExitsExplained'
  BY <1>1 DEF LifeInv, PodTypes, Live, PodInv, ConfInv, ExitsExplained, AppStarts, AppCrashes
<1>4. PortInv'
  <2>1. CASE AppCrashes
    BY <1>1, <2>1 DEF LifeInv, PortInv, AppCrashes
  <2>2. CASE AppStarts
    <3>1. metrics = "serving" => FollowsPod(conf, admitted, annotations)
      BY DEF LifeInv, PodTypes, Live, ConfInv
    <3> QED
      BY <1>1, <2>2, <3>1 DEF LifeInv, PortInv, AppStarts, FollowsPod
  <2> QED
    BY <2>1, <2>2
<1> QED
  BY <1>2, <1>3, <1>4 DEF LifeInv

LEMMA LoadOKStep ==
  ASSUME LifeInv, LoadOK
  PROVE  LifeInv'
<1>1. ClusterTypes' /\ PodTypes'
  BY DEF LifeInv, ClusterTypes, PodTypes, Live, LoadOK, counts
<1>2. sidecar # "absent" /\ annotations \in Pods /\ env = BuildProfilerSidecar(admitted, annotations)
  BY DEF LifeInv, PodInv, LoadOK, Started
<1>3. PodInv' /\ PortInv' /\ ExitsExplained'
  BY <1>2 DEF LifeInv, PodInv, PortInv, ExitsExplained, LoadOK
<1>4. ConfInv'
  <2>1. admitted \in ProfilerSpecs /\ secrets \in SecretStates
    BY SecretsTyped DEF LifeInv, ClusterTypes
  <2>2. /\ FollowsProfiler(conf', admitted) /\ FollowsPod(conf', admitted, annotations)
        /\ Credentials(conf')
    BY <1>2, <2>1, LoadedConfig, Zenon DEF LoadOK
  <2>3. admitted.bucket # ""
    BY <1>2, <2>1, UnusableWhen, Zenon DEF LoadOK
  <2> QED
    BY <2>2, <2>3 DEF ConfInv, LoadOK
<1> QED
  BY <1>1, <1>3, <1>4 DEF LifeInv

LEMMA LoadFailsStep ==
  ASSUME LifeInv, LoadFails
  PROVE  LifeInv'
<1>1. ClusterTypes' /\ PodTypes'
  BY DEF LifeInv, ClusterTypes, PodTypes, Live, LoadFails, Started, counts
<1>2. sidecar # "absent" /\ annotations \in Pods /\ env = BuildProfilerSidecar(admitted, annotations)
  BY DEF LifeInv, PodInv, LoadFails, Started
<1>3. PodInv' /\ ConfInv' /\ PortInv'
  BY <1>2 DEF LifeInv, PodInv, ConfInv, PortInv, LoadFails
<1>4. ExitsExplained'
  <2>1. admitted \in ProfilerSpecs
    BY DEF LifeInv, ClusterTypes
  <2>2. admitted.bucket = "" \/ ~annotations.token
    BY <1>2, <2>1, UnusableWhen, Zenon DEF LoadFails
  <2> QED
    BY <2>2 DEF ExitsExplained, LoadFails
<1> QED
  BY <1>1, <1>3, <1>4 DEF LifeInv

\* The sidecar runs, or is killed.
LEMMA SidecarStep ==
  ASSUME LifeInv, SidecarKilled \/ BindMetrics \/ StartMonitoring \/ TickerPanics
  PROVE  LifeInv'
<1>1. UNCHANGED <<secrets, annotations, env, admitted, conf, app, writes>>
  BY DEF SidecarKilled, BindMetrics, StartMonitoring, TickerPanics, counts
<1>2. sidecar \in {"loaded", "monitoring"} /\ sidecar' # "absent"
  BY DEF Live, SidecarKilled, BindMetrics, StartMonitoring, TickerPanics
<1>3. FollowsProfiler(conf, admitted) /\ FollowsPod(conf, admitted, annotations)
  BY <1>2 DEF LifeInv, ConfInv
<1>4. ClusterTypes'
  <2>1. kills \in 0 .. MaxKills
    BY DEF LifeInv, ClusterTypes
  <2>2. kills' = kills \/ (kills < MaxKills /\ kills' = kills + 1)
    BY DEF SidecarKilled, BindMetrics, StartMonitoring, TickerPanics, counts
  <2>3. kills' \in 0 .. MaxKills
    BY <2>1, <2>2, PodBounds
  <2> QED
    BY <1>1, <2>3 DEF LifeInv, ClusterTypes
<1>5. PodTypes'
  BY <1>1 DEF LifeInv, PodTypes, Live, SidecarKilled, BindMetrics, StartMonitoring, TickerPanics
<1>6. PodInv' /\ ConfInv'
  BY <1>1, <1>2 DEF LifeInv, PodInv, ConfInv
<1>7. PortInv'
  BY <1>1, <1>3 DEF LifeInv, PortInv, FollowsPod, SidecarKilled, BindMetrics, StartMonitoring,
     TickerPanics
<1>8. ExitsExplained'
  <2>1. admitted.period \in Int
    BY PodProfilers DEF ProfilerSpec, LifeInv, ClusterTypes
  <2>2. conf.period <= 0 => admitted.period < 0
    <3>1. conf.period = (IF admitted.period = 0 THEN 15 ELSE admitted.period)
      BY <1>3, Zenon DEF FollowsProfiler
    <3> QED
      BY <2>1, <3>1
  <2>3. sidecar' # "failed" /\ (sidecar' = "panicked" => conf.period <= 0)
    BY <1>2 DEF SidecarKilled, BindMetrics, StartMonitoring, TickerPanics
  <2> QED
    BY <1>1, <2>2, <2>3 DEF ExitsExplained
<1> QED
  BY <1>4, <1>5, <1>6, <1>7, <1>8 DEF LifeInv

LEMMA LifeStepInv == LifeInv /\ [LifeNext]_lifeVars => LifeInv'
<1> SUFFICES ASSUME LifeInv, [LifeNext]_lifeVars PROVE LifeInv'
  OBVIOUS
<1>1. CASE UNCHANGED lifeVars
  BY <1>1 DEF lifeVars, counts, LifeInv, ClusterTypes, PodTypes, Live, PodInv, ConfInv, PortInv,
     ExitsExplained
<1>2. CASE LifeNext
  BY <1>2, WriteStep, AdmitStep, AppStep, LoadOKStep, LoadFailsStep, SidecarStep DEF LifeNext
<1> QED
  BY <1>1, <1>2

LEMMA LifeInvariance == LifeSpec => []LifeInv
  BY LifeInitInv, LifeStepInv, PTL DEF LifeSpec

-----------------------------------------------------------------------------
(* Theorems.                                                               *)

LEMMA InvCredentials == LifeInv => Credentials(conf)
<1>1. /\ NoConf.awsId = NoCredential /\ NoConf.awsKey = NoCredential
      /\ NoConf.username = NoCredential /\ NoConf.password = NoCredential
  BY DEF NoConf
<1> QED
  BY <1>1, NoPair, Zenon DEF LifeInv, ConfInv, Credentials

\* Every variable keeps its type: the sidecar's port is a port, its
\* thresholds are percentages and its credentials name where they are from
\* whatever the Profiler, the annotations and the Secrets are.
THEOREM PodTypesKept == LifeSpec => []LifeTypeOK
<1>1. LifeInv => LifeTypeOK
  <2> SUFFICES ASSUME LifeInv PROVE LifeTypeOK
    OBVIOUS
  <2>1. annotations \in Pods \cup {NoAnnotations}
    BY DEF LifeInv, PodInv
  <2>2. \A n \in Secrets : secrets[n].keys \in KeySets /\ secrets[n].generation <= writes
    BY DEF LifeInv, ClusterTypes
  <2>3. ASSUME conf # NoConf
        PROVE  conf.port \in Ports /\ conf.cpu \in 0 .. 100 /\ conf.mem \in 0 .. 100
    <3>1. /\ FollowsProfiler(conf, admitted) /\ FollowsPod(conf, admitted, annotations)
          /\ admitted \in ProfilerSpecs /\ annotations \in Pods
      BY <2>3 DEF LifeInv, ConfInv, PodInv, ClusterTypes
    <3>2. admitted.cpu \in {NotSet} \cup 0 .. 100 /\ admitted.mem \in {NotSet} \cup 0 .. 100
      BY <3>1, PodProfilers DEF ProfilerSpec
    <3>3. /\ conf.port = MetricsPort(annotations)
          /\ conf.cpu = (IF admitted.cpu = NotSet THEN 80 ELSE admitted.cpu)
          /\ conf.mem = (IF admitted.mem = NotSet THEN 80 ELSE admitted.mem)
      BY <3>1, Zenon DEF FollowsProfiler, FollowsPod
    <3> QED
      BY <3>1, <3>2, <3>3, MetricsPortType
  <2>4. \A c \in {conf.awsId, conf.awsKey, conf.username, conf.password} : CredentialType(c)
    BY InvCredentials, Zenon DEF Credentials, Pair
  <2>5. writes <= MaxWrites /\ kills <= MaxKills
    BY PodBounds DEF LifeInv, ClusterTypes
  <2>6. ClusterTypes /\ PodTypes
    BY DEF LifeInv
  <2> QED
    BY <2>1, <2>2, <2>3, <2>4, <2>5, <2>6, Zenon DEF ClusterTypes, PodTypes, LifeTypeOK
<1> QED
  BY <1>1, LifeInvariance, PTL

\* The two halves of every credential the sidecar works with come from one
\* place as it was at one moment.
THEOREM PairsNeverMixed == LifeSpec => []CredentialsPaired
<1>1. LifeInv => CredentialsPaired
  <2> SUFFICES ASSUME LifeInv, NEW c \in {<<conf.awsId, conf.awsKey>>, <<conf.username, conf.password>>}
               PROVE  c[1].source = c[2].source /\ c[1].generation = c[2].generation
    BY DEF CredentialsPaired
  <2> QED
    BY InvCredentials DEF Credentials, Pair
<1> QED
  BY <1>1, LifeInvariance, PTL

LEMMA ConfigFollows == LifeInv => AdmittedConfig
  BY Zenon DEF LifeInv, ConfInv, Live, FollowsProfiler, AdmittedConfig

\* The sidecar runs with what the Profiler said at the admission of its pod.
THEOREM ConfigAsAdmitted == LifeSpec => []AdmittedConfig
  BY ConfigFollows, LifeInvariance, PTL

\* What the annotations of the pod say of the target goes before what the
\* Profiler says.
THEOREM PodHasTheLastWord == LifeSpec => []AnnotationsWin
<1>1. LifeInv => AnnotationsWin
  <2> SUFFICES ASSUME LifeInv, Live PROVE AnnotationsWin
    BY DEF AnnotationsWin
  <2>1. FollowsPod(conf, admitted, annotations)
    BY DEF LifeInv, ConfInv, Live
  <2>2. AuthType(admitted, annotations) = "Basic"
          <=> annotations.authType = "Basic" \/ (annotations.authType = "" /\ admitted.auth.type = "Basic")
    BY DEF AuthType, OrDefault
  <2>3. annotations.url # "" => conf.url = annotations.url
    BY <2>1, Zenon DEF FollowsPod, OrDefault
  <2> QED
    BY <2>1, <2>2, <2>3, Zenon DEF FollowsPod, Own, Unset, AnnotationsWin
<1> QED
  BY <1>1, LifeInvariance, PTL

\* A sidecar gives up only over the bucket, the token or the period it was
\* given at its admission.
THEOREM EveryExitExplained == LifeSpec => []ExitsExplained
<1>1. LifeInv => ExitsExplained
  BY DEF LifeInv
<1> QED
  BY <1>1, LifeInvariance, PTL

\* A pod that moves the metrics of its sidecar to a free port keeps both the
\* application and the metrics, in whatever order its containers start.
THEOREM PortsKeptApart == LifeSpec => []PortContention
<1>1. LifeInv => PortContention
  <2>1. annotations.port \in Ports \ {AppPort} => MetricsPort(annotations) # AppPort
    BY DEF MetricsPort
  <2> QED
    BY <2>1, Zenon DEF LifeInv, PortInv, PortContention
<1> QED
  BY <1>1, LifeInvariance, PTL
=============================================================================
