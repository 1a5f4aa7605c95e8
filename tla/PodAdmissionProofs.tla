-------------------------- MODULE PodAdmissionProofs --------------------------
(***************************************************************************)
(* Theorems about PodAdmission for any number of operators, requests,      *)
(* Profilers and pods.                                                     *)
(***************************************************************************)
EXTENDS PodAdmission, FiniteSetTheorems, WellFoundedInduction, TLAPS

-----------------------------------------------------------------------------
(* Induction, by way of the least number that would be an exception.       *)

LEMMA LessThanWellFounded == IsWellFoundedOn({ss \in Nat \X Nat : ss[1] < ss[2]}, Nat)
  BY NatLessThanWellFounded DEF OpToRel

LEMMA Induction ==
  ASSUME NEW n \in Nat, NEW Good,
         0 \in Good,
         \A i \in 1 .. n : i - 1 \in Good => i \in Good
  PROVE  n \in Good
<1> SUFFICES ASSUME n \notin Good PROVE FALSE
  OBVIOUS
<1> DEFINE R == {ss \in Nat \X Nat : ss[1] < ss[2]}
           Bad == (0 .. n) \ Good
<1>1. IsWellFoundedOn(R, Nat)
  BY LessThanWellFounded
<1>2. \A y, m \in Nat : y < m => <<y, m>> \in R
  OBVIOUS
<1>3. Bad \subseteq Nat /\ Bad # {}
  OBVIOUS
<1> HIDE DEF R
<1>4. PICK m \in Bad : \A y \in Bad : ~(<<y, m>> \in R)
  BY <1>1, <1>3, WFMin
<1>5. m \in 1 .. n /\ m - 1 \in 0 .. n /\ m - 1 \in Nat /\ m - 1 < m
  OBVIOUS
<1>6. m - 1 \in Bad
  BY <1>4, <1>5
<1> QED
  BY <1>2, <1>3, <1>4, <1>5, <1>6

-----------------------------------------------------------------------------
(* The loop that takes the sidecar out.                                    *)

KeptStep(cs, f, i) ==
  IF i = 0 THEN <<>>
  ELSE IF cs[i].name = Sidecar THEN f[i - 1] ELSE Append(f[i - 1], cs[i])
KeptUpTo(cs, n, f) == f = [i \in 0 .. n |-> KeptStep(cs, f, i)]

LEMMA KeptExists ==
  ASSUME NEW cs, Len(cs) \in Nat
  PROVE  \E f : KeptUpTo(cs, Len(cs), f)
<1> DEFINE Good == {n \in 0 .. Len(cs) : \E f : KeptUpTo(cs, n, f)}
<1>1. 0 \in Good
  <2>1. KeptUpTo(cs, 0, [i \in 0 .. 0 |-> <<>>])
    BY DEF KeptUpTo, KeptStep
  <2> QED
    BY <2>1
<1>2. ASSUME NEW n \in 1 .. Len(cs), n - 1 \in Good PROVE n \in Good
  <2>1. PICK f : KeptUpTo(cs, n - 1, f)
    BY <1>2
  <2> DEFINE g == [i \in 0 .. n |-> IF i < n THEN f[i] ELSE KeptStep(cs, f, n)]
  <2>2. \A i \in 0 .. n : KeptStep(cs, g, i) = KeptStep(cs, f, i)
    BY DEF KeptStep
  <2>3. \A i \in 0 .. n - 1 : f[i] = KeptStep(cs, f, i)
    BY <2>1 DEF KeptUpTo
  <2>4. \A i \in 0 .. n : g[i] = KeptStep(cs, f, i)
    BY <2>3
  <2>5. g = [i \in 0 .. n |-> KeptStep(cs, g, i)]
    BY <2>2, <2>4
  <2>6. KeptUpTo(cs, n, g)
    BY <2>5 DEF KeptUpTo
  <2> HIDE DEF g
  <2> QED
    BY <2>6
<1> HIDE DEF Good
<1>3. Len(cs) \in Good
  BY <1>1, <1>2, Induction
<1> QED
  BY <1>3 DEF Good

\* After each container the loop has kept what it had and, unless it is the
\* sidecar, this one.
LEMMA KeptDef ==
  ASSUME NEW cs, Len(cs) \in Nat, NEW i \in 0 .. Len(cs)
  PROVE  Kept(cs)[i] = KeptStep(cs, Kept(cs), i)
<1>1. Kept(cs) = CHOOSE f : KeptUpTo(cs, Len(cs), f)
  BY DEF Kept, KeptUpTo, KeptStep
<1>2. KeptUpTo(cs, Len(cs), Kept(cs))
  BY <1>1, KeptExists
<1> QED
  BY <1>2 DEF KeptUpTo

\* The first step and the others.
LEMMA KeptFirst ==
  ASSUME NEW cs, Len(cs) \in Nat
  PROVE  Kept(cs)[0] = <<>>
<1>1. 0 \in 0 .. Len(cs)
  OBVIOUS
<1> QED
  BY <1>1, KeptDef DEF KeptStep

LEMMA KeptNext ==
  ASSUME NEW cs, Len(cs) \in Nat, NEW n \in 1 .. Len(cs)
  PROVE  Kept(cs)[n] = IF cs[n].name = Sidecar THEN Kept(cs)[n - 1]
                       ELSE Append(Kept(cs)[n - 1], cs[n])
<1>1. n \in 0 .. Len(cs) /\ n # 0
  OBVIOUS
<1> QED
  BY <1>1, KeptDef DEF KeptStep

Clean(C, ks) == ks \in Seq(C) /\ \A j \in DOMAIN ks : ks[j].name # Sidecar

LEMMA CleanAppend ==
  ASSUME NEW C, NEW ks, Clean(C, ks), NEW c \in C, c.name # Sidecar
  PROVE  Clean(C, Append(ks, c))
  BY DEF Clean

\* What is left has no sidecar.
LEMMA AppClean ==
  ASSUME NEW C, NEW cs \in Seq(C)
  PROVE  App(cs) \in Seq(C) /\ ~HasSidecar(App(cs))
<1> DEFINE Good == {n \in 0 .. Len(cs) : Clean(C, Kept(cs)[n])}
<1>1. Len(cs) \in Nat /\ \A n \in 1 .. Len(cs) : cs[n] \in C
  OBVIOUS
<1>2. 0 \in Good
  <2>1. Clean(C, <<>>)
    BY DEF Clean
  <2> QED
    BY <1>1, <2>1, KeptFirst
<1>3. ASSUME NEW n \in 1 .. Len(cs), n - 1 \in Good PROVE n \in Good
  BY <1>1, <1>3, KeptNext, CleanAppend
<1> HIDE DEF Good
<1>4. Len(cs) \in Good
  BY <1>1, <1>2, <1>3, Induction
<1> QED
  BY <1>4 DEF Good, App, Clean, HasSidecar

\* Where there is no sidecar everything is left.
Prefix(C, ks, cs, n) ==
  ks \in Seq(C) /\ Len(ks) = n /\ \A j \in 1 .. n : ks[j] = cs[j]

LEMMA PrefixAppend ==
  ASSUME NEW C, NEW cs \in Seq(C), NEW n \in 1 .. Len(cs), NEW ks, Prefix(C, ks, cs, n - 1)
  PROVE  Prefix(C, Append(ks, cs[n]), cs, n)
  BY DEF Prefix

LEMMA AppOfClean ==
  ASSUME NEW C, NEW cs \in Seq(C), ~HasSidecar(cs)
  PROVE  App(cs) = cs
<1> DEFINE Good == {n \in 0 .. Len(cs) : Prefix(C, Kept(cs)[n], cs, n)}
<1>1. Len(cs) \in Nat /\ \A n \in 1 .. Len(cs) : cs[n].name # Sidecar
  BY DEF HasSidecar
<1>2. 0 \in Good
  <2>1. Prefix(C, <<>>, cs, 0)
    BY DEF Prefix
  <2> QED
    BY <1>1, <2>1, KeptFirst
<1>3. ASSUME NEW n \in 1 .. Len(cs), n - 1 \in Good PROVE n \in Good
  BY <1>1, <1>3, KeptNext, PrefixAppend
<1> HIDE DEF Good
<1>4. Len(cs) \in Good
  BY <1>1, <1>2, <1>3, Induction
<1>5. Prefix(C, App(cs), cs, Len(cs))
  BY <1>4 DEF Good, App
<1> QED
  BY <1>5 DEF Prefix

\* A sidecar at the end makes no difference to what is left.
LEMMA AppOfAppended ==
  ASSUME NEW C, NEW cs \in Seq(C), NEW c, c.name = Sidecar
  PROVE  App(Append(cs, c)) = App(cs)
<1> DEFINE more == Append(cs, c)
           Good == {n \in 0 .. Len(cs) : Kept(more)[n] = Kept(cs)[n]}
<1>1. /\ Len(cs) \in Nat
      /\ Len(more) = Len(cs) + 1 /\ more[Len(cs) + 1] = c
      /\ \A n \in 1 .. Len(cs) : more[n] = cs[n] /\ n \in 1 .. Len(more)
  OBVIOUS
<1> HIDE DEF more
<1>2. 0 \in Good
  BY <1>1, KeptFirst
<1>3. ASSUME NEW n \in 1 .. Len(cs), n - 1 \in Good PROVE n \in Good
  <2>1. /\ Kept(more)[n] = IF more[n].name = Sidecar THEN Kept(more)[n - 1]
                           ELSE Append(Kept(more)[n - 1], more[n])
        /\ more[n] = cs[n]
    BY <1>1, KeptNext
  <2>2. Kept(cs)[n] = IF cs[n].name = Sidecar THEN Kept(cs)[n - 1]
                      ELSE Append(Kept(cs)[n - 1], cs[n])
    BY <1>1, KeptNext
  <2> QED
    BY <1>3, <2>1, <2>2
<1> HIDE DEF Good
<1>4. Len(cs) \in Good
  BY <1>1, <1>2, <1>3, Induction
<1>5. Kept(more)[Len(more)] = Kept(more)[Len(cs)]
  BY <1>1, KeptNext
<1> QED
  BY <1>4, <1>5 DEF Good, App, more

-----------------------------------------------------------------------------
(* The invariant, for each request: what its handler has found out, what   *)
(* the answer says, and what the cluster holds because of it.              *)

Handling == {"decode", "removed", "list", "attach", "attached"}

\* Sidecar c is configured from the named Profiler, in version n or a later one.
Sourced(r, c, n) ==
  \E v \in DOMAIN versions : \E p \in versions[v] :
    v >= n /\ Named(pod[r], p) /\ c = SidecarOf(p)

\* There was a moment without the Profiler the pod names.
Unserved(r) == \E v \in DOMAIN versions : \A p \in versions[v] : ~Named(pod[r], p)

\* What a handler knows at label l.
Known(r, l, c, n) ==
  /\ l = "removed" => Disabled(pod[r]) /\ HasSidecar(pod[r].containers)
  /\ l \in {"list", "attach", "attached"} => ~Disabled(pod[r])
  /\ l \in {"attach", "attached"} => Sourced(r, c, n)

\* What answer a says of the pod.
Truthful(r, a, n) ==
  /\ a.kind = "patch" =>
       IF Disabled(pod[r])
       THEN HasSidecar(pod[r].containers) /\ a.containers = App(pod[r].containers)
       ELSE \E c : Sourced(r, c, n) /\ a.containers = Append(pod[r].containers, c)
  /\ a.kind = "allowed" =>
       IF Disabled(pod[r]) THEN ~HasSidecar(pod[r].containers) ELSE Unserved(r)
  /\ a.kind = "errored" => Unserved(r) \/ ~Buildable(pod[r])

PhaseInv(r) ==
  /\ call[r] = "unsent" => handler[r].pc = "none"
  /\ call[r] \in {"unsent", "calling"} => cluster[r].phase = "absent"
  /\ call[r] # "unsent" => pod[r] \in Specs
  /\ IF handler[r].pc = "none" THEN handler[r].op = "none" ELSE handler[r].op \in Operators
  /\ handler[r].pc \in Handling =>
       handler[r].op \in up /\ handler[r].since <= seen[handler[r].op]
  /\ handler[r].pc \in Handling \cup {"none"} => handler[r].answer.kind = "none"
  /\ handler[r].pc = "replied" => handler[r].answer.kind # "none"
  /\ call[r] = "answered" => handler[r].answer.kind # "none"

HandlerInv(r) ==
  /\ Known(r, handler[r].pc, handler[r].sidecar, handler[r].since)
  /\ Truthful(r, handler[r].answer, handler[r].since)

\* Answer a leads to a refusal, by itself or by the containers it leaves.
Turned(r, a) ==
  \/ Refusal(a)
  \/ a.kind = "allowed" /\ ~Valid(pod[r].containers)
  \/ a.kind = "patch" /\ ~Valid(a.containers)

ClusterInv(r) ==
  /\ cluster[r].phase \in Admitted =>
       /\ Valid(cluster[r].containers)
       /\ \/ cluster[r].containers = pod[r].containers
          \/ handler[r].answer.kind = "patch"
             /\ cluster[r].containers = handler[r].answer.containers
  /\ call[r] = "answered" =>
       \/ cluster[r].phase = "refused" /\ Turned(r, handler[r].answer)
       \/ handler[r].answer.kind = "allowed" /\ cluster[r].containers = pod[r].containers
       \/ handler[r].answer.kind = "patch"
          /\ cluster[r].containers = handler[r].answer.containers

RequestInv(r) == PhaseInv(r) /\ HandlerInv(r) /\ ClusterInv(r)

Inv == CacheOK /\ RequestsOK /\ \A r \in Requests : RequestInv(r)

-----------------------------------------------------------------------------
(* What a step leaves alone stays true.                                    *)

\* Versions are only added.
Grows == \A v \in DOMAIN versions : v \in DOMAIN versions' /\ versions'[v] = versions[v]

LEMMA SourcedStays ==
  ASSUME Grows, NEW r, UNCHANGED pod[r], NEW c, NEW n, Sourced(r, c, n)
  PROVE  Sourced(r, c, n)'
  BY DEF Grows, Sourced

LEMMA UnservedStays ==
  ASSUME Grows, NEW r, UNCHANGED pod[r], Unserved(r)
  PROVE  Unserved(r)'
  BY DEF Grows, Unserved

\* A request that a step does not touch, while the caches only move on.
LEMMA Untouched ==
  ASSUME Grows, NEW q \in Requests, RequestInv(q),
         UNCHANGED <<pod[q], call[q], handler[q], cluster[q]>>,
         handler[q].pc \in Handling =>
           handler[q].op \in up' /\ handler[q].since <= seen'[handler[q].op]
  PROVE  RequestInv(q)'
<1>1. PhaseInv(q)'
  BY DEF RequestInv, PhaseInv
<1>2. HandlerInv(q)'
  <2>1. Known(q, handler[q].pc, handler[q].sidecar, handler[q].since)'
    BY SourcedStays DEF RequestInv, HandlerInv, Known
  <2>2. Truthful(q, handler[q].answer, handler[q].since)'
    <3>1. Truthful(q, handler[q].answer, handler[q].since)
      BY DEF RequestInv, HandlerInv
    <3>2. /\ pod'[q] = pod[q] /\ handler'[q] = handler[q]
          /\ Unserved(q) => Unserved(q)'
          /\ \A c, n : Sourced(q, c, n) => Sourced(q, c, n)'
      BY SourcedStays, UnservedStays
    <3> QED
      BY <3>1, <3>2 DEF Truthful
  <2> QED
    BY <2>1, <2>2 DEF HandlerInv
<1>3. ClusterInv(q)'
  BY DEF RequestInv, ClusterInv, Turned
<1> QED
  BY <1>1, <1>2, <1>3 DEF RequestInv

\* Labels and answers of handlers keep their type when versions are added.
LEMMA HandlersGrow ==
  ASSUME CacheOK, CacheOK', Grows
  PROVE  Handlers \subseteq Handlers'
<1>1. 0 .. Len(versions) \subseteq 0 .. Len(versions')
  <2>1. Len(versions) \in DOMAIN versions /\ Len(versions') \in Nat
    BY DEF CacheOK
  <2>2. Len(versions) \in DOMAIN versions'
    BY <2>1 DEF Grows
  <2> QED
    BY <2>1, <2>2 DEF CacheOK
<1> QED
  BY <1>1 DEF Handlers

\* A step of the cluster that touches no request.
LEMMA CacheStep ==
  ASSUME Inv, CacheOK', Grows, UNCHANGED <<pod, call, handler, cluster>>,
         \A q \in Requests : handler[q].pc \in Handling =>
           handler[q].op \in up' /\ handler[q].since <= seen'[handler[q].op]
  PROVE  Inv'
<1>1. RequestsOK'
  BY HandlersGrow DEF Inv, RequestsOK
<1>2. ASSUME NEW q \in Requests PROVE RequestInv(q)'
  BY Untouched DEF Inv
<1> QED
  BY <1>1, <1>2 DEF Inv

\* What a live handler has read is no newer than what its operator has.
LEMMA LiveFacts ==
  ASSUME Inv, NEW q \in Requests, handler[q].pc \in Handling
  PROVE  /\ handler[q].op \in Operators \cap up
         /\ handler[q].since \in Nat /\ seen[handler[q].op] \in Nat
         /\ handler[q].since <= seen[handler[q].op]
<1>1. /\ handler[q].op \in up /\ handler[q].op \in Operators
      /\ handler[q].since <= seen[handler[q].op]
  BY DEF Inv, RequestInv, PhaseInv, CacheOK
<1>2. handler[q].since \in Nat
  BY DEF Inv, RequestsOK, Handlers
<1> QED
  BY <1>1, <1>2 DEF Inv, CacheOK

LEMMA ChangeInv ==
  ASSUME Inv, NEW p \in Profilers, ChangeProfilers(p)
  PROVE  Inv'
<1> DEFINE last == versions[Len(versions)]
           rest == {q \in last : ~SameKey(p, q)}
           next == IF p \in last THEN rest ELSE rest \cup {p}
<1>1. next \in SUBSET Profilers
  <2>1. last \in SUBSET Profilers
    BY DEF Inv, CacheOK
  <2> QED
    BY <2>1
<1>2. /\ versions' = Append(versions, next)
      /\ UNCHANGED <<seen, up, crashes, pod, call, handler, cluster>>
  BY DEF ChangeProfilers, Change
<1> HIDE DEF next
<1>3. /\ versions' \in Seq(SUBSET Profilers) /\ versions' # <<>>
      /\ Len(versions') = Len(versions) + 1
      /\ Grows
  BY <1>1, <1>2 DEF Inv, CacheOK, Grows
<1>4. CacheOK'
  <2>1. 0 .. Len(versions) \subseteq 0 .. Len(versions')
    BY <1>3 DEF Inv, CacheOK
  <2> QED
    BY <1>2, <1>3, <2>1 DEF Inv, CacheOK
<1> QED
  BY <1>2, <1>3, <1>4, CacheStep, LiveFacts

\* The cache of an operator catches up.
LEMMA SyncInv ==
  ASSUME Inv, NEW o \in Operators, NEW v \in (seen[o] + 1) .. Len(versions),
         seen' = [seen EXCEPT ![o] = v],
         UNCHANGED <<versions, up, crashes, pod, call, handler, cluster>>
  PROVE  Inv'
<1>1. v \in 0 .. Len(versions) /\ seen[o] \in Nat /\ v \in Nat /\ seen[o] <= v
  BY DEF Inv, CacheOK
<1>2. CacheOK' /\ Grows
  BY <1>1 DEF Inv, CacheOK, Grows
<1>3. ASSUME NEW q \in Requests, handler[q].pc \in Handling
      PROVE  handler[q].op \in up' /\ handler[q].since <= seen'[handler[q].op]
  <2>1. /\ handler[q].op \in Operators \cap up /\ handler[q].since \in Nat
        /\ seen[handler[q].op] \in Nat /\ handler[q].since <= seen[handler[q].op]
    BY <1>3, LiveFacts
  <2> QED
    BY <1>1, <2>1 DEF Inv, CacheOK
<1> QED
  BY <1>2, <1>3, CacheStep

\* No handler runs on an operator that is only starting.
LEMMA StartInv ==
  ASSUME Inv, NEW o \in Operators \ up, up' \in {up, up \cup {o}},
         seen' = [seen EXCEPT ![o] = 0],
         UNCHANGED <<versions, crashes, pod, call, handler, cluster>>
  PROVE  Inv'
<1>1. CacheOK' /\ Grows
  <2>1. 0 \in 0 .. Len(versions)
    BY DEF Inv, CacheOK
  <2> QED
    BY <2>1 DEF Inv, CacheOK, Grows
<1>2. ASSUME NEW q \in Requests, handler[q].pc \in Handling
      PROVE  handler[q].op \in up' /\ handler[q].since <= seen'[handler[q].op]
  BY <1>2, LiveFacts DEF Inv, CacheOK
<1> QED
  BY <1>1, <1>2, CacheStep

\* A crash ends the handlers of an operator; their answers that were applied
\* stay what they were.
LEMMA GoneInv ==
  ASSUME Inv, NEW o \in Operators, Gone(o), UNCHANGED cacheVars, crashes' \in 0 .. MaxCrashes
  PROVE  Inv'
<1>1. /\ up' = up \ {o} /\ UNCHANGED <<versions, seen, pod, call, cluster>>
      /\ handler' = [q \in Requests |-> IF handler[q].op = o
                                        THEN [handler[q] EXCEPT !.pc = "lost"] ELSE handler[q]]
  BY DEF Gone, cacheVars
<1>2. CacheOK' /\ Grows
  BY <1>1 DEF Inv, CacheOK, Grows
<1>3. ASSUME NEW q \in Requests, handler[q].op = o
      PROVE  /\ handler'[q] \in Handlers /\ handler'[q].pc = "lost"
             /\ handler'[q].op = handler[q].op /\ handler'[q].answer = handler[q].answer
             /\ handler'[q].since = handler[q].since
  <2>1. handler'[q] = [handler[q] EXCEPT !.pc = "lost"] /\ handler[q] \in Handlers
    BY <1>1, <1>3 DEF Inv, RequestsOK
  <2> QED
    BY <2>1 DEF Handlers, Labels
<1>4. RequestsOK'
  <2>1. Handlers' = Handlers
    BY <1>1 DEF Handlers
  <2>2. \A q \in Requests : handler'[q] \in Handlers
    BY <1>1, <1>3 DEF Inv, RequestsOK
  <2>3. handler' \in [Requests -> Handlers]
    BY <1>1, <2>2
  <2> QED
    BY <1>1, <2>1, <2>3 DEF Inv, RequestsOK
<1>5. ASSUME NEW q \in Requests PROVE RequestInv(q)'
  <2>1. CASE handler[q].op # o
    <3>1. UNCHANGED <<pod[q], call[q], handler[q], cluster[q]>>
      BY <1>1, <2>1
    <3> QED
      BY <1>1, <1>2, <2>1, <3>1, LiveFacts, Untouched DEF Inv
  <2>2. CASE handler[q].op = o
    <3>1. handler[q].pc # "none"
      BY <2>2, OperatorsAssumption DEF Inv, RequestInv, PhaseInv
    <3>2. PhaseInv(q)'
      BY <1>1, <1>3, <2>2, <3>1 DEF Inv, RequestInv, PhaseInv, Handling
    <3>3. HandlerInv(q)'
      <4>1. Truthful(q, handler[q].answer, handler[q].since)
        BY DEF Inv, RequestInv, HandlerInv
      <4>2. /\ Unserved(q) => Unserved(q)'
            /\ \A c, n : Sourced(q, c, n) => Sourced(q, c, n)'
        BY <1>1 DEF Unserved, Sourced
      <4> QED
        BY <1>1, <1>3, <2>2, <4>1, <4>2 DEF HandlerInv, Known, Truthful
    <3>4. ClusterInv(q)'
      BY <1>1, <1>3, <2>2 DEF Inv, RequestInv, ClusterInv, Turned
    <3> QED
      BY <3>2, <3>3, <3>4 DEF RequestInv
  <2> QED
    BY <2>1, <2>2
<1> QED
  BY <1>2, <1>4, <1>5 DEF Inv

-----------------------------------------------------------------------------
(* The client side of a request.                                           *)

\* A step of request r: the others are as they were.
LEMMA OneRequest ==
  ASSUME Inv, NEW r \in Requests, UNCHANGED <<versions, seen, up, crashes>>, RequestsOK',
         \A q \in Requests \ {r} : UNCHANGED <<pod[q], call[q], handler[q], cluster[q]>>,
         RequestInv(r)'
  PROVE  Inv'
<1>1. CacheOK' /\ Grows
  BY DEF Inv, CacheOK, Grows
<1>2. ASSUME NEW q \in Requests \ {r} PROVE RequestInv(q)'
  BY <1>1, <1>2, LiveFacts, Untouched DEF Inv
<1> QED
  BY <1>1, <1>2 DEF Inv

\* What is known of r's handler and answer does not depend on the rest of it.
LEMMA KnowledgeStays ==
  ASSUME Inv, NEW r \in Requests, UNCHANGED <<versions, pod, handler>>
  PROVE  HandlerInv(r)'
<1>1. HandlerInv(r)
  BY DEF Inv, RequestInv
<1>2. Unserved(r)' = Unserved(r) /\ \A c, n : Sourced(r, c, n)' = Sourced(r, c, n)
  BY DEF Unserved, Sourced
<1> QED
  BY <1>1, <1>2 DEF HandlerInv, Known, Truthful

LEMMA SubmitInv ==
  ASSUME Inv, NEW r \in Requests, NEW s \in Specs, Submit(r, s)
  PROVE  Inv'
<1>1. /\ call[r] = "unsent" /\ call' = [call EXCEPT ![r] = "calling"]
      /\ pod' = [pod EXCEPT ![r] = s]
      /\ UNCHANGED <<versions, seen, up, crashes, handler, cluster>>
  BY DEF Submit, Ask, cacheVars
<1>2. RequestsOK'
  BY <1>1 DEF Inv, RequestsOK, Handlers
<1>3. call'[r] = "calling" /\ pod'[r] = s
  BY <1>1 DEF Inv, RequestsOK
<1>4. handler[r].pc = "none" /\ cluster[r].phase = "absent" /\ handler[r].answer.kind = "none"
  BY <1>1 DEF Inv, RequestInv, PhaseInv, Handling
<1>5. RequestInv(r)'
  BY <1>1, <1>3, <1>4
  DEF Inv, RequestInv, PhaseInv, HandlerInv, ClusterInv, Known, Truthful, Handling, Admitted
<1>6. \A q \in Requests \ {r} : UNCHANGED <<pod[q], call[q], handler[q], cluster[q]>>
  BY <1>1 DEF Inv, RequestsOK
<1> QED
  BY <1>1, <1>2, <1>5, <1>6, OneRequest

LEMMA ReceiveInv ==
  ASSUME Inv, NEW r \in Requests, NEW o \in Operators, Receive(r, o)
  PROVE  Inv'
<1> DEFINE h == [NoHandler EXCEPT !.pc = "decode", !.op = o, !.since = seen[o]]
<1>1. /\ call[r] = "calling" /\ o \in up /\ handler[r].pc = "none"
      /\ handler' = [handler EXCEPT ![r] = h]
      /\ UNCHANGED <<versions, seen, up, crashes, pod, call, cluster>>
  BY DEF Receive, cacheVars
<1>2. /\ h.pc = "decode" /\ h.op = o /\ h.since = seen[o] /\ h.answer.kind = "none"
      /\ h \in Handlers
  BY DEF NoHandler, NoAnswer, Inv, CacheOK, Handlers, Labels, Answers, Containers
<1> HIDE DEF h
<1>3. handler'[r] = h /\ \A q \in Requests \ {r} : handler'[q] = handler[q]
  BY <1>1 DEF Inv, RequestsOK
<1>4. RequestsOK'
  BY <1>1, <1>2 DEF Inv, RequestsOK, Handlers
<1>5. RequestInv(r)'
  <2>1. PhaseInv(r)'
    <3>1. seen[o] <= seen[o]
      BY DEF Inv, CacheOK
    <3> QED
      BY <1>1, <1>2, <1>3, <3>1, OperatorsAssumption DEF Inv, RequestInv, PhaseInv, Handling
  <2>2. HandlerInv(r)'
    BY <1>2, <1>3 DEF HandlerInv, Known, Truthful
  <2>3. ClusterInv(r)'
    BY <1>1, <1>2, <1>3 DEF Inv, RequestInv, PhaseInv, ClusterInv, Handling
  <2> QED
    BY <2>1, <2>2, <2>3 DEF RequestInv
<1> QED
  BY <1>1, <1>3, <1>4, <1>5, OneRequest

\* The outcome for containers cs.
LEMMA OutcomeFacts ==
  ASSUME NEW r, NEW cs \in Containers
  PROVE  /\ Outcome(r, cs) \in [phase : Admitted \cup {"absent", "refused"},
                                containers : Containers]
         /\ (Outcome(r, cs).phase = "refused" /\ ~Valid(cs))
            \/ (Valid(cs) /\ Outcome(r, cs).containers = cs)
  BY DEF Outcome, Admitted, Containers

LEMMA AdmitInv ==
  ASSUME Inv, NEW r \in Requests, Admit(r)
  PROVE  Inv'
<1> DEFINE a == handler[r].answer
           out == CASE Refusal(a) -> [phase |-> "refused", containers |-> <<>>]
                    [] a.kind = "allowed" -> Outcome(r, pod[r].containers)
                    [] OTHER -> Outcome(r, a.containers)
<1>1. /\ call[r] = "calling" /\ handler[r].pc = "replied"
      /\ call' = [call EXCEPT ![r] = "answered"] /\ cluster' = [cluster EXCEPT ![r] = out]
      /\ UNCHANGED <<versions, seen, up, crashes, pod, handler>>
  BY DEF Admit, cacheVars
<1>2. /\ pod[r] \in Specs /\ a \in Answers
      /\ Refusal(a) \/ a.kind \in {"allowed", "patch"}
  BY <1>1 DEF Refusal, Inv, RequestInv, PhaseInv, RequestsOK, Handlers, Answers
<1>3. pod[r].containers \in Containers /\ a.containers \in Containers
  BY <1>2 DEF Containers, Answers
<1>4. /\ out \in [phase : Admitted \cup {"absent", "refused"}, containers : Containers]
      /\ \/ out.phase = "refused" /\ Turned(r, a)
         \/ a.kind = "allowed" /\ Valid(pod[r].containers) /\ out.containers = pod[r].containers
         \/ a.kind = "patch" /\ Valid(a.containers) /\ out.containers = a.containers
  <2>1. CASE Refusal(a)
    <3>1. out = [phase |-> "refused", containers |-> <<>>]
      BY <2>1 DEF Refusal
    <3> QED
      BY <2>1, <3>1 DEF Containers, Turned
  <2>2. CASE a.kind = "allowed"
    <3>1. out = Outcome(r, pod[r].containers)
      BY <2>2 DEF Refusal
    <3> QED
      BY <1>3, <2>2, <3>1, OutcomeFacts DEF Turned
  <2>3. CASE a.kind = "patch"
    <3>1. out = Outcome(r, a.containers)
      BY <2>3 DEF Refusal
    <3> QED
      BY <1>3, <2>3, <3>1, OutcomeFacts DEF Turned
  <2> QED
    BY <1>2, <2>1, <2>2, <2>3
<1> HIDE DEF out
<1>5. /\ call'[r] = "answered" /\ cluster'[r] = out
      /\ \A q \in Requests \ {r} : call'[q] = call[q] /\ cluster'[q] = cluster[q]
  BY <1>1 DEF Inv, RequestsOK
<1>6. RequestsOK'
  BY <1>1, <1>4 DEF Inv, RequestsOK, Handlers
<1>7. RequestInv(r)'
  <2>1. PhaseInv(r)'
    BY <1>1, <1>2, <1>5 DEF Inv, RequestInv, PhaseInv
  <2>2. ClusterInv(r)'
    <3>1. Turned(r, a) => Turned(r, handler[r].answer)'
      BY <1>1 DEF Turned, Refusal
    <3> QED
      BY <1>1, <1>4, <1>5, <3>1 DEF ClusterInv, Admitted
  <2> QED
    BY <1>1, <2>1, <2>2, KnowledgeStays DEF RequestInv
<1> QED
  BY <1>1, <1>5, <1>6, <1>7, OneRequest

LEMMA IgnoreInv ==
  ASSUME Inv, NEW r \in Requests, Ignore(r)
  PROVE  Inv'
<1> DEFINE out == Outcome(r, pod[r].containers)
<1>1. /\ call[r] = "calling" /\ call' = [call EXCEPT ![r] = "ignored"]
      /\ cluster' = [cluster EXCEPT ![r] = out]
      /\ UNCHANGED <<versions, seen, up, crashes, pod, handler>>
  BY DEF Ignore, GiveUp, cacheVars
<1>2. pod[r] \in Specs /\ pod[r].containers \in Containers
  BY <1>1 DEF Inv, RequestInv, PhaseInv, Containers
<1>3. /\ out \in [phase : Admitted \cup {"absent", "refused"}, containers : Containers]
      /\ out.phase = "refused" \/ (Valid(pod[r].containers) /\ out.containers = pod[r].containers)
  BY <1>2, OutcomeFacts
<1> HIDE DEF out
<1>4. /\ call'[r] = "ignored" /\ cluster'[r] = out
      /\ \A q \in Requests \ {r} : call'[q] = call[q] /\ cluster'[q] = cluster[q]
  BY <1>1 DEF Inv, RequestsOK
<1>5. RequestsOK'
  BY <1>1, <1>3 DEF Inv, RequestsOK, Handlers
<1>6. RequestInv(r)'
  <2>1. PhaseInv(r)'
    BY <1>1, <1>2, <1>4 DEF Inv, RequestInv, PhaseInv
  <2>2. ClusterInv(r)'
    BY <1>1, <1>3, <1>4 DEF ClusterInv, Admitted
  <2> QED
    BY <1>1, <2>1, <2>2, KnowledgeStays DEF RequestInv
<1> QED
  BY <1>1, <1>4, <1>5, <1>6, OneRequest

LEMMA DeleteInv ==
  ASSUME Inv, NEW r \in Requests, Delete(r)
  PROVE  Inv'
<1>1. /\ cluster[r].phase = "running"
      /\ cluster' = [cluster EXCEPT ![r] = [cluster[r] EXCEPT !.phase = "deleted"]]
      /\ UNCHANGED <<versions, seen, up, crashes, pod, call, handler>>
  BY DEF Delete, EndPod, cacheVars
<1>2. /\ cluster'[r].phase = "deleted" /\ cluster'[r].containers = cluster[r].containers
      /\ cluster'[r] \in [phase : Admitted \cup {"absent", "refused"}, containers : Containers]
      /\ \A q \in Requests \ {r} : cluster'[q] = cluster[q]
  BY <1>1 DEF Inv, RequestsOK, Admitted
<1>3. RequestsOK'
  BY <1>1, <1>2 DEF Inv, RequestsOK, Handlers
<1>4. RequestInv(r)'
  <2>1. PhaseInv(r)' /\ ClusterInv(r)'
    BY <1>1, <1>2 DEF Inv, RequestInv, PhaseInv, ClusterInv, Admitted
  <2> QED
    BY <1>1, <2>1, KnowledgeStays DEF RequestInv
<1> QED
  BY <1>1, <1>2, <1>3, <1>4, OneRequest

-----------------------------------------------------------------------------
(* The steps of the handler.                                               *)

\* The handler of request r goes on as h.
LEMMA HandlerStep ==
  ASSUME Inv, NEW r \in Requests, handler[r].pc \in Handling, NEW h \in Handlers,
         handler' = [handler EXCEPT ![r] = h],
         UNCHANGED <<versions, seen, up, crashes, pod, call, cluster>>,
         h.op = handler[r].op, h.pc \in Handling \cup {"replied"},
         h.pc \in Handling => h.since = handler[r].since /\ h.answer.kind = "none",
         h.pc = "replied" => h.answer.kind # "none",
         Known(r, h.pc, h.sidecar, h.since), Truthful(r, h.answer, h.since)
  PROVE  Inv'
<1>1. handler'[r] = h /\ \A q \in Requests \ {r} : handler'[q] = handler[q]
  BY DEF Inv, RequestsOK
<1>2. RequestsOK'
  BY DEF Inv, RequestsOK, Handlers
<1>3. /\ handler[r].op \in Operators \cap up /\ handler[r].pc # "none"
      /\ handler[r].since <= seen[handler[r].op] /\ handler[r].answer.kind = "none"
      /\ call[r] # "unsent" /\ call[r] # "answered" /\ pod[r] \in Specs
      /\ call[r] = "calling" => cluster[r].phase = "absent"
  BY DEF Inv, RequestInv, PhaseInv, CacheOK, Handling
<1>4. RequestInv(r)'
  <2>1. PhaseInv(r)'
    BY <1>1, <1>3 DEF PhaseInv, Handling
  <2>2. HandlerInv(r)'
    <3>1. Unserved(r)' = Unserved(r) /\ \A c, n : Sourced(r, c, n)' = Sourced(r, c, n)
      BY DEF Unserved, Sourced
    <3> QED
      BY <1>1, <3>1 DEF HandlerInv, Known, Truthful
  <2>3. ClusterInv(r)'
    BY <1>1, <1>3 DEF Inv, RequestInv, ClusterInv
  <2> QED
    BY <2>1, <2>2, <2>3 DEF RequestInv
<1> QED
  BY <1>1, <1>2, <1>4, OneRequest

\* It moves to another label.
LEMMA GotoInv ==
  ASSUME Inv, NEW r \in Requests, handler[r].pc \in Handling, NEW l \in Handling, Goto(r, l),
         UNCHANGED <<versions, seen, up, crashes, pod, call, cluster>>,
         Known(r, l, handler[r].sidecar, handler[r].since)
  PROVE  Inv'
<1> DEFINE h == [handler[r] EXCEPT !.pc = l]
<1>1. /\ h \in Handlers /\ h.pc = l /\ h.op = handler[r].op /\ h.since = handler[r].since
      /\ h.sidecar = handler[r].sidecar /\ h.answer = handler[r].answer
  BY DEF Inv, RequestsOK, Handlers, Handling, Labels
<1>2. handler' = [handler EXCEPT ![r] = h]
  BY DEF Goto
<1>3. handler[r].answer.kind = "none" /\ Truthful(r, handler[r].answer, handler[r].since)
  BY DEF Inv, RequestInv, PhaseInv, HandlerInv
<1>4. l # "replied"
  BY DEF Handling
<1> HIDE DEF h
<1> QED
  BY <1>1, <1>2, <1>3, <1>4, HandlerStep

\* It answers a.
LEMMA ReplyInv ==
  ASSUME Inv, NEW r \in Requests, handler[r].pc \in Handling, NEW a \in Answers,
         a.kind # "none", Reply(r, a),
         UNCHANGED <<versions, seen, up, crashes, pod, call, cluster>>,
         Truthful(r, a, handler[r].since)
  PROVE  Inv'
<1> DEFINE n == IF Disabled(pod[r]) \/ a.kind # "patch" THEN 0 ELSE handler[r].since
           h == [NoHandler EXCEPT !.pc = "replied", !.op = handler[r].op, !.answer = a,
                                  !.since = n]
<1>1. handler' = [handler EXCEPT ![r] = h]
  BY DEF Reply
<1>2. n \in 0 .. Len(versions)
  <2>1. handler[r].since \in 0 .. Len(versions)
    BY DEF Inv, RequestsOK, Handlers
  <2> QED
    BY <2>1 DEF Inv, CacheOK
<1>3. handler[r].op \in Operators
  BY LiveFacts
<1>4. Truthful(r, a, n)
  BY DEF Truthful
<1> HIDE DEF n
<1>5. /\ h \in Handlers /\ h.pc = "replied" /\ h.op = handler[r].op /\ h.answer = a
      /\ h.since = n /\ Known(r, h.pc, h.sidecar, h.since)
  BY <1>2, <1>3 DEF NoHandler, Handlers, Labels, Known
<1>6. h.pc \notin Handling
  BY <1>5 DEF Handling
<1> HIDE DEF h
<1> QED
  BY <1>1, <1>4, <1>5, <1>6, HandlerStep

\* What the handler of r works on is a submitted pod.
LEMMA Submitted ==
  ASSUME Inv, NEW r \in Requests, handler[r].pc \in Handling
  PROVE  pod[r] \in Specs
  BY DEF Inv, RequestInv, PhaseInv, Handling

LEMMA PlainAnswers ==
  Allowed \in Answers /\ Errored \in Answers /\ Unread \in Answers
  BY DEF Allowed, Errored, Unread, Answers, Containers

LEMMA PatchAnswers ==
  ASSUME NEW s \in Specs
  PROVE  /\ Patch(App(s.containers)) \in Answers
         /\ \A c \in Sidecars : Patch(Append(s.containers, c)) \in Answers
<1>1. App(s.containers) \in Containers
  BY DEF Containers
<1>2. \A c \in Sidecars : Append(s.containers, c) \in Containers
  BY DEF Containers
<1> QED
  BY <1>1, <1>2 DEF Patch, Answers

LEMMA AllowUntouchedInv ==
  ASSUME Inv, NEW r \in Requests, AllowUntouched(r)
  PROVE  Inv'
<1>1. /\ handler[r].pc = "decode" /\ Reply(r, Allowed)
      /\ UNCHANGED <<versions, seen, up, crashes, pod, call, cluster>>
      /\ IF Disabled(pod[r]) THEN ~HasSidecar(pod[r].containers)
         ELSE pod[r].profiler = "absent"
  BY DEF AllowUntouched, cacheVars
<1>2. handler[r].pc \in Handling
  BY <1>1 DEF Handling
<1>3. ~Disabled(pod[r]) => Unserved(r)
  <2>1. versions[1] \in SUBSET Profilers /\ 1 \in DOMAIN versions
    BY DEF Inv, CacheOK
  <2>2. ASSUME pod[r].profiler = "absent" PROVE Unserved(r)
    <3>1. \A p \in versions[1] : ~Named(pod[r], p)
      BY <2>1, <2>2, NamesAssumption DEF Named
    <3> QED
      BY <2>1, <3>1 DEF Unserved
  <2> QED
    BY <1>1, <2>2
<1>4. Truthful(r, Allowed, handler[r].since) /\ Allowed.kind # "none"
  BY <1>1, <1>3 DEF Truthful, Allowed
<1> QED
  BY <1>1, <1>2, <1>4, PlainAnswers, ReplyInv

LEMMA IncRemovedInv ==
  ASSUME Inv, NEW r \in Requests, IncRemoved(r)
  PROVE  Inv'
<1>1. /\ handler[r].pc = "decode" /\ Goto(r, "removed")
      /\ UNCHANGED <<versions, seen, up, crashes, pod, call, cluster>>
      /\ Disabled(pod[r]) /\ HasSidecar(pod[r].containers)
  BY DEF IncRemoved, cacheVars
<1>2. handler[r].pc \in Handling /\ "removed" \in Handling
  BY <1>1 DEF Handling
<1>3. Known(r, "removed", handler[r].sidecar, handler[r].since)
  BY <1>1 DEF Known
<1> QED
  BY <1>1, <1>2, <1>3, GotoInv

LEMMA DecActiveInv ==
  ASSUME Inv, NEW r \in Requests, DecActive(r)
  PROVE  Inv'
<1> DEFINE a == Patch(App(pod[r].containers))
<1>1. /\ handler[r].pc = "removed" /\ Reply(r, a)
      /\ UNCHANGED <<versions, seen, up, crashes, pod, call, cluster>>
  BY DEF DecActive, cacheVars
<1>2. handler[r].pc \in Handling
  BY <1>1 DEF Handling
<1>3. Disabled(pod[r]) /\ HasSidecar(pod[r].containers)
  BY <1>1 DEF Inv, RequestInv, HandlerInv, Known
<1>4. Truthful(r, a, handler[r].since) /\ a.kind = "patch"
  BY <1>3 DEF Truthful, Patch
<1>5. a \in Answers
  BY <1>2, Submitted, PatchAnswers
<1> HIDE DEF a
<1> QED
  BY <1>1, <1>2, <1>4, <1>5, ReplyInv

LEMMA LookUpInv ==
  ASSUME Inv, NEW r \in Requests, LookUp(r)
  PROVE  Inv'
<1>1. /\ handler[r].pc = "decode" /\ Goto(r, "list") /\ ~Disabled(pod[r])
      /\ UNCHANGED <<versions, seen, up, crashes, pod, call, cluster>>
  BY DEF LookUp, cacheVars
<1>2. handler[r].pc \in Handling /\ "list" \in Handling
  BY <1>1 DEF Handling
<1>3. Known(r, "list", handler[r].sidecar, handler[r].since)
  BY <1>1 DEF Known
<1> QED
  BY <1>1, <1>2, <1>3, GotoInv

LEMMA ListFailsInv ==
  ASSUME Inv, NEW r \in Requests, ListFails(r)
  PROVE  Inv'
<1>1. /\ handler[r].pc = "list" /\ Reply(r, Unread)
      /\ UNCHANGED <<versions, seen, up, crashes, pod, call, cluster>>
  BY DEF ListFails, cacheVars
<1>2. handler[r].pc \in Handling
  BY <1>1 DEF Handling
<1>3. Truthful(r, Unread, handler[r].since) /\ Unread.kind # "none"
  BY DEF Truthful, Unread
<1> QED
  BY <1>1, <1>2, <1>3, PlainAnswers, ReplyInv

\* A Profiler found in the cache is of a version no older than the one cached
\* when the handler started.
LEMMA BuiltInv ==
  ASSUME Inv, NEW r \in Requests, handler[r].pc = "list", seen[handler[r].op] > 0,
         UNCHANGED <<versions, seen, up, crashes, pod, call, cluster>>,
         NEW p \in Listed(handler[r].op, pod[r].ns), p.name = pod[r].profiler, Built(r, p)
  PROVE  Inv'
<1> DEFINE h == [handler[r] EXCEPT !.pc = "attach", !.sidecar = SidecarOf(p)]
           v == seen[handler[r].op]
<1>1. handler[r].pc \in Handling
  BY DEF Handling
<1>2. /\ handler[r].op \in Operators /\ handler[r].since <= v
      /\ v \in DOMAIN versions /\ versions[v] \in SUBSET Profilers
  BY <1>1, LiveFacts DEF Inv, CacheOK
<1>3. p \in versions[v] /\ p \in Profilers /\ Named(pod[r], p)
  BY <1>2 DEF Listed, Named
<1>4. SidecarOf(p) \in Sidecars
  BY <1>3 DEF Sidecars
<1>5. /\ h \in Handlers /\ h.pc = "attach" /\ h.op = handler[r].op
      /\ h.since = handler[r].since /\ h.sidecar = SidecarOf(p)
      /\ h.answer = handler[r].answer
  BY <1>4 DEF Inv, RequestsOK, Handlers, Labels
<1>6. handler' = [handler EXCEPT ![r] = h]
  <2>1. handler[r] \in Handlers /\ r \in DOMAIN handler
    BY DEF Inv, RequestsOK
  <2> QED
    BY <2>1 DEF Built, Handlers
<1> HIDE DEF h
<1>7. Sourced(r, SidecarOf(p), handler[r].since)
  BY <1>2, <1>3 DEF Sourced
<1>8. Known(r, h.pc, h.sidecar, h.since)
  <2>1. ~Disabled(pod[r])
    BY DEF Inv, RequestInv, HandlerInv, Known
  <2> QED
    BY <1>5, <1>7, <2>1 DEF Known
<1>9. handler[r].answer.kind = "none" /\ Truthful(r, h.answer, h.since)
  BY <1>1, <1>5 DEF Inv, RequestInv, PhaseInv, HandlerInv
<1>10. h.pc \in Handling /\ h.pc # "replied"
  BY <1>5 DEF Handling
<1> QED
  BY <1>1, <1>5, <1>6, <1>8, <1>9, <1>10, HandlerStep

LEMMA ListInv ==
  ASSUME Inv, NEW r \in Requests, List(r)
  PROVE  Inv'
<1> DEFINE v == seen[handler[r].op]
           found == Listed(handler[r].op, pod[r].ns)
           named == {p \in found : p.name = pod[r].profiler}
<1>1. /\ handler[r].pc = "list" /\ v > 0
      /\ UNCHANGED <<versions, seen, up, crashes, pod, call, cluster>>
      /\ \/ found = {} /\ Reply(r, Allowed)
         \/ (named = {} \/ ~Buildable(pod[r])) /\ Reply(r, Errored)
         \/ \E p \in named : Built(r, p)
  BY DEF List, cacheVars
<1>2. handler[r].pc \in Handling
  BY <1>1 DEF Handling
<1>3. named = {} => Unserved(r)
  <2>1. v \in DOMAIN versions
    BY <1>1, <1>2, LiveFacts DEF Inv, CacheOK
  <2>2. named = {} => \A p \in versions[v] : ~Named(pod[r], p)
    BY DEF Listed, Named
  <2> QED
    BY <2>1, <2>2 DEF Unserved
<1>4. CASE found = {} /\ Reply(r, Allowed)
  <2>1. ~Disabled(pod[r])
    BY <1>1 DEF Inv, RequestInv, HandlerInv, Known
  <2>2. Truthful(r, Allowed, handler[r].since) /\ Allowed.kind # "none"
    BY <1>3, <1>4, <2>1 DEF Truthful, Allowed
  <2> QED
    BY <1>1, <1>2, <1>4, <2>2, PlainAnswers, ReplyInv
<1>5. CASE (named = {} \/ ~Buildable(pod[r])) /\ Reply(r, Errored)
  <2>1. Truthful(r, Errored, handler[r].since) /\ Errored.kind # "none"
    BY <1>3, <1>5 DEF Truthful, Errored
  <2> QED
    BY <1>1, <1>2, <1>5, <2>1, PlainAnswers, ReplyInv
<1>6. CASE \E p \in named : Built(r, p)
  BY <1>1, <1>6, BuiltInv
<1> QED
  BY <1>1, <1>4, <1>5, <1>6

LEMMA IncAttachedInv ==
  ASSUME Inv, NEW r \in Requests, IncAttached(r)
  PROVE  Inv'
<1>1. /\ handler[r].pc = "attach" /\ Goto(r, "attached")
      /\ UNCHANGED <<versions, seen, up, crashes, pod, call, cluster>>
  BY DEF IncAttached, cacheVars
<1>2. handler[r].pc \in Handling /\ "attached" \in Handling
  BY <1>1 DEF Handling
<1>3. Known(r, "attached", handler[r].sidecar, handler[r].since)
  BY <1>1 DEF Inv, RequestInv, HandlerInv, Known
<1> QED
  BY <1>1, <1>2, <1>3, GotoInv

LEMMA IncActiveInv ==
  ASSUME Inv, NEW r \in Requests, IncActive(r)
  PROVE  Inv'
<1> DEFINE c == handler[r].sidecar
           a == Patch(Append(pod[r].containers, c))
<1>1. /\ handler[r].pc = "attached" /\ Reply(r, a)
      /\ UNCHANGED <<versions, seen, up, crashes, pod, call, cluster>>
  BY DEF IncActive, cacheVars
<1>2. handler[r].pc \in Handling
  BY <1>1 DEF Handling
<1>3. ~Disabled(pod[r]) /\ Sourced(r, c, handler[r].since)
  BY <1>1 DEF Inv, RequestInv, HandlerInv, Known
<1>4. Truthful(r, a, handler[r].since) /\ a.kind = "patch"
  BY <1>3 DEF Truthful, Patch
<1>5. c \in Sidecars
  BY <1>3 DEF Inv, CacheOK, Sourced, Sidecars
<1>6. a \in Answers
  BY <1>2, <1>5, Submitted, PatchAnswers
<1> HIDE DEF a
<1> QED
  BY <1>1, <1>2, <1>4, <1>6, ReplyInv

-----------------------------------------------------------------------------
LEMMA InitInv ==
  ASSUME NEW running \in SUBSET Operators, InitWith(running)
  PROVE  Inv
<1>1. /\ versions \in {<<{}>>} \cup {<<{p}>> : p \in Profilers}
      /\ seen = [o \in Operators |-> 0] /\ up = running /\ crashes = 0
      /\ pod = [r \in Requests |-> NoPod] /\ call = [r \in Requests |-> "unsent"]
      /\ handler = [r \in Requests |-> NoHandler]
      /\ cluster = [r \in Requests |-> Absent]
  BY DEF InitWith, ServiceInit
<1>2. versions \in Seq(SUBSET Profilers) /\ versions # <<>>
  <2>1. CASE versions = <<{}>>
    BY <2>1
  <2>2. ASSUME NEW p \in Profilers, versions = <<{p}>>
        PROVE  versions \in Seq(SUBSET Profilers) /\ versions # <<>>
    BY <2>2
  <2> QED
    BY <1>1, <2>1, <2>2
<1>3. CacheOK
  <2>1. 0 \in 0 .. Len(versions) /\ 0 \in 0 .. MaxCrashes
    BY <1>2, AdmissionBounds
  <2> QED
    BY <1>1, <1>2, <2>1 DEF CacheOK
<1>4. RequestsOK
  <2>1. NoHandler \in Handlers
    BY <1>2 DEF NoHandler, Handlers, Labels, NoAnswer, Answers, Containers
  <2>2. Absent \in [phase : Admitted \cup {"absent", "refused"}, containers : Containers]
    BY DEF Absent, Containers
  <2> QED
    BY <1>1, <2>1, <2>2 DEF RequestsOK
<1>5. ASSUME NEW r \in Requests PROVE RequestInv(r)
  <2>1. /\ pod[r] = NoPod /\ call[r] = "unsent" /\ handler[r] = NoHandler
        /\ cluster[r] = Absent
    BY <1>1
  <2> QED
    BY <2>1 DEF RequestInv, PhaseInv, HandlerInv, ClusterInv, Known, Truthful, Handling,
                NoHandler, NoAnswer, Absent, Admitted
<1> QED
  BY <1>3, <1>4, <1>5 DEF Inv

LEMMA RequestStep ==
  ASSUME Inv, NEW r \in Requests, Request(r)
  PROVE  Inv'
<1>1. CASE \E s \in Specs : Submit(r, s)
  BY <1>1, SubmitInv
<1>2. CASE \E o \in Operators : Receive(r, o)
  BY <1>2, ReceiveInv
<1>3. CASE Admit(r) \/ Ignore(r) \/ Delete(r)
  BY <1>3, AdmitInv, IgnoreInv, DeleteInv
<1>4. CASE Handle(r)
  BY <1>4, AllowUntouchedInv, IncRemovedInv, DecActiveInv, LookUpInv, ListInv,
     IncAttachedInv, IncActiveInv, ListFailsInv DEF Handle, Proceed
<1> QED
  BY <1>1, <1>2, <1>3, <1>4 DEF Request

LEMMA StepInv == Inv /\ [Next]_vars => Inv'
<1> SUFFICES ASSUME Inv, [Next]_vars PROVE Inv'
  OBVIOUS
<1>1. ASSUME NEW p \in Profilers, ChangeProfilers(p) PROVE Inv'
  BY <1>1, ChangeInv
<1>2. ASSUME NEW o \in Operators, Sync(o) \/ Crash(o) \/ Start(o) PROVE Inv'
  <2>1. CASE Sync(o)
    BY <2>1, SyncInv DEF Sync
  <2>2. CASE Crash(o)
    <3>1. crashes' \in 0 .. MaxCrashes
      BY <2>2, AdmissionBounds DEF Crash, Inv, CacheOK
    <3> QED
      BY <2>2, <3>1, GoneInv DEF Crash
  <2>3. CASE Start(o)
    BY <2>3, StartInv DEF Start
  <2> QED
    BY <1>2, <2>1, <2>2, <2>3
<1>3. ASSUME NEW r \in Requests, Request(r) PROVE Inv'
  BY <1>3, RequestStep
<1>4. CASE UNCHANGED vars
  <2>1. CacheOK' /\ Grows
    BY <1>4 DEF vars, Inv, CacheOK, Grows
  <2> QED
    BY <1>4, <2>1, CacheStep, LiveFacts DEF vars
<1> QED
  BY <1>1, <1>2, <1>3, <1>4 DEF Next

\* Whatever the operators, the requests and the crashes, what a handler has
\* found out and answered, and what the cluster holds because of it, is true of
\* the pod.
THEOREM RequestsExplained == Spec => []Inv
<1>1. Init => Inv
  BY InitInv DEF Init
<1> QED
  BY <1>1, StepInv, PTL DEF Spec

-----------------------------------------------------------------------------
(* What follows for the pods.                                              *)

LEMMA PodContainers ==
  ASSUME Inv, NEW r \in Requests
  PROVE  LET C == {pod[r].containers[i] : i \in DOMAIN pod[r].containers}
         IN  pod[r].containers \in Seq(C)
<1>1. CASE pod[r] \in Specs
  BY <1>1, SpecsAssumption DEF PodSpec
<1>2. CASE pod[r] = NoPod
  BY <1>2 DEF NoPod
<1> QED
  BY <1>1, <1>2 DEF Inv, RequestsOK

\* The containers of an admitted pod, by what the webhook did to it.
LEMMA AdmittedContainers ==
  ASSUME Inv, NEW r \in Requests, cluster[r].phase \in Admitted
  PROVE  LET cs == cluster[r].containers
             mine == pod[r].containers
         IN  \/ cs = mine
             \/ Disabled(pod[r]) /\ HasSidecar(mine) /\ cs = App(mine)
             \/ /\ ~Disabled(pod[r])
                /\ \E c : Sourced(r, c, handler[r].since) /\ cs = Append(mine, c)
  BY DEF Inv, RequestInv, HandlerInv, ClusterInv, Truthful

LEMMA SourcedIsSidecar ==
  ASSUME NEW r, NEW c, NEW n, Sourced(r, c, n)
  PROVE  c.name = Sidecar
  BY DEF Sourced, SidecarOf, Container

LEMMA SidecarLast ==
  ASSUME NEW C, NEW cs \in Seq(C), NEW c, c.name = Sidecar
  PROVE  HasSidecar(Append(cs, c)) /\ Last(Append(cs, c)) = c
<1> DEFINE more == Append(cs, c)
<1>1. Len(more) \in DOMAIN more /\ more[Len(more)] = c
  OBVIOUS
<1> QED
  BY <1>1 DEF HasSidecar, Last

\* Pods whose containers have distinct names have at most one sidecar.
LEMMA OneSidecar ==
  ASSUME NEW cs, Valid(cs)
  PROVE  Cardinality({i \in DOMAIN cs : cs[i].name = Sidecar}) <= 1
<1> DEFINE S == {i \in DOMAIN cs : cs[i].name = Sidecar}
<1>1. \A i, j \in S : i = j
  BY DEF Valid
<1>2. CASE S = {}
  BY <1>2, FS_EmptySet
<1>3. CASE S # {}
  <2>1. PICK i : i \in S
    BY <1>3
  <2>2. S = {i}
    BY <1>1, <2>1
  <2>3. Cardinality(S) = 1
    BY <2>2, FS_Singleton
  <2> QED
    BY <2>3
<1> QED
  BY <1>2, <1>3

LEMMA KeptFollows == Inv => AppContainersKept
<1> SUFFICES ASSUME Inv, NEW r \in Requests, cluster[r].phase \in Admitted
             PROVE  /\ App(cluster[r].containers) = App(pod[r].containers)
                    /\ Cardinality({i \in DOMAIN cluster[r].containers :
                         cluster[r].containers[i].name = Sidecar}) <= 1
  BY DEF AppContainersKept
<1> DEFINE mine == pod[r].containers
           C == {mine[i] : i \in DOMAIN mine}
<1>1. mine \in Seq(C)
  BY PodContainers
<1>2. App(mine) \in Seq(C) /\ ~HasSidecar(App(mine))
  BY <1>1, AppClean
<1>3. App(App(mine)) = App(mine)
  BY <1>2, AppOfClean
<1>4. \A c : c.name = Sidecar => App(Append(mine, c)) = App(mine)
  BY <1>1, AppOfAppended
<1>5. App(cluster[r].containers) = App(mine)
  <2> HIDE DEF mine
  <2>1. \/ cluster[r].containers = mine
        \/ cluster[r].containers = App(mine)
        \/ \E c : c.name = Sidecar /\ cluster[r].containers = Append(mine, c)
    BY AdmittedContainers, SourcedIsSidecar DEF mine
  <2> QED
    BY <1>3, <1>4, <2>1
<1>6. Valid(cluster[r].containers)
  BY DEF Inv, RequestInv, ClusterInv
<1> QED
  BY <1>5, <1>6, OneSidecar

\* Every admitted pod runs its author's containers and at most one sidecar.
THEOREM AuthorsContainersKept == Spec => []AppContainersKept
  BY KeptFollows, RequestsExplained, PTL

LEMMA UnaskedFollows == Inv => SidecarOnlyWhenAsked
<1> SUFFICES ASSUME Inv, NEW r \in Requests, cluster[r].phase \in Admitted,
                    HasSidecar(cluster[r].containers), ~HasSidecar(pod[r].containers)
             PROVE  /\ ~Disabled(pod[r])
                    /\ \E v \in DOMAIN versions : \E p \in versions[v] :
                         /\ v >= handler[r].since
                         /\ Named(pod[r], p)
                         /\ Last(cluster[r].containers) = SidecarOf(p)
  BY DEF SidecarOnlyWhenAsked
<1> DEFINE C == {pod[r].containers[i] : i \in DOMAIN pod[r].containers}
<1>1. ~Disabled(pod[r])
  BY AdmittedContainers
<1>2. PICK c : /\ Sourced(r, c, handler[r].since)
               /\ cluster[r].containers = Append(pod[r].containers, c)
  BY AdmittedContainers
<1>3. pod[r].containers \in Seq(C)
  BY PodContainers
<1>4. Last(cluster[r].containers) = c
  BY <1>2, <1>3, SourcedIsSidecar, SidecarLast
<1> QED
  BY <1>1, <1>2, <1>4 DEF Sourced

\* A sidecar is added only to a pod that asked for one, configured from the
\* Profiler it names, as it was when the request came in or later.
THEOREM NoUnaskedSidecar == Spec => []SidecarOnlyWhenAsked
  BY UnaskedFollows, RequestsExplained, PTL

LEMMA StrippedFollows == Inv => DisabledStripped
<1> SUFFICES ASSUME Inv, NEW r \in Requests, call[r] = "answered", Disabled(pod[r]),
                    cluster[r].phase \in Admitted
             PROVE  ~HasSidecar(cluster[r].containers)
  BY DEF DisabledStripped
<1> DEFINE C == {pod[r].containers[i] : i \in DOMAIN pod[r].containers}
<1>1. pod[r].containers \in Seq(C)
  BY PodContainers
<1>2. ~HasSidecar(App(pod[r].containers))
  BY <1>1, AppClean
<1>3. \/ handler[r].answer.kind = "allowed" /\ cluster[r].containers = pod[r].containers
      \/ handler[r].answer.kind = "patch"
         /\ cluster[r].containers = handler[r].answer.containers
  BY DEF Inv, RequestInv, ClusterInv, Admitted
<1>4. Truthful(r, handler[r].answer, handler[r].since)
  BY DEF Inv, RequestInv, HandlerInv
<1> QED
  BY <1>2, <1>3, <1>4 DEF Truthful

\* A pod the webhook answered for and that is not enabled has no sidecar.
THEOREM CopiedSidecarsStripped == Spec => []DisabledStripped
  BY StrippedFollows, RequestsExplained, PTL

\* Whether a container fits is a matter of its name.
LEMMA ValidByName ==
  ASSUME NEW C, NEW cs \in Seq(C), NEW c, NEW d, c.name = d.name, Valid(Append(cs, c))
  PROVE  Valid(Append(cs, d))
<1>1. /\ DOMAIN Append(cs, c) = DOMAIN Append(cs, d) /\ Append(cs, d) # <<>>
      /\ \A i \in DOMAIN Append(cs, d) : Append(cs, c)[i].name = Append(cs, d)[i].name
  OBVIOUS
<1> QED
  BY <1>1 DEF Valid

LEMMA ServedFollows == Inv => EnabledServed
<1> SUFFICES ASSUME Inv, NEW r \in Requests, call[r] = "answered", ~Disabled(pod[r]),
                    \A v \in DOMAIN versions : \E p \in versions[v] : Named(pod[r], p)
             PROVE  \/ HasSidecar(cluster[r].containers)
                    \/ /\ cluster[r].phase = "refused"
                       /\ handler[r].answer.kind = "unread" \/ ~Injectable(pod[r])
  BY DEF EnabledServed
<1> DEFINE a == handler[r].answer
           C == {pod[r].containers[i] : i \in DOMAIN pod[r].containers}
<1>1. /\ a.kind # "allowed" /\ (a.kind = "errored" => ~Buildable(pod[r]))
      /\ a.kind = "patch" => \E c : /\ Sourced(r, c, handler[r].since)
                                    /\ a.containers = Append(pod[r].containers, c)
  BY DEF Inv, RequestInv, HandlerInv, Truthful, Unserved
<1>2. pod[r].containers \in Seq(C)
  BY PodContainers
<1>3. CASE cluster[r].phase = "refused" /\ Turned(r, a)
  <2>1. ASSUME a.kind = "patch", ~Valid(a.containers) PROVE ~Injectable(pod[r])
    <3>1. PICK c : Sourced(r, c, handler[r].since) /\ a.containers = Append(pod[r].containers, c)
      BY <1>1, <2>1
    <3>2. c.name = Sidecar /\ Container(Sidecar, "any").name = Sidecar
      BY <3>1, SourcedIsSidecar DEF Container
    <3> QED
      BY <1>2, <2>1, <3>1, <3>2, ValidByName DEF Injectable
  <2> QED
    BY <1>1, <1>3, <2>1 DEF Turned, Refusal, Injectable
<1>4. CASE a.kind = "patch" /\ cluster[r].containers = a.containers
  <2>1. PICK c : Sourced(r, c, handler[r].since) /\ a.containers = Append(pod[r].containers, c)
    BY <1>1, <1>4
  <2> QED
    BY <1>2, <1>4, <2>1, SourcedIsSidecar, SidecarLast
<1> QED
  BY <1>1, <1>3, <1>4 DEF Inv, RequestInv, ClusterInv

\* A pod whose Profiler was there all along is served if the webhook answers
\* for it, and refused only when the list failed or no sidecar fits.
THEOREM NamedProfilerServed == Spec => []EnabledServed
  BY ServedFollows, RequestsExplained, PTL

-----------------------------------------------------------------------------
(* The metrics.                                                            *)

\* The handler of r is between the two updates that label l stands for.
At(r, o, l) == handler[r].op = o /\ handler[r].pc = l

\* A call that may still land what its handler has counted at label l.
Owes(r, o, l) ==
  /\ handler[r].op = o /\ call[r] = "calling"
  /\ \/ handler[r].pc = l
     \/ /\ handler[r].pc = "replied" /\ handler[r].answer.kind = "patch"
        /\ l = IF Disabled(pod[r]) THEN "removed" ELSE "attached"
Owed(o, l) == Cardinality({r \in Requests : Owes(r, o, l)})

\* The books of operator o: its metrics agree, and cover what has landed and
\* what is still owed.
Books(o) ==
  /\ counters[o].active + Between(o, "attached") + counters[o].removed
       = counters[o].attached + Between(o, "removed")
  /\ landed[o].injected + Owed(o, "attached") <= counters[o].attached
  /\ landed[o].stripped + Owed(o, "removed") <= counters[o].removed

CountersInv == CountersOK /\ \A o \in Operators : Books(o)

\* Two sets that differ in one element at most.
LEMMA OneMoreOrLess ==
  ASSUME NEW P, IsFiniteSet(P), NEW S \in SUBSET P, NEW T \in SUBSET P, NEW r \in P,
         \A q \in P \ {r} : q \in S <=> q \in T
  PROVE  /\ Cardinality(S) \in Nat /\ Cardinality(T) \in Nat
         /\ (r \in S <=> r \in T) => Cardinality(T) = Cardinality(S)
         /\ r \notin S /\ r \in T => Cardinality(T) = Cardinality(S) + 1
         /\ r \in S /\ r \notin T => Cardinality(T) = Cardinality(S) - 1
<1>1. IsFiniteSet(S) /\ IsFiniteSet(T)
  BY FS_Subset
<1>2. Cardinality(S) \in Nat /\ Cardinality(T) \in Nat
  BY <1>1, FS_CardinalityType
<1>3. ASSUME r \in S <=> r \in T PROVE Cardinality(T) = Cardinality(S)
  <2>1. S = T
    BY <1>3
  <2> QED
    BY <2>1
<1>4. ASSUME r \notin S, r \in T PROVE Cardinality(T) = Cardinality(S) + 1
  <2>1. T = S \cup {r}
    BY <1>4
  <2> QED
    BY <1>1, <1>4, <2>1, FS_AddElement
<1>5. ASSUME r \in S, r \notin T PROVE Cardinality(T) = Cardinality(S) - 1
  <2>1. S = T \cup {r}
    BY <1>5
  <2>2. Cardinality(S) = Cardinality(T) + 1
    BY <1>1, <1>5, <2>1, FS_AddElement
  <2> QED
    BY <1>2, <2>2
<1> QED
  BY <1>2, <1>3, <1>4, <1>5

\* A step of request r moves a tally by one at most.
LEMMA TallyStep ==
  ASSUME NEW r \in Requests, NEW o, NEW l,
         \A q \in Requests \ {r} : UNCHANGED <<pod[q], call[q], handler[q]>>
  PROVE  /\ Between(o, l) \in Nat /\ Between(o, l)' \in Nat
         /\ Owed(o, l) \in Nat /\ Owed(o, l)' \in Nat
         /\ (At(r, o, l) <=> At(r, o, l)') => Between(o, l)' = Between(o, l)
         /\ ~At(r, o, l) /\ At(r, o, l)' => Between(o, l)' = Between(o, l) + 1
         /\ At(r, o, l) /\ ~At(r, o, l)' => Between(o, l)' = Between(o, l) - 1
         /\ (Owes(r, o, l) <=> Owes(r, o, l)') => Owed(o, l)' = Owed(o, l)
         /\ ~Owes(r, o, l) /\ Owes(r, o, l)' => Owed(o, l)' = Owed(o, l) + 1
         /\ Owes(r, o, l) /\ ~Owes(r, o, l)' => Owed(o, l)' = Owed(o, l) - 1
<1> DEFINE S == {q \in Requests : At(q, o, l)}
           T == {q \in Requests : At(q, o, l)'}
           U == {q \in Requests : Owes(q, o, l)}
           V == {q \in Requests : Owes(q, o, l)'}
<1>1. /\ Between(o, l) = Cardinality(S) /\ Between(o, l)' = Cardinality(T)
      /\ Owed(o, l) = Cardinality(U) /\ Owed(o, l)' = Cardinality(V)
  BY DEF Between, Owed, At
<1>2. /\ \A q \in Requests \ {r} : q \in S <=> q \in T
      /\ \A q \in Requests \ {r} : q \in U <=> q \in V
  BY DEF At, Owes
<1>3. /\ S \in SUBSET Requests /\ T \in SUBSET Requests
      /\ U \in SUBSET Requests /\ V \in SUBSET Requests
  OBVIOUS
<1>4. /\ r \in S <=> At(r, o, l)
      /\ r \in T <=> At(r, o, l)'
      /\ r \in U <=> Owes(r, o, l)
      /\ r \in V <=> Owes(r, o, l)'
  OBVIOUS
<1> HIDE DEF S, T, U, V
<1>5. /\ Cardinality(S) \in Nat /\ Cardinality(T) \in Nat
      /\ (r \in S <=> r \in T) => Cardinality(T) = Cardinality(S)
      /\ r \notin S /\ r \in T => Cardinality(T) = Cardinality(S) + 1
      /\ r \in S /\ r \notin T => Cardinality(T) = Cardinality(S) - 1
  BY <1>2, <1>3, RequestsFinite, OneMoreOrLess
<1>6. /\ Cardinality(U) \in Nat /\ Cardinality(V) \in Nat
      /\ (r \in U <=> r \in V) => Cardinality(V) = Cardinality(U)
      /\ r \notin U /\ r \in V => Cardinality(V) = Cardinality(U) + 1
      /\ r \in U /\ r \notin V => Cardinality(V) = Cardinality(U) - 1
  BY <1>2, <1>3, RequestsFinite, OneMoreOrLess
<1> QED
  BY <1>1, <1>4, <1>5, <1>6

\* A step that counts nothing, changes no tally and lands nothing.
LEMMA UncountedStep ==
  ASSUME CountersInv, NEW r \in Requests, UNCHANGED <<counters, landed>>,
         \A q \in Requests \ {r} : UNCHANGED <<pod[q], call[q], handler[q]>>,
         \A o \in Operators : \A l \in {"attached", "removed"} :
           (At(r, o, l) <=> At(r, o, l)') /\ (Owes(r, o, l)' => Owes(r, o, l))
  PROVE  CountersInv'
<1>1. CountersOK'
  BY DEF CountersInv, CountersOK
<1>2. ASSUME NEW o \in Operators PROVE Books(o)'
  <2>1. ASSUME NEW l \in {"attached", "removed"}
        PROVE  /\ Between(o, l)' = Between(o, l)
               /\ Owed(o, l) \in Nat /\ Owed(o, l)' \in Nat /\ Owed(o, l)' <= Owed(o, l)
    BY TallyStep
  <2>2. /\ counters[o].attached \in Nat /\ counters[o].removed \in Nat
        /\ landed[o].injected \in Nat /\ landed[o].stripped \in Nat
    BY DEF CountersInv, CountersOK
  <2>3. Books(o)
    BY DEF CountersInv
  <2>4. /\ landed[o].injected + Owed(o, "attached")' <= counters[o].attached
        /\ landed[o].stripped + Owed(o, "removed")' <= counters[o].removed
    BY <2>1, <2>2, <2>3 DEF Books
  <2> QED
    BY <2>1, <2>3, <2>4 DEF Books
<1> QED
  BY <1>1, <1>2 DEF CountersInv

\* A step of a handler of operator k keeps the books of the others.
LEMMA CountedStep ==
  ASSUME CountersInv, NEW r \in Requests, NEW k \in Operators,
         handler[r].op = k, handler'[r].op = k,
         \A q \in Requests \ {r} : UNCHANGED <<pod[q], call[q], handler[q]>>,
         NEW c \in [attached : Nat, removed : Nat, active : Int],
         counters' = [counters EXCEPT ![k] = c],
         NEW d \in [injected : Nat, stripped : Nat], landed' = [landed EXCEPT ![k] = d],
         Books(k)'
  PROVE  CountersInv'
<1>1. CountersOK'
  BY DEF CountersInv, CountersOK
<1>2. ASSUME NEW o \in Operators \ {k} PROVE Books(o)'
  <2>1. ASSUME NEW l PROVE Between(o, l)' = Between(o, l) /\ Owed(o, l)' = Owed(o, l)
    <3>1. ~At(r, o, l) /\ ~At(r, o, l)' /\ ~Owes(r, o, l) /\ ~Owes(r, o, l)'
      BY <1>2 DEF At, Owes
    <3> QED
      BY <3>1, TallyStep
  <2>2. counters'[o] = counters[o] /\ landed'[o] = landed[o]
    BY <1>2 DEF CountersInv, CountersOK
  <2> QED
    BY <2>1, <2>2 DEF CountersInv, Books
<1> QED
  BY <1>1, <1>2 DEF CountersInv

\* Where a reply leaves the handler of r.
LEMMA ReplyFacts ==
  ASSUME Inv, NEW r \in Requests, NEW a, Reply(r, a)
  PROVE  /\ handler'[r].pc = "replied" /\ handler'[r].op = handler[r].op
         /\ handler'[r].answer = a
         /\ \A q \in Requests \ {r} : handler'[q] = handler[q]
<1> DEFINE n == IF Disabled(pod[r]) \/ a.kind # "patch" THEN 0 ELSE handler[r].since
           h == [NoHandler EXCEPT !.pc = "replied", !.op = handler[r].op, !.answer = a,
                                  !.since = n]
<1>1. handler' = [handler EXCEPT ![r] = h]
  BY DEF Reply
<1> HIDE DEF n
<1>2. h.pc = "replied" /\ h.op = handler[r].op /\ h.answer = a
  BY DEF NoHandler
<1> HIDE DEF h
<1> QED
  BY <1>1, <1>2 DEF Inv, RequestsOK

LEMMA GotoFacts ==
  ASSUME Inv, NEW r \in Requests, NEW l, Goto(r, l)
  PROVE  /\ handler'[r].pc = l /\ handler'[r].op = handler[r].op
         /\ \A q \in Requests \ {r} : handler'[q] = handler[q]
  BY DEF Inv, RequestsOK, Handlers, Goto

LEMMA BuiltFacts ==
  ASSUME Inv, NEW r \in Requests, NEW p, Built(r, p)
  PROVE  /\ handler'[r].pc = "attach" /\ handler'[r].op = handler[r].op
         /\ \A q \in Requests \ {r} : handler'[q] = handler[q]
  BY DEF Inv, RequestsOK, Handlers, Built

\* Nothing is counted on the way to a handler's first update or to an answer
\* that is no patch.
LEMMA UncountedHandle ==
  ASSUME Inv, CountersInv, NEW r \in Requests,
         AllowUntouched(r) \/ LookUp(r) \/ ListFails(r) \/ List(r)
  PROVE  CountersInv'
<1>1. /\ handler[r].pc \in {"decode", "list"}
      /\ UNCHANGED <<pod, call, counters, landed>>
      /\ \/ Reply(r, Allowed) \/ Reply(r, Errored) \/ Reply(r, Unread) \/ Goto(r, "list")
         \/ \E p : Built(r, p)
  BY DEF AllowUntouched, LookUp, ListFails, List
<1>2. /\ \A q \in Requests \ {r} : handler'[q] = handler[q]
      /\ \/ handler'[r].pc \in {"list", "attach"}
         \/ handler'[r].pc = "replied" /\ handler'[r].answer.kind # "patch"
  BY <1>1, ReplyFacts, GotoFacts, BuiltFacts DEF Allowed, Errored, Unread
<1>3. ASSUME NEW o \in Operators, NEW l \in {"attached", "removed"}
      PROVE  ~At(r, o, l) /\ ~At(r, o, l)' /\ ~Owes(r, o, l)'
  BY <1>1, <1>2 DEF At, Owes
<1> QED
  BY <1>1, <1>2, <1>3, UncountedStep

\* A submitted pod has no handler yet, and the first label counts nothing.
LEMMA UncountedRequest ==
  ASSUME Inv, CountersInv, NEW r \in Requests,
         \/ \E s \in Specs : Submit(r, s)
         \/ \E o \in Operators : Receive(r, o)
         \/ Ignore(r) \/ Delete(r)
  PROVE  CountersInv'
<1>1. CASE \E s \in Specs : Submit(r, s)
  <2>1. /\ handler[r].pc = "none" /\ UNCHANGED <<handler, counters, landed>>
        /\ \A q \in Requests \ {r} : call'[q] = call[q] /\ pod'[q] = pod[q]
    BY <1>1 DEF Submit, Ask, Inv, RequestsOK, RequestInv, PhaseInv
  <2>2. \A o \in Operators : \A l \in {"attached", "removed"} :
          ~At(r, o, l) /\ ~At(r, o, l)' /\ ~Owes(r, o, l)'
    BY <2>1 DEF At, Owes
  <2> QED
    BY <2>1, <2>2, UncountedStep
<1>2. CASE \E o \in Operators : Receive(r, o)
  <2>1. PICK o \in Operators : Receive(r, o)
    BY <1>2
  <2> DEFINE h == [NoHandler EXCEPT !.pc = "decode", !.op = o, !.since = seen[o]]
  <2>2. /\ handler[r].pc = "none" /\ UNCHANGED <<pod, call, counters, landed>>
        /\ handler' = [handler EXCEPT ![r] = h]
    BY <2>1 DEF Receive
  <2>3. h.pc = "decode"
    BY DEF NoHandler
  <2> HIDE DEF h
  <2>4. handler'[r] = h /\ \A q \in Requests \ {r} : handler'[q] = handler[q]
    BY <2>2 DEF Inv, RequestsOK
  <2>5. \A k \in Operators : \A l \in {"attached", "removed"} :
          ~At(r, k, l) /\ ~At(r, k, l)' /\ ~Owes(r, k, l)'
    BY <2>2, <2>3, <2>4 DEF At, Owes
  <2> QED
    BY <2>2, <2>4, <2>5, UncountedStep
<1>3. CASE Ignore(r) \/ Delete(r)
  <2>1. /\ UNCHANGED <<handler, pod, counters, landed>>
        /\ \A q \in Requests \ {r} : call'[q] = call[q]
        /\ call'[r] \in {call[r], "ignored"}
    BY <1>3 DEF Ignore, GiveUp, Delete, EndPod, Inv, RequestsOK
  <2>2. \A o \in Operators : \A l \in {"attached", "removed"} :
          (At(r, o, l) <=> At(r, o, l)') /\ (Owes(r, o, l)' => Owes(r, o, l))
    BY <2>1 DEF At, Owes
  <2> QED
    BY <2>1, <2>2, UncountedStep
<1> QED
  BY <1>1, <1>2, <1>3

\* One metric of operator k is moved by n, for the handler of r.
LEMMA MetricStep ==
  ASSUME CountersInv, NEW r \in Requests, NEW k \in Operators,
         handler[r].op = k, handler'[r].op = k,
         \A q \in Requests \ {r} : UNCHANGED <<pod[q], call[q], handler[q]>>,
         NEW field \in {"attached", "removed", "active"}, NEW n \in Int,
         field # "active" => n \in Nat,
         Counted(r, field, n), UNCHANGED landed,
         LET c == counters[k]
             d == landed[k]
             after(f) == IF f = field THEN c[f] + n ELSE c[f]
         IN  /\ after("active") + Between(k, "attached")' + after("removed")
                  = after("attached") + Between(k, "removed")'
             /\ d.injected + Owed(k, "attached")' <= after("attached")
             /\ d.stripped + Owed(k, "removed")' <= after("removed")
  PROVE  CountersInv'
<1> DEFINE c == [counters[k] EXCEPT ![field] = @ + n]
<1>1. counters[k] \in [attached : Nat, removed : Nat, active : Int]
  BY DEF CountersInv, CountersOK
<1>2. counters' = [counters EXCEPT ![k] = c]
  BY DEF Counted
<1>3. /\ c \in [attached : Nat, removed : Nat, active : Int]
      /\ \A f \in {"attached", "removed", "active"} :
           c[f] = IF f = field THEN counters[k][f] + n ELSE counters[k][f]
  <2>1. CASE field = "attached"
    BY <1>1, <2>1
  <2>2. CASE field = "removed"
    BY <1>1, <2>2
  <2>3. CASE field = "active"
    BY <1>1, <2>3
  <2> QED
    BY <2>1, <2>2, <2>3
<1> HIDE DEF c
<1>4. landed[k] \in [injected : Nat, stripped : Nat] /\ landed' = [landed EXCEPT ![k] = landed[k]]
  BY DEF CountersInv, CountersOK
<1>5. counters'[k] = c /\ landed'[k] = landed[k]
  BY <1>2 DEF CountersInv, CountersOK
<1>6. Books(k)'
  BY <1>3, <1>5 DEF Books
<1> QED
  BY <1>2, <1>3, <1>4, <1>6, CountedStep

LEMMA IncRemovedCounted ==
  ASSUME Inv, CountersInv, NEW r \in Requests, IncRemoved(r)
  PROVE  CountersInv'
<1> DEFINE k == handler[r].op
<1>1. /\ handler[r].pc = "decode" /\ Disabled(pod[r])
      /\ Counted(r, "removed", 1) /\ Goto(r, "removed") /\ UNCHANGED <<pod, call, landed>>
  BY DEF IncRemoved
<1>2. k \in Operators
  BY <1>1, LiveFacts DEF Handling
<1>3. /\ handler'[r].pc = "removed" /\ handler'[r].op = k
      /\ \A q \in Requests \ {r} : handler'[q] = handler[q]
  BY <1>1, GotoFacts
<1>4. /\ ~At(r, k, "attached") /\ ~At(r, k, "attached")'
      /\ ~At(r, k, "removed") /\ At(r, k, "removed")'
      /\ ~Owes(r, k, "attached") /\ ~Owes(r, k, "attached")' /\ ~Owes(r, k, "removed")
  BY <1>1, <1>3 DEF At, Owes
<1>5. /\ Between(k, "attached")' = Between(k, "attached") /\ Between(k, "attached") \in Nat
      /\ Between(k, "removed")' = Between(k, "removed") + 1 /\ Between(k, "removed") \in Nat
      /\ Owed(k, "attached")' = Owed(k, "attached") /\ Owed(k, "attached") \in Nat
      /\ Owed(k, "removed") \in Nat /\ Owed(k, "removed")' \in Nat
      /\ Owed(k, "removed")' <= Owed(k, "removed") + 1
  BY <1>1, <1>3, <1>4, TallyStep
<1>6. /\ Books(k)
      /\ counters[k].attached \in Nat /\ counters[k].removed \in Nat /\ counters[k].active \in Int
      /\ landed[k].injected \in Nat /\ landed[k].stripped \in Nat
  BY <1>2 DEF CountersInv, CountersOK
<1>7. /\ counters[k].active + Between(k, "attached")' + (counters[k].removed + 1)
           = counters[k].attached + Between(k, "removed")'
      /\ landed[k].injected + Owed(k, "attached")' <= counters[k].attached
      /\ landed[k].stripped + Owed(k, "removed")' <= counters[k].removed + 1
  BY <1>5, <1>6 DEF Books
<1> QED
  BY <1>1, <1>2, <1>3, <1>7, MetricStep

LEMMA IncAttachedCounted ==
  ASSUME Inv, CountersInv, NEW r \in Requests, IncAttached(r)
  PROVE  CountersInv'
<1> DEFINE k == handler[r].op
<1>1. /\ handler[r].pc = "attach"
      /\ Counted(r, "attached", 1) /\ Goto(r, "attached") /\ UNCHANGED <<pod, call, landed>>
  BY DEF IncAttached
<1>2. k \in Operators
  BY <1>1, LiveFacts DEF Handling
<1>3. /\ handler'[r].pc = "attached" /\ handler'[r].op = k
      /\ \A q \in Requests \ {r} : handler'[q] = handler[q]
  BY <1>1, GotoFacts
<1>4. /\ ~At(r, k, "removed") /\ ~At(r, k, "removed")'
      /\ ~At(r, k, "attached") /\ At(r, k, "attached")'
      /\ ~Owes(r, k, "removed") /\ ~Owes(r, k, "removed")' /\ ~Owes(r, k, "attached")
  BY <1>1, <1>3 DEF At, Owes
<1>5. /\ Between(k, "removed")' = Between(k, "removed") /\ Between(k, "removed") \in Nat
      /\ Between(k, "attached")' = Between(k, "attached") + 1 /\ Between(k, "attached") \in Nat
      /\ Owed(k, "removed")' = Owed(k, "removed") /\ Owed(k, "removed") \in Nat
      /\ Owed(k, "attached") \in Nat /\ Owed(k, "attached")' \in Nat
      /\ Owed(k, "attached")' <= Owed(k, "attached") + 1
  BY <1>1, <1>3, <1>4, TallyStep
<1>6. /\ Books(k)
      /\ counters[k].attached \in Nat /\ counters[k].removed \in Nat /\ counters[k].active \in Int
      /\ landed[k].injected \in Nat /\ landed[k].stripped \in Nat
  BY <1>2 DEF CountersInv, CountersOK
<1>7. /\ counters[k].active + Between(k, "attached")' + counters[k].removed
           = (counters[k].attached + 1) + Between(k, "removed")'
      /\ landed[k].injected + Owed(k, "attached")' <= counters[k].attached + 1
      /\ landed[k].stripped + Owed(k, "removed")' <= counters[k].removed
  BY <1>5, <1>6 DEF Books
<1> QED
  BY <1>1, <1>2, <1>3, <1>7, MetricStep

\* The second update, with the answer: what was counted is still owed.
LEMMA AnsweredCounted ==
  ASSUME Inv, CountersInv, NEW r \in Requests, DecActive(r) \/ IncActive(r)
  PROVE  CountersInv'
<1> DEFINE k == handler[r].op
           l == IF DecActive(r) THEN "removed" ELSE "attached"
           n == IF DecActive(r) THEN -1 ELSE 1
<1>1. /\ handler[r].pc = l /\ l \in {"removed", "attached"}
      /\ Counted(r, "active", n) /\ UNCHANGED <<pod, call, landed>>
      /\ \E cs : Reply(r, Patch(cs))
  BY DEF DecActive, IncActive
<1>2. k \in Operators /\ l = IF Disabled(pod[r]) THEN "removed" ELSE "attached"
  BY <1>1, LiveFacts DEF Handling, Inv, RequestInv, HandlerInv, Known
<1>3. n = IF l = "removed" THEN -1 ELSE 1
  OBVIOUS
<1> HIDE DEF l, n
<1>4. /\ handler'[r].pc = "replied" /\ handler'[r].op = k
      /\ handler'[r].answer.kind = "patch"
      /\ \A q \in Requests \ {r} : handler'[q] = handler[q]
  BY <1>1, ReplyFacts DEF Patch
<1>5. /\ At(r, k, l) /\ \A m \in {"removed", "attached"} : ~At(r, k, m)'
      /\ \A m \in {"removed", "attached"} : m # l => ~At(r, k, m)
      /\ \A m \in {"removed", "attached"} : Owes(r, k, m) <=> Owes(r, k, m)'
  BY <1>1, <1>2, <1>4 DEF At, Owes
<1>6. ASSUME NEW m \in {"removed", "attached"}
      PROVE  /\ Between(k, m) \in Nat /\ Owed(k, m)' = Owed(k, m)
             /\ Between(k, m)' = IF m = l THEN Between(k, m) - 1 ELSE Between(k, m)
  BY <1>1, <1>4, <1>5, TallyStep
<1>7. /\ Books(k)
      /\ counters[k].attached \in Nat /\ counters[k].removed \in Nat /\ counters[k].active \in Int
  BY <1>2 DEF CountersInv, CountersOK
<1>8. /\ (counters[k].active + n) + Between(k, "attached")' + counters[k].removed
           = counters[k].attached + Between(k, "removed")'
      /\ landed[k].injected + Owed(k, "attached")' <= counters[k].attached
      /\ landed[k].stripped + Owed(k, "removed")' <= counters[k].removed
  BY <1>1, <1>3, <1>6, <1>7 DEF Books
<1>9. n \in Int
  BY <1>3
<1> QED
  BY <1>1, <1>2, <1>4, <1>8, <1>9, MetricStep

\* What lands was owed.
LEMMA AdmitCounted ==
  ASSUME Inv, CountersInv, NEW r \in Requests, Admit(r)
  PROVE  CountersInv'
<1> DEFINE k == handler[r].op
           a == handler[r].answer
           l == IF Disabled(pod[r]) THEN "removed" ELSE "attached"
           d == IF Disabled(pod[r]) THEN [landed[k] EXCEPT !.stripped = @ + 1]
                ELSE [landed[k] EXCEPT !.injected = @ + 1]
<1>1. /\ handler[r].pc = "replied" /\ call[r] = "calling"
      /\ call' = [call EXCEPT ![r] = "answered"]
      /\ UNCHANGED <<pod, handler, counters>>
      /\ \/ landed' = landed
         \/ a.kind = "patch" /\ landed' = [landed EXCEPT ![k] = d]
  BY DEF Admit
<1>2. /\ call'[r] = "answered" /\ \A q \in Requests \ {r} : call'[q] = call[q]
      /\ k \in Operators
  BY <1>1 DEF Inv, RequestsOK, RequestInv, PhaseInv
<1>3. \A o, m : (At(r, o, m) <=> At(r, o, m)') /\ ~Owes(r, o, m)'
  BY <1>1, <1>2 DEF At, Owes
<1>4. CASE landed' = landed
  BY <1>1, <1>2, <1>3, <1>4, UncountedStep
<1>5. CASE a.kind = "patch" /\ landed' = [landed EXCEPT ![k] = d]
  <2>1. \A m \in {"removed", "attached"} : Owes(r, k, m) <=> m = l
    BY <1>1, <1>5 DEF Owes
  <2>2. ASSUME NEW m \in {"removed", "attached"}
        PROVE  /\ Between(k, m)' = Between(k, m) /\ Owed(k, m) \in Nat
               /\ Owed(k, m)' = IF m = l THEN Owed(k, m) - 1 ELSE Owed(k, m)
    BY <1>1, <1>2, <1>3, <2>1, TallyStep
  <2>3. landed[k] \in [injected : Nat, stripped : Nat]
    BY <1>2 DEF CountersInv, CountersOK
  <2>4. /\ d \in [injected : Nat, stripped : Nat]
        /\ d.injected = IF l = "attached" THEN landed[k].injected + 1 ELSE landed[k].injected
        /\ d.stripped = IF l = "removed" THEN landed[k].stripped + 1 ELSE landed[k].stripped
    BY <2>3
  <2>5. /\ counters[k] \in [attached : Nat, removed : Nat, active : Int]
        /\ counters' = [counters EXCEPT ![k] = counters[k]] /\ Books(k)
    BY <1>1, <1>2 DEF CountersInv, CountersOK
  <2>6. l \in {"removed", "attached"}
    OBVIOUS
  <2> HIDE DEF d, l
  <2>7. landed'[k] = d /\ counters'[k] = counters[k]
    BY <1>1, <1>2, <1>5 DEF CountersInv, CountersOK
  <2>8. /\ d.injected + Owed(k, "attached")' <= counters[k].attached
        /\ d.stripped + Owed(k, "removed")' <= counters[k].removed
    BY <2>2, <2>3, <2>4, <2>5, <2>6 DEF Books
  <2>9. Books(k)'
    BY <1>1, <2>2, <2>5, <2>7, <2>8 DEF Books
  <2> QED
    BY <1>1, <1>2, <1>5, <2>4, <2>5, <2>9, CountedStep
<1> QED
  BY <1>1, <1>4, <1>5

\* The books of a crashed operator start afresh, with nothing owed.
LEMMA GoneCounted ==
  ASSUME Inv, CountersInv, NEW o \in Operators, Gone(o)
  PROVE  CountersInv'
<1>1. /\ UNCHANGED <<pod, call>>
      /\ counters' = [counters EXCEPT ![o] = NoCounters]
      /\ landed' = [landed EXCEPT ![o] = NoLanded]
      /\ handler' = [q \in Requests |-> IF handler[q].op = o
                                        THEN [handler[q] EXCEPT !.pc = "lost"] ELSE handler[q]]
  BY DEF Gone
<1>2. CountersOK'
  BY <1>1 DEF CountersInv, CountersOK, NoCounters, NoLanded
<1>3. ASSUME NEW q \in Requests
      PROVE  /\ handler[q].op = o => handler'[q].pc = "lost" /\ handler'[q].op = o
             /\ handler[q].op # o => handler'[q] = handler[q]
  <2>1. handler'[q] = IF handler[q].op = o THEN [handler[q] EXCEPT !.pc = "lost"]
                      ELSE handler[q]
    BY <1>1
  <2> QED
    BY <2>1 DEF Inv, RequestsOK, Handlers
<1>4. ASSUME NEW l \in {"attached", "removed"}
      PROVE  Between(o, l)' = 0 /\ Owed(o, l)' = 0
  <2>1. \A q \in Requests : ~(handler'[q].op = o /\ handler'[q].pc = l) /\ ~Owes(q, o, l)'
    BY <1>3 DEF Owes
  <2>2. /\ {q \in Requests : handler'[q].op = o /\ handler'[q].pc = l} = {}
        /\ {q \in Requests : Owes(q, o, l)'} = {}
    BY <2>1
  <2> QED
    BY <2>2, FS_EmptySet DEF Between, Owed
<1>5. Books(o)'
  <2>1. counters'[o] = NoCounters /\ landed'[o] = NoLanded
    BY <1>1 DEF CountersInv, CountersOK
  <2> QED
    BY <1>4, <2>1 DEF Books, NoCounters, NoLanded
<1>6. ASSUME NEW k \in Operators \ {o} PROVE Books(k)'
  <2>1. ASSUME NEW l PROVE Between(k, l)' = Between(k, l) /\ Owed(k, l)' = Owed(k, l)
    <3>1. /\ \A q \in Requests : (handler'[q].op = k /\ handler'[q].pc = l)
                                 <=> (handler[q].op = k /\ handler[q].pc = l)
          /\ \A q \in Requests : Owes(q, k, l)' <=> Owes(q, k, l)
      BY <1>1, <1>3 DEF Owes
    <3>2. /\ {q \in Requests : handler'[q].op = k /\ handler'[q].pc = l}
               = {q \in Requests : handler[q].op = k /\ handler[q].pc = l}
          /\ {q \in Requests : Owes(q, k, l)'} = {q \in Requests : Owes(q, k, l)}
      BY <3>1
    <3> QED
      BY <3>2 DEF Between, Owed
  <2>2. counters'[k] = counters[k] /\ landed'[k] = landed[k]
    BY <1>1 DEF CountersInv, CountersOK
  <2> QED
    BY <2>1, <2>2 DEF CountersInv, Books
<1> QED
  BY <1>2, <1>5, <1>6 DEF CountersInv

LEMMA StillCounted ==
  ASSUME CountersInv, UNCHANGED <<pod, call, handler, counters, landed>>
  PROVE  CountersInv'
  BY DEF CountersInv, CountersOK, Books, Between, Owed, Owes

LEMMA InitCounted ==
  ASSUME NEW running, InitWith(running)
  PROVE  CountersInv
<1>1. /\ handler = [r \in Requests |-> NoHandler]
      /\ counters = [o \in Operators |-> NoCounters]
      /\ landed = [o \in Operators |-> NoLanded]
  BY DEF InitWith, ServiceInit
<1>2. CountersOK
  BY <1>1 DEF CountersOK, NoCounters, NoLanded
<1>3. ASSUME NEW o \in Operators, NEW l \in {"attached", "removed"}
      PROVE  Between(o, l) = 0 /\ Owed(o, l) = 0
  <2>1. \A r \in Requests : ~(handler[r].op = o /\ handler[r].pc = l) /\ ~Owes(r, o, l)
    BY <1>1 DEF Owes, NoHandler
  <2>2. /\ {r \in Requests : handler[r].op = o /\ handler[r].pc = l} = {}
        /\ {r \in Requests : Owes(r, o, l)} = {}
    BY <2>1
  <2> QED
    BY <2>2, FS_EmptySet DEF Between, Owed
<1>4. ASSUME NEW o \in Operators PROVE Books(o)
  BY <1>1, <1>3 DEF Books, NoCounters, NoLanded
<1> QED
  BY <1>2, <1>4 DEF CountersInv

LEMMA RequestCounted ==
  ASSUME Inv, CountersInv, NEW r \in Requests, Request(r)
  PROVE  CountersInv'
<1>1. CASE Admit(r)
  BY <1>1, AdmitCounted
<1>2. CASE Handle(r)
  BY <1>2, UncountedHandle, IncRemovedCounted, IncAttachedCounted, AnsweredCounted
  DEF Handle, Proceed
<1>3. CASE \/ \E s \in Specs : Submit(r, s)
           \/ \E o \in Operators : Receive(r, o)
           \/ Ignore(r) \/ Delete(r)
  BY <1>3, UncountedRequest
<1> QED
  BY <1>1, <1>2, <1>3 DEF Request

LEMMA StepCounted == Inv /\ CountersInv /\ [Next]_vars => CountersInv'
<1> SUFFICES ASSUME Inv, CountersInv, [Next]_vars PROVE CountersInv'
  OBVIOUS
<1>1. ASSUME NEW p \in Profilers, ChangeProfilers(p) PROVE CountersInv'
  BY <1>1, StillCounted DEF ChangeProfilers, Change
<1>2. ASSUME NEW o \in Operators, Sync(o) \/ Crash(o) \/ Start(o) PROVE CountersInv'
  BY <1>2, StillCounted, GoneCounted DEF Sync, Start, Crash
<1>3. ASSUME NEW r \in Requests, Request(r) PROVE CountersInv'
  BY <1>3, RequestCounted
<1>4. CASE UNCHANGED vars
  BY <1>4, StillCounted DEF vars
<1> QED
  BY <1>1, <1>2, <1>3, <1>4 DEF Next

THEOREM BooksKept == Spec => [](Inv /\ CountersInv)
<1>1. Init => Inv /\ CountersInv
  BY InitInv, InitCounted DEF Init
<1>2. (Inv /\ CountersInv) /\ [Next]_vars => (Inv /\ CountersInv)'
  BY StepInv, StepCounted
<1> QED
  BY <1>1, <1>2, PTL DEF Spec

LEMMA TypesFollow == Inv /\ CountersInv => TypeOK
  BY DEF Inv, CountersInv, TypeOK

\* Every variable of the webhook's model stays in its type.
THEOREM AdmissionTypes == Spec => []TypeOK
  BY TypesFollow, BooksKept, PTL

LEMMA GaugeFollows == Inv /\ CountersInv => GaugeConsistent
  BY DEF CountersInv, Books, GaugeConsistent

\* The three metrics of every operator agree, but for the handlers that are
\* between their two updates.
THEOREM MetricsAgree == Spec => []GaugeConsistent
  BY GaugeFollows, BooksKept, PTL

LEMMA LandedFollows == Inv /\ CountersInv => LandedCounted
<1> SUFFICES ASSUME Inv, CountersInv, NEW o \in Operators
             PROVE  /\ landed[o].injected <= counters[o].attached
                    /\ landed[o].stripped <= counters[o].removed
  BY DEF LandedCounted
<1>1. ASSUME NEW l PROVE Owed(o, l) \in Nat
  <2> DEFINE S == {r \in Requests : Owes(r, o, l)}
  <2>1. IsFiniteSet(S)
    BY RequestsFinite, FS_Subset
  <2> QED
    BY <2>1, FS_CardinalityType DEF Owed
<1>2. /\ landed[o].injected \in Nat /\ landed[o].stripped \in Nat
      /\ counters[o].attached \in Nat /\ counters[o].removed \in Nat
  BY DEF CountersInv, CountersOK
<1> QED
  BY <1>1, <1>2 DEF CountersInv, Books

\* Nothing lands in the cluster that its operator has not counted before.
THEOREM CountedBeforeLanding == Spec => []LandedCounted
  BY LandedFollows, BooksKept, PTL
=============================================================================
