-------------------------- MODULE AdmissionRefinement --------------------------
(***************************************************************************)
(* PodAdmission implements AdmissionService, for every number of           *)
(* operators, requests, Profilers and pods: what handlers find out piece   *)
(* by piece in a cache that is behind comes to one verdict, taken by one   *)
(* state that the Profilers have been in.                                  *)
(***************************************************************************)
EXTENDS PodAdmissionProofs

-----------------------------------------------------------------------------
(* What has to be known of a handler beside Inv.                           *)

\* The containers that answer a leaves of the pod of r, none when it refuses it.
Left(r, a) ==
  IF Refusal(a) THEN <<>>
  ELSE IF a.kind = "allowed" THEN pod[r].containers ELSE a.containers

\* Answer a is a verdict on the pod of r by some state of the Profilers.
Decided(r, a) == \E v \in DOMAIN versions : Left(r, a) \in Verdicts(pod[r], versions[v])

VerdictInv(r) ==
  /\ handler[r].pc \in {"list", "attach", "attached"} => pod[r].profiler # "absent"
  /\ handler[r].pc \in {"attach", "attached"} => Buildable(pod[r])
  /\ handler[r].pc = "replied" => Decided(r, handler[r].answer)

ServiceInv == Inv /\ \A r \in Requests : VerdictInv(r)

\* Versions are only added, so that a verdict stays one.
LEMMA VerdictStays ==
  ASSUME Grows, NEW q, UNCHANGED <<pod[q], handler[q]>>, VerdictInv(q)
  PROVE  VerdictInv(q)'
<1>1. ASSUME Decided(q, handler[q].answer) PROVE Decided(q, handler[q].answer)'
  <2>1. PICK v \in DOMAIN versions :
          Left(q, handler[q].answer) \in Verdicts(pod[q], versions[v])
    BY <1>1 DEF Decided
  <2>2. v \in DOMAIN versions' /\ versions'[v] = versions[v]
    BY DEF Grows
  <2>3. Left(q, handler[q].answer)' = Left(q, handler[q].answer)
    BY DEF Left
  <2>4. Verdicts(pod'[q], versions'[v]) = Verdicts(pod[q], versions[v])
    BY <2>2
  <2> QED
    BY <2>1, <2>2, <2>3, <2>4 DEF Decided
<1> QED
  BY <1>1 DEF VerdictInv

\* A step of caches and processes: handlers are left alone or lost.
LEMMA VerdictsKept ==
  ASSUME ServiceInv, Inv', Grows, UNCHANGED pod,
         \A q \in Requests : handler'[q] = handler[q] \/ handler'[q].pc = "lost"
  PROVE  ServiceInv'
<1>1. ASSUME NEW q \in Requests PROVE VerdictInv(q)'
  <2>1. CASE handler'[q] = handler[q]
    BY <2>1, VerdictStays DEF ServiceInv
  <2>2. CASE handler'[q].pc = "lost"
    BY <2>2 DEF VerdictInv
  <2> QED
    BY <2>1, <2>2
<1> QED
  BY <1>1 DEF ServiceInv

-----------------------------------------------------------------------------
(* The steps of the handler.                                               *)

\* Refusals are verdicts on pods that ask for a Profiler.
LEMMA Refused ==
  ASSUME Inv, NEW r \in Requests, ~Disabled(pod[r]), pod[r].profiler # "absent"
  PROVE  Decided(r, Errored) /\ Decided(r, Unread)
<1>1. 1 \in DOMAIN versions
  BY DEF Inv, CacheOK
<1>2. Left(r, Errored) = <<>> /\ Left(r, Unread) = <<>>
  BY DEF Left, Refusal, Errored, Unread
<1>3. <<>> \in Verdicts(pod[r], versions[1])
  BY DEF Verdicts
<1> QED
  BY <1>1, <1>2, <1>3 DEF Decided

LEMMA AllowUntouchedVerdict ==
  ASSUME Inv, NEW r \in Requests, AllowUntouched(r)
  PROVE  Decided(r, Allowed)
<1>1. /\ 1 \in DOMAIN versions
      /\ Left(r, Allowed) = pod[r].containers
  BY DEF Inv, CacheOK, Left, Refusal, Allowed
<1>2. pod[r].containers \in Verdicts(pod[r], versions[1])
  <2>1. CASE Disabled(pod[r])
    <3>1. App(pod[r].containers) = pod[r].containers
      BY <2>1, PodContainers, AppOfClean DEF AllowUntouched
    <3> QED
      BY <2>1, <3>1 DEF Verdicts
  <2>2. CASE ~Disabled(pod[r])
    BY <2>2 DEF AllowUntouched, Verdicts
  <2> QED
    BY <2>1, <2>2
<1> QED
  BY <1>1, <1>2 DEF Decided

LEMMA DecActiveVerdict ==
  ASSUME Inv, NEW r \in Requests, DecActive(r)
  PROVE  Decided(r, Patch(App(pod[r].containers)))
<1>1. 1 \in DOMAIN versions /\ Disabled(pod[r])
  BY DEF Inv, CacheOK, RequestInv, HandlerInv, Known, DecActive
<1>2. App(pod[r].containers) \in Verdicts(pod[r], versions[1])
  BY <1>1 DEF Verdicts
<1>3. Left(r, Patch(App(pod[r].containers))) = App(pod[r].containers)
  BY DEF Left, Refusal, Patch
<1> QED
  BY <1>1, <1>2, <1>3 DEF Decided

\* A Profiler found in the cache makes the verdict, if the pod can have it.
LEMMA IncActiveVerdict ==
  ASSUME ServiceInv, NEW r \in Requests, IncActive(r)
  PROVE  Decided(r, Patch(Append(pod[r].containers, handler[r].sidecar)))
<1>1. /\ ~Disabled(pod[r]) /\ pod[r].profiler # "absent" /\ Buildable(pod[r])
      /\ Sourced(r, handler[r].sidecar, handler[r].since)
  BY DEF ServiceInv, VerdictInv, Inv, RequestInv, HandlerInv, Known, IncActive
<1>2. PICK v \in DOMAIN versions : \E p \in versions[v] :
        Named(pod[r], p) /\ handler[r].sidecar = SidecarOf(p)
  BY <1>1 DEF Sourced
<1>3. Append(pod[r].containers, handler[r].sidecar) \in Verdicts(pod[r], versions[v])
  BY <1>1, <1>2 DEF Verdicts
<1>4. \A cs : Left(r, Patch(cs)) = cs
  BY DEF Left, Refusal, Patch
<1> QED
  BY <1>2, <1>3, <1>4 DEF Decided

\* The cache decides at once that nothing is there.
LEMMA ListVerdict ==
  ASSUME ServiceInv, NEW r \in Requests, List(r)
  PROVE  \/ Reply(r, Allowed) /\ Decided(r, Allowed)
         \/ Reply(r, Errored) /\ Decided(r, Errored)
         \/ Buildable(pod[r]) /\ \E p : Built(r, p)
<1> DEFINE n == seen[handler[r].op]
<1>1. /\ handler[r].pc = "list" /\ n > 0
      /\ \/ Listed(handler[r].op, pod[r].ns) = {} /\ Reply(r, Allowed)
         \/ Reply(r, Errored)
         \/ Buildable(pod[r]) /\ \E p : Built(r, p)
  BY DEF List
<1>2. ~Disabled(pod[r]) /\ pod[r].profiler # "absent"
  BY <1>1 DEF ServiceInv, VerdictInv, Inv, RequestInv, HandlerInv, Known
<1>3. n \in DOMAIN versions
  <2>1. n \in 0 .. Len(versions)
    BY <1>1, LiveFacts DEF ServiceInv, Handling, Inv, CacheOK
  <2> QED
    BY <1>1, <2>1 DEF ServiceInv, Inv, CacheOK
<1>4. ASSUME Listed(handler[r].op, pod[r].ns) = {} PROVE Decided(r, Allowed)
  <2>1. {p \in versions[n] : p.ns = pod[r].ns} = {}
    BY <1>4 DEF Listed
  <2>2. pod[r].containers \in Verdicts(pod[r], versions[n])
    BY <1>2, <2>1 DEF Verdicts
  <2>3. Left(r, Allowed) = pod[r].containers
    BY DEF Left, Refusal, Allowed
  <2> QED
    BY <1>3, <2>2, <2>3 DEF Decided
<1>5. Decided(r, Errored)
  BY <1>2, Refused DEF ServiceInv
<1> QED
  BY <1>1, <1>4, <1>5

\* Whatever the handler does next, it has decided when it replies.
LEMMA HandleVerdict ==
  ASSUME ServiceInv, NEW r \in Requests, Handle(r)
  PROVE  VerdictInv(r)'
<1>1. UNCHANGED <<versions, pod>>
  BY DEF Handle, Proceed, AllowUntouched, IncRemoved, DecActive, LookUp, List, IncAttached,
         IncActive, ListFails, cacheVars
<1>2. ASSUME NEW a, Reply(r, a), Decided(r, a) PROVE VerdictInv(r)'
  <2>1. handler'[r].pc = "replied" /\ handler'[r].answer = a
    BY <1>2, ReplyFacts DEF ServiceInv
  <2>2. Decided(r, handler[r].answer)'
    BY <1>1, <1>2, <2>1 DEF Decided, Left
  <2> QED
    BY <2>1, <2>2 DEF VerdictInv
<1>3. CASE AllowUntouched(r)
  BY <1>2, <1>3, AllowUntouchedVerdict DEF AllowUntouched, ServiceInv
<1>4. CASE IncRemoved(r)
  BY <1>4, GotoFacts DEF IncRemoved, VerdictInv, ServiceInv
<1>5. CASE DecActive(r)
  BY <1>2, <1>5, DecActiveVerdict DEF DecActive, ServiceInv
<1>6. CASE LookUp(r)
  BY <1>1, <1>6, GotoFacts DEF LookUp, VerdictInv, ServiceInv
<1>7. CASE List(r)
  <2>1. CASE Buildable(pod[r]) /\ \E p : Built(r, p)
    <3>1. handler'[r].pc = "attach"
      BY <2>1, BuiltFacts DEF ServiceInv
    <3>2. pod[r].profiler # "absent"
      BY <1>7 DEF List, ServiceInv, VerdictInv
    <3>3. Buildable(pod[r])'
      BY <1>1, <2>1 DEF Buildable
    <3> QED
      BY <1>1, <3>1, <3>2, <3>3 DEF VerdictInv
  <2> QED
    BY <1>2, <1>7, <2>1, ListVerdict
<1>8. CASE IncAttached(r)
  BY <1>1, <1>8, GotoFacts DEF IncAttached, VerdictInv, ServiceInv, Buildable
<1>9. CASE IncActive(r)
  BY <1>2, <1>9, IncActiveVerdict DEF IncActive
<1>10. CASE ListFails(r)
  <2>1. ~Disabled(pod[r]) /\ pod[r].profiler # "absent" /\ Reply(r, Unread)
    BY <1>10 DEF ListFails, ServiceInv, VerdictInv, Inv, RequestInv, HandlerInv, Known
  <2> QED
    BY <1>2, <2>1, Refused DEF ServiceInv
<1> QED
  BY <1>3, <1>4, <1>5, <1>6, <1>7, <1>8, <1>9, <1>10 DEF Handle, Proceed

-----------------------------------------------------------------------------
(* The other steps, and the invariant.                                     *)

\* A request under way moves its own pod and handler only.
LEMMA OthersStay ==
  ASSUME Inv, NEW r \in Requests, Request(r), NEW q \in Requests \ {r}
  PROVE  UNCHANGED <<pod[q], handler[q]>>
<1>0. DOMAIN pod = Requests /\ DOMAIN handler = Requests
  BY DEF Inv, RequestsOK
<1>1. CASE \E s \in Specs : Submit(r, s)
  BY <1>0, <1>1 DEF Submit, Ask
<1>2. CASE \E o \in Operators : Receive(r, o)
  BY <1>0, <1>2 DEF Receive
<1>3. CASE Admit(r) \/ Ignore(r) \/ Delete(r)
  BY <1>3 DEF Admit, Ignore, GiveUp, Delete, EndPod
<1>4. CASE Handle(r)
  <2>1. /\ UNCHANGED pod
        /\ \/ \E a : Reply(r, a)
           \/ \E l : Goto(r, l)
           \/ \E p : Built(r, p)
    BY <1>4 DEF Handle, Proceed, AllowUntouched, IncRemoved, DecActive, LookUp, List,
                IncAttached, IncActive, ListFails
  <2> QED
    BY <2>1, ReplyFacts, GotoFacts, BuiltFacts
<1> QED
  BY <1>1, <1>2, <1>3, <1>4 DEF Request

LEMMA RequestVerdict ==
  ASSUME ServiceInv, NEW r \in Requests, Request(r)
  PROVE  ServiceInv'
<1>1. Inv'
  BY RequestStep DEF ServiceInv
<1>2. UNCHANGED versions
  BY DEF Request, Submit, Ask, Receive, Admit, Ignore, GiveUp, Delete, EndPod, cacheVars,
         Handle, Proceed, AllowUntouched, IncRemoved, DecActive, LookUp, List, IncAttached,
         IncActive, ListFails
<1>3. Grows
  BY <1>2 DEF Grows
<1>4. ASSUME NEW q \in Requests \ {r} PROVE VerdictInv(q)'
  BY <1>3, OthersStay, VerdictStays DEF ServiceInv
<1>5. VerdictInv(r)'
  <2>1. CASE \E s \in Specs : Submit(r, s)
    <3>1. handler'[r].pc = "none"
      BY <2>1 DEF Submit, Ask, ServiceInv, Inv, RequestInv, PhaseInv
    <3> QED
      BY <3>1 DEF VerdictInv
  <2>2. CASE \E o \in Operators : Receive(r, o)
    <3>1. handler'[r].pc = "decode"
      BY <2>2 DEF Receive, ServiceInv, Inv, RequestsOK, NoHandler
    <3> QED
      BY <3>1 DEF VerdictInv
  <2>3. CASE Admit(r) \/ Ignore(r) \/ Delete(r)
    <3>1. UNCHANGED <<pod, handler>>
      BY <2>3 DEF Admit, Ignore, GiveUp, Delete, EndPod
    <3> QED
      BY <1>3, <3>1, VerdictStays DEF ServiceInv
  <2>4. CASE Handle(r)
    BY <2>4, HandleVerdict
  <2> QED
    BY <2>1, <2>2, <2>3, <2>4 DEF Request
<1> QED
  BY <1>1, <1>4, <1>5 DEF ServiceInv

LEMMA ChangeVerdict ==
  ASSUME ServiceInv, NEW p \in Profilers, ChangeProfilers(p)
  PROVE  ServiceInv'
<1>1. Grows
  BY DEF ChangeProfilers, Change, Grows, ServiceInv, Inv, CacheOK
<1>2. UNCHANGED <<pod, handler>>
  BY DEF ChangeProfilers, Change
<1>3. Inv'
  BY ChangeInv DEF ServiceInv
<1> QED
  BY <1>1, <1>2, <1>3, VerdictsKept

LEMMA ServiceStepInv == ServiceInv /\ [Next]_vars => ServiceInv'
<1> SUFFICES ASSUME ServiceInv, [Next]_vars PROVE ServiceInv'
  OBVIOUS
<1>1. Inv'
  BY StepInv DEF ServiceInv
<1>2. CASE \E p \in Profilers : ChangeProfilers(p)
  BY <1>2, ChangeVerdict
<1>3. CASE \/ \E o \in Operators : Sync(o) \/ Crash(o) \/ Start(o)
           \/ UNCHANGED vars
  <2>1. UNCHANGED <<versions, pod>>
    BY <1>3 DEF Sync, Crash, Gone, Start, cacheVars, vars
  <2>2. Grows
    BY <2>1 DEF Grows
  <2>3. \A q \in Requests : handler'[q] = handler[q] \/ handler'[q].pc = "lost"
    BY <1>3 DEF Sync, Crash, Gone, Start, vars, ServiceInv, Inv, RequestsOK, Handlers
  <2> QED
    BY <1>1, <2>1, <2>2, <2>3, VerdictsKept
<1>4. CASE \E r \in Requests : Request(r)
  BY <1>4, RequestVerdict
<1> QED
  BY <1>2, <1>3, <1>4 DEF Next

\* Nobody has decided anything yet.
LEMMA ServiceInitInv ==
  ASSUME NEW running \in SUBSET Operators, InitWith(running)
  PROVE  ServiceInv
<1>1. \A r \in Requests : handler[r].pc = "none"
  BY DEF InitWith, NoHandler
<1> QED
  BY <1>1, InitInv DEF ServiceInv, VerdictInv

-----------------------------------------------------------------------------
(* Each step is one of the service, or none.                               *)

\* The API server makes of an answer what it makes of the verdict.
LEMMA AdmitAnswers ==
  ASSUME ServiceInv, NEW r \in Requests, Admit(r)
  PROVE  Answer(r)
<1> DEFINE a == handler[r].answer
           out == CASE Refusal(a) -> [phase |-> "refused", containers |-> <<>>]
                    [] a.kind = "allowed" -> Outcome(r, pod[r].containers)
                    [] OTHER -> Outcome(r, a.containers)
<1>1. /\ call[r] = "calling" /\ handler[r].pc = "replied"
      /\ call' = [call EXCEPT ![r] = "answered"] /\ cluster' = [cluster EXCEPT ![r] = out]
      /\ UNCHANGED <<versions, pod>>
  BY DEF Admit, cacheVars
<1>2. out = Outcome(r, Left(r, a))
  <2>1. CASE Refusal(a)
    <3>1. out = [phase |-> "refused", containers |-> <<>>] /\ Left(r, a) = <<>>
      BY <2>1 DEF Left, Refusal
    <3>2. ~Valid(<<>>)
      BY DEF Valid
    <3> QED
      BY <3>1, <3>2 DEF Outcome
  <2>2. CASE a.kind = "allowed"
    <3>1. out = Outcome(r, pod[r].containers) /\ Left(r, a) = pod[r].containers
      BY <2>2 DEF Left, Refusal
    <3> QED
      BY <3>1
  <2>3. CASE ~Refusal(a) /\ a.kind # "allowed"
    <3>1. out = Outcome(r, a.containers) /\ Left(r, a) = a.containers
      BY <2>3 DEF Left, Refusal
    <3> QED
      BY <3>1
  <2> QED
    BY <2>1, <2>2, <2>3
<1> HIDE DEF out
<1>3. PICK v \in DOMAIN versions : Left(r, a) \in Verdicts(pod[r], versions[v])
  BY <1>1 DEF ServiceInv, VerdictInv, Decided
<1> QED
  BY <1>1, <1>2, <1>3 DEF Answer

LEMMA RequestServed ==
  ASSUME ServiceInv, NEW r \in Requests, Request(r)
  PROVE  [ServiceNext]_serviceVars
<1>1. CASE Admit(r)
  BY <1>1, AdmitAnswers DEF ServiceNext
<1>2. CASE \/ \E s \in Specs : Submit(r, s)
           \/ Ignore(r) \/ Delete(r)
  BY <1>2 DEF Submit, Ignore, Delete, ServiceNext
<1>3. CASE (\E o \in Operators : Receive(r, o)) \/ Handle(r)
  <2>1. UNCHANGED <<versions, pod, call, cluster>>
    BY <1>3 DEF Receive, Handle, Proceed, AllowUntouched, IncRemoved, DecActive, LookUp, List,
                IncAttached, IncActive, ListFails, cacheVars
  <2> QED
    BY <2>1 DEF serviceVars
<1> QED
  BY <1>1, <1>2, <1>3 DEF Request

LEMMA StepServed ==
  ASSUME ServiceInv, [Next]_vars
  PROVE  [ServiceNext]_serviceVars
<1>1. CASE \E p \in Profilers : ChangeProfilers(p)
  BY <1>1 DEF ChangeProfilers, ServiceNext
<1>2. CASE \/ \E o \in Operators : Sync(o) \/ Crash(o) \/ Start(o)
           \/ UNCHANGED vars
  BY <1>2 DEF Sync, Crash, Gone, Start, cacheVars, vars, serviceVars
<1> QED
  BY <1>1, <1>2, RequestServed DEF Next

\* Whatever the handlers, caches, timeouts and crashes: a pod is answered for
\* with what the rules make of it and of one state the Profilers have been in,
\* and only a pod that asks for a Profiler is refused.
THEOREM WebhookImplements == Spec => WebhookService
<1>1. Init => ServiceInv /\ ServiceInit
  BY ServiceInitInv DEF Init, InitWith
<1>2. ServiceInv /\ [Next]_vars => [ServiceNext]_serviceVars
  BY StepServed
<1> QED
  BY <1>1, <1>2, ServiceStepInv, PTL DEF Spec, WebhookService
=============================================================================
