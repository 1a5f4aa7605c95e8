-------------------------- MODULE ProfilingService --------------------------
(***************************************************************************)
(* What a profiling sidecar promises, without ticker, kubelet, files or    *)
(* retries: it deals with one profile at a time, samples the CPU at most   *)
(* once per cooldown while it lives, and what it has sampled it either     *)
(* delivers once or gives up.  Sidecar implements it (Sidecar!ServiceSpec):*)
(* sampling is the HTTP request to the target (sidecar/cmd/main.go:303-384)*)
(* and holding is the upload (main.go:396-420, s3.go:36-102).              *)
(***************************************************************************)
EXTENDS Integers

CONSTANT Cooldown

VARIABLES
    time,
    phase,      \* "idle", "sampling", "holding" or "stopped"
    subject,    \* kind of the profile in hand, "none" when there is none
    lastCpu,    \* when the CPU was last sampled in this life, or Never
    delivered   \* profiles delivered in this life

vars == <<time, phase, subject, lastCpu, delivered>>

Never == -1

Init ==
    /\ time = 0
    /\ phase = "idle"
    /\ subject = "none"
    /\ lastCpu = Never
    /\ delivered = 0

\* Time passes, whatever the service does.
Pass == time' = time + 1 /\ UNCHANGED <<phase, subject, lastCpu, delivered>>

\* Start to sample; the attempt may fail at once.
SampleCpu ==
    /\ phase = "idle"
    /\ lastCpu = Never \/ time - lastCpu > Cooldown
    /\ lastCpu' = time
    /\ \/ phase' = "sampling" /\ subject' = "profile"
       \/ UNCHANGED <<phase, subject>>
    /\ UNCHANGED <<time, delivered>>

SampleHeap ==
    /\ phase = "idle"
    /\ phase' = "sampling" /\ subject' = "heap"
    /\ UNCHANGED <<time, lastCpu, delivered>>

Sampled ==
    /\ phase = "sampling"
    /\ phase' = "holding"
    /\ UNCHANGED <<time, subject, lastCpu, delivered>>

Drop == phase' = "idle" /\ subject' = "none" /\ UNCHANGED <<time, lastCpu>>

Deliver == phase = "holding" /\ Drop /\ delivered' = delivered + 1

GiveUp == phase \in {"sampling", "holding"} /\ Drop /\ UNCHANGED delivered

Stop ==
    /\ phase # "stopped"
    /\ phase' = "stopped" /\ subject' = "none" /\ lastCpu' = Never
    /\ delivered' = 0
    /\ UNCHANGED time

Revive ==
    /\ phase = "stopped"
    /\ phase' = "idle"
    /\ UNCHANGED <<time, subject, lastCpu, delivered>>

Next ==
    \/ Pass \/ SampleCpu \/ SampleHeap \/ Sampled
    \/ Deliver \/ GiveUp \/ Stop \/ Revive

Spec == Init /\ [][Next]_vars
=============================================================================
