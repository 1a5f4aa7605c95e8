--------------------------- MODULE MCPodAdmission ---------------------------
(***************************************************************************)
(* Small instances of PodAdmission.  In namespace "a" there may be Profiler *)
(* "p", with either of two specs, but no "q"; namespace "b" has none.  The *)
(* pods cover each value of each annotation, a Profiler of another         *)
(* namespace, a sidecar copied into the submitted pod, a pod without       *)
(* containers and a dry run.                                               *)
(***************************************************************************)
EXTENDS PodAdmission, TLC

CONSTANT Edits      \* what the spec of a Profiler may say
MCProfilers == {[ns |-> "a", name |-> "p", spec |-> e] : e \in Edits}

Submitted(ns, cs, enable, profiler) ==
    [ns |-> ns, containers |-> cs, enable |-> enable, profiler |-> profiler,
     target |-> FALSE, dryRun |-> FALSE]
App1 == Container("app", "user")
App2 == Container("log", "user")
Plain == <<App1, App2>>
Copied == <<App1, Container(Sidecar, "user"), App2>>

Enabled == Submitted("a", Plain, "true", "p")
Unnamed == Submitted("a", Plain, "true", "absent")
Misnamed == Submitted("a", Plain, "true", "q")
Off == Submitted("a", Plain, "false", "p")
CopiedOff == Submitted("a", Copied, "absent", "p")
CopiedOn == Submitted("a", Copied, "true", "p")
Elsewhere == Submitted("b", <<App1>>, "true", "p")
Hollow == Submitted("a", <<>>, "true", "p")
HollowDry == [Hollow EXCEPT !.enable = "other", !.target = TRUE, !.dryRun = TRUE]

AllSpecs == {Enabled, Unnamed, Misnamed, Off, CopiedOff, CopiedOn, Elsewhere,
             Hollow, HollowDry}
EnabledOnly == {Enabled}

\* Requests differ only in what is submitted, edits in nothing at all.
Symmetry == Permutations(Requests) \cup Permutations(Edits)
=============================================================================
