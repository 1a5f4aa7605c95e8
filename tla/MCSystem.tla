------------------------------ MODULE MCSystem ------------------------------
(***************************************************************************)
(* A small instance of System: a Profiler with three versions, one with a  *)
(* period no ticker accepts, and its namesake in another namespace; a pod  *)
(* that asks for it, one that does so without a token, and one that was    *)
(* created from the manifest of an injected pod.                           *)
(***************************************************************************)
EXTENDS System

Profiler(ns, spec) == [ns |-> ns, name |-> "p", spec |-> spec]
MCProfilers == {Profiler("a", "old"), Profiler("a", "new"), Profiler("a", "bad"),
                Profiler("b", "other")}

Plain == [cpu |-> 0, mem |-> NotSet, period |-> 15, bucket |-> "b1", region |-> "",
          aws |-> [secret |-> "s1", id |-> FALSE, key |-> FALSE], url |-> "",
          auth |-> [type |-> "", username |-> FALSE, password |-> FALSE, secret |-> "",
                    usernameKey |-> "", passwordKey |-> ""]]
MCConfigOf ==
    [n \in {"old", "new", "bad", "other"} |->
        CASE n = "old" -> Plain
          [] n = "new" -> [Plain EXCEPT !.bucket = "b2", !.period = 0, !.aws.secret = ""]
          [] n = "bad" -> [Plain EXCEPT !.period = -1]
          [] OTHER -> [Plain EXCEPT !.bucket = "b3"]]
MCProfilerSpecs == {MCConfigOf[p.spec] : p \in MCProfilers}

App1 == [name |-> "app", spec |-> "user"]
Asking == [ns |-> "a", containers |-> <<App1>>, enable |-> "true", profiler |-> "p",
           target |-> FALSE, dryRun |-> FALSE]
Copied == [Asking EXCEPT !.enable = "absent", !.containers = <<App1, Container(Sidecar, "old")>>]
Targeted == [Asking EXCEPT !.target = TRUE]
MCSpecs == {Asking, Copied, Targeted}
MCAnnotationsOf ==
    [s \in MCSpecs |->
        [NoAnnotations EXCEPT !.target = IF s.target THEN "app" ELSE "", !.token = ~s.target]]
MCPods == {MCAnnotationsOf[s] : s \in MCSpecs}

MCKeySets == {{}, AWSVars}
=============================================================================
