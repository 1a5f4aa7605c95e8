----------------------------- MODULE MCOperator -----------------------------
(***************************************************************************)
(* A small instance of Operator: two replicas, one Profiler that comes and *)
(* goes, one dry run of a pod that asks for it: a request is all that is   *)
(* needed of the pod here.                                                 *)
(***************************************************************************)
EXTENDS Operator

MCProfilers == {[ns |-> "a", name |-> "p", spec |-> "old"]}
MCSpecs ==
    {[ns |-> "a", containers |-> <<[name |-> "app", spec |-> "user"]>>, enable |-> "true",
      profiler |-> "p", target |-> FALSE, dryRun |-> TRUE]}
=============================================================================
