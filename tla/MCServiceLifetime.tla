-------------------------- MODULE MCServiceLifetime --------------------------
(* Instances of ServiceLifetime.                                            *)
EXTENDS ServiceLifetime

(* Requests meet while the service runs and as it begins to stop; beyond,   *)
(* with owners that settle, throw or hang in every order, one is followed.  *)
Explored ==
    \/ status = "running"
    \/ status = "stopping" /\ pending = Owners /\ ~failed
    \/ Cardinality({r \in Requests : req[r].at # "out"}) <= 1

=============================================================================
