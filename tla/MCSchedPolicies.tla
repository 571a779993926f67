-------------------------- MODULE MCSchedPolicies --------------------------
(* Threads on one pCPU, and a second pCPU that calls sleep_thread and      *)
(* wake_thread from outside.                                               *)
EXTENDS SchedPolicies, TLC

CONSTANTS v1, v2, v3, c1, c2

MCThread == {v1, v2, v3}
MChome == v1 :> c1 @@ v2 :> c1 @@ v3 :> c1
MCassigned == [s \in Scheduler |-> IF s = "noop" THEN {v1}
                                   ELSE IF s = "prio" THEN MCThread ELSE {v1, v2}]
MCvt_ratio == v1 :> 1 @@ v2 :> 2 @@ v3 :> 1
MCpriority == v1 :> 1 @@ v2 :> 2 @@ v3 :> 2

=============================================================================
