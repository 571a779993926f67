------------------------------ MODULE MCTimer ------------------------------
(* One pCPU with a periodic timer and two one-shot guest timers; a second  *)
(* pCPU, where a run has one, also writes the guest timer g1.              *)
EXTENDS Timer, TLC

CONSTANTS tick_timer, g1, g2, c1, c2

MCperiod == [t \in Timer |-> IF t = tick_timer THEN 2 ELSE 0]
MClocal == [t \in Timer |-> {c1}]
MCremote == [t \in Timer |-> IF t = g1 THEN {c1, c2} ELSE {c1}]

=============================================================================
