----------------------------- MODULE MCAsyncIo -----------------------------
(* Two vCPUs, two addresses with two events, and a small buffer.           *)
EXTENDS AsyncIo, TLC

CONSTANTS v0, v1, a1, a2, f1, f2

MCrings == [v \in Vcpu |-> IF v = v0 THEN {a1} ELSE {a2}]
MCassigned == [a \in Doorbell |-> IF a = a1 THEN {f1} ELSE {f2}]


=============================================================================
