------------------------------ MODULE MCIoReq ------------------------------
(* Two vCPUs; one of them accesses two devices, the other one only one.    *)
EXTENDS IoReq, TLC

CONSTANTS v0, v1, a1, a2

MCdriver == [v \in Vcpu |-> IF v = v0 THEN {a1, a2} ELSE {a2}]

=============================================================================
