----------------------------- MODULE MCVcpuRun -----------------------------
(* vCPUs on one pCPU, and contexts on the other pCPUs that act on them.    *)
EXTENDS VcpuRun

CONSTANTS v1, c1

MCHome == [t \in Thread |-> c1]

=============================================================================
