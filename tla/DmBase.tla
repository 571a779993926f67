------------------------------- MODULE DmBase -------------------------------
(***************************************************************************)
(* What the models of hypervisor/dm/io_req.c have in common.               *)
(***************************************************************************)

CONSTANTS
    Vcpu,       \* the vCPUs of the VM
    Nobody      \* no vCPU, address or event: a free lock, an empty field

ASSUME NobodyType == Nobody \notin Vcpu

=============================================================================
