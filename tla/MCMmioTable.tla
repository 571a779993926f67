---------------------------- MODULE MCMmioTable ----------------------------
(* Two vCPUs and a table of three entries over a few addresses.            *)
EXTENDS MmioTable, TLC

CONSTANTS v0, v1

Symmetric == Permutations({v0, v1})

=============================================================================
