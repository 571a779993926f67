------------------------------ MODULE MCPtIntx ------------------------------
(* One line of a User VM whose interrupts may be delayed.                  *)
EXTENDS PtIntx

=============================================================================
