----------------------------- MODULE MCBlockDev -----------------------------
(* A disk with two worker threads and a queue of two requests.             *)
EXTENDS BlockDev, TLC

MCReq == 0 .. 1
MCOffset == {0, 512, 1024}
MCKind == (0 :> {"first", "ident"}) @@ (1 :> {"second"})
=============================================================================
