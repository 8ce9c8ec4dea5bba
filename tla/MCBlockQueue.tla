---------------------------- MODULE MCBlockQueue ----------------------------
(* Instances of the block queue: small rings, one or two callers.          *)
EXTENDS BlockQueue
=============================================================================
