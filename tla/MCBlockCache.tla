----------------------------- MODULE MCBlockCache -----------------------------
(* The block cache with three slots.                                       *)
EXTENDS BlockCache
=============================================================================
