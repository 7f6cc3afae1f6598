--------------------------- MODULE MCBlockSearch ---------------------------
(* The binary search on every sorted block of every size up to MXKEY.      *)
EXTENDS BlockSearch
=============================================================================
