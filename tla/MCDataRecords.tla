---------------------------- MODULE MCDataRecords ----------------------------
(* Data records in a small file.                                           *)
EXTENDS DataProps

(* Records that fit into a block and records that need several.            *)
MCSizes == <<{3, 5}, {0, 5}>>
=============================================================================
