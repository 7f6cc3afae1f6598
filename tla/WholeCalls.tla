------------------------------ MODULE WholeCalls ------------------------------
(***************************************************************************)
(* What the processes that share a file rely on: every call finds the file *)
(* as the call before it left it, and changes it as a whole.               *)
(***************************************************************************)
EXTENDS Roots

VARIABLE file

Init == \E n \in Limits : file = NewFile(n)

(* With a call, or between calls, the superblock may be saved.             *)
Next ==
  \E c \in Call, root \in Blk, shared \in BOOLEAN :
    \E r \in Effects(c, file, root, shared) : file' \in {r.file, Written(r.file)}

Spec == Init /\ [][Next]_file
=============================================================================
