------------------------------ MODULE MCDupKeys ------------------------------
(***************************************************************************)
(* Duplicate keys in blocks of two entries.  In a file of one dup block    *)
(* two processes meet, and all values are the same.  In a file of two dup  *)
(* blocks, where chains cross blocks, one process is enough to move,       *)
(* insert, update and delete in any order.  Duplicates, once allowed, stay  *)
(* allowed.                                                                *)
(***************************************************************************)
EXTENDS DupProps, TLC

(* The processes are alike, and so are the values.                         *)
Alike == Permutations(Proc) \cup Permutations(Val)

Alone(p) == \A q \in Proc \ {p} : lf[q] = NoLf /\ place[q] = Nowhere

(* Block 2 is the one dup block of the small file.                         *)
OneValue ==
  LET segs == {st.blk[2].seg[o] : o \in Offset} \ {NoSeg}
      held == {idx.slot[i].val : i \in Slot} \cup {s.data.val : s \in segs}
  IN  Cardinality(held \cap Val) < 2

MCNext ==
  /\ \/ st.limit < MAXBLK /\ (\E p \in Proc : Calls(p)) /\ OneValue'
     \/ st.limit = MAXBLK /\ \E p \in Proc : Alone(p) /\ Calls(p)
  /\ dups => dups'
MCSpec == Init /\ [][MCNext]_vars
=============================================================================
