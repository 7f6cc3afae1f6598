------------------------------- MODULE MCShared -------------------------------
(***************************************************************************)
(* Two processes share a file with room for two roots.  One process alone  *)
(* has a file in which a root that is deleted may own up to two blocks of  *)
(* its tree, of its records and of its duplicates, while the other root    *)
(* owns some as well.                                                      *)
(***************************************************************************)
EXTENDS SharedProps

(* In the smaller file the client stores no records and no duplicates.     *)
Small ==
  \A b \in Blk : ~(Current'.blk[b].type \in {"data", "dup"} /\ Current'.blk[b].of \in Blk)

(* In the larger file one process, which does not share it, changes the    *)
(* file once before it saves it.                                           *)
First == CHOOSE p \in Proc : TRUE
Large(p) ==
  LET f == Current'
  IN  /\ p = First /\ ~shared'[p]
      /\ Current # disk => f \in {Current, Written(Current)}

(* The client does not go on working on a root that was deleted.           *)
MCNext ==
  /\ \E p \in Proc : /\ Step(p) \/ Client(p)
                     /\ IF disk.limit = MAXBLK THEN Large(p) ELSE Small
  /\ ~astray'
MCSpec == Init /\ [][MCNext]_vars /\ \A p \in Proc : WF_vars(Step(p))
=============================================================================
