---------------------------- MODULE BlockSearch ----------------------------
(***************************************************************************)
(* bsrhbk called with a location below zero: the binary search of a block, *)
(* one turn of its loop per step, and the position that bfndky makes of    *)
(* its exit.  BTree takes the whole search as one step that yields Gap and *)
(* Hit; the theorems of BlockSearchProofs justify that for every sorted    *)
(* block of every size.                                                    *)
(***************************************************************************)
EXTENDS Blocks

VARIABLES
  blk,      (* the block searched: nkeys and keyblk                        *)
  key,      (* the key searched for                                        *)
  lo, hi,   (* the positions still to be searched                          *)
  md,       (* the position compared last, -1 before the first             *)
  result,   (* the sign of strcmp(key, keyblk[md].key)                     *)
  quit,     (* lo = hi held when the last turn began                       *)
  pc        (* "loop" or "done"                                            *)

bsvars == <<blk, key, lo, hi, md, result, quit, pc>>

(* The part of a block that the search reads.                              *)
KeyArray == UNION {[nkeys : {n}, ent : [0 .. n - 1 -> Entry]] : n \in 0 .. MXKEY}

Sorted(b) ==
  \A i, j \in 0 .. b.nkeys - 1 : i < j => b.ent[i].key < b.ent[j].key

Sign(n) == IF n < 0 THEN -1 ELSE IF n > 0 THEN 1 ELSE 0

(* Of the type invariant the bound on md matters most: keyblk is read      *)
(* there, after the loop too unless md is -1.                              *)
BSTypeOK ==
  /\ blk \in KeyArray /\ key \in Key
  /\ lo \in 0 .. blk.nkeys
  /\ hi \in -1 .. blk.nkeys - 1
  /\ md \in -1 .. blk.nkeys - 1
  /\ result \in {-1, 0, 1}
  /\ quit \in BOOLEAN
  /\ pc \in {"loop", "done"}

(* Faulty variant of BSInit: hi is the number of keys.                     *)
BSInitHigh ==
  /\ blk \in {b \in KeyArray : Sorted(b)}
  /\ key \in Key
  /\ lo = 0 /\ hi = blk.nkeys /\ md = -1
  /\ result = -1 /\ quit = FALSE
  /\ pc = "loop"

BSInit ==
  /\ blk \in {b \in KeyArray : Sorted(b)}
  /\ key \in Key
  /\ lo = 0 /\ hi = blk.nkeys - 1 /\ md = -1
  /\ result = -1 /\ quit = FALSE
  /\ pc = "loop"

Again == lo <= hi /\ ~quit

(* Faulty variant of Turn: lo is not moved past the position compared.     *)
TurnKeepsLo ==
  LET m == (lo + hi) \div 2
      r == Sign(key - blk.ent[m].key)
  IN  /\ pc = "loop" /\ Again
      /\ quit' = (lo = hi)
      /\ md' = m
      /\ result' = r
      /\ lo' = IF r > 0 THEN m ELSE lo
      /\ hi' = IF r < 0 THEN m - 1 ELSE hi
      /\ pc' = IF r = 0 THEN "done" ELSE "loop"
      /\ UNCHANGED <<blk, key>>

(* One turn of the loop; an equal key breaks it.                           *)
Turn ==
  LET m == (lo + hi) \div 2
      r == Sign(key - blk.ent[m].key)
  IN  /\ pc = "loop" /\ Again
      /\ quit' = (lo = hi)
      /\ md' = m
      /\ result' = r
      /\ lo' = IF r > 0 THEN m + 1 ELSE lo
      /\ hi' = IF r < 0 THEN m - 1 ELSE hi
      /\ pc' = IF r = 0 THEN "done" ELSE "loop"
      /\ UNCHANGED <<blk, key>>

Leave ==
  /\ pc = "loop" /\ ~Again
  /\ pc' = "done"
  /\ UNCHANGED <<blk, key, lo, hi, md, result, quit>>

BSNext == Turn \/ Leave

BSSpec == BSInit /\ [][BSNext]_bsvars

BSFairSpec == BSSpec /\ WF_bsvars(BSNext)

(* Faulty variant of Position: always the position compared last.          *)
PositionLast == md

(* bfndky's position: past the key compared last when that one is smaller. *)
Position == IF result > 0 THEN md + 1 ELSE md

----------------------------------------------------------------------------
(* Wherever the search ends, and through either of its three exits, bfndky *)
(* has the position of the key or of the gap it belongs in, and result is  *)
(* zero exactly when the block holds the key.  In an empty block it is -1. *)
SearchRight ==
  pc = "done" =>
    IF blk.nkeys = 0 THEN md = -1 /\ result = -1
    ELSE /\ Position = Gap(blk, key)
         /\ (result = 0) <=> Hit(blk, key)

(* The loop ends: each turn leaves less between lo and hi.                 *)
SearchEnds == <>(pc = "done")
=============================================================================
