------------------------------- MODULE Blocks -------------------------------
(***************************************************************************)
(* The B tree block of btlib and the routines that edit one block:         *)
(* bputky, bremky, brepky, bcpybk and the split of a key array (bsptbk).   *)
(*                                                                         *)
(* A block is the C struct bt_memrec of inc/bt.h with the information      *)
(* words the index core uses.  Positions are the C positions (from 0).     *)
(* Slots of the arrays at or past nkeys hold stale data in the program     *)
(* and are never read (TypeOK of BTree says so of the positions used);     *)
(* here they are cleared, so that equal blocks are equal values.           *)
(***************************************************************************)
EXTENDS Integers, FiniteSets

CONSTANTS
  MXKEY,     (* ZMXKEY: keys a block holds                                 *)
  THRES,     (* ZTHRES: blocks join below MXKEY - THRES keys               *)
  MAXBLK,    (* more blocks than this the index file never has             *)
  Key,       (* the stored keys; strcmp order is the order of integers     *)
  Val,       (* values of keys                                             *)
  NoEnt      (* a cleared key slot                                         *)

(* inc/bc.h rejects a build in which ZMXKEY-ZTHRES <= 0.  A new index file *)
(* has two blocks.                                                         *)
ASSUME BlockConstants ==
  /\ MXKEY \in Nat /\ THRES \in Nat /\ MXKEY > THRES
  /\ MAXBLK \in Nat /\ MAXBLK >= 2

ASSUME KeyConstants ==
  /\ Key \subseteq Int
  /\ NoEnt \notin [key : Key, val : Val]

ZNULL == -1

Entry == [key : Key, val : Val]
Link  == 0 .. MAXBLK - 1

(* Blocks 0 and 1 are the superroot and the default root: no link and no   *)
(* free list leads to them.                                                *)
Child == 2 .. MAXBLK - 1
ChildOrNull == Child \cup {ZNULL}

(* The block types the index core distinguishes.  A "none" block is past   *)
(* the end of the file, or not written to since the file grew over it.     *)
BlockType == {"none", "root", "inuse", "free"}

(* nxt is the word ZNXBLK of a free block, the next one of the free list.   *)
(* (In a block of the tree the word holds a parent that no routine reads.) *)
Block ==
  {b \in [type  : BlockType,
          nkeys : 0 .. MXKEY,
          nxt   : ChildOrNull,
          ent   : [0 .. MXKEY - 1 -> Entry \cup {NoEnt}],
          lnk   : [0 .. MXKEY -> ChildOrNull]] :
     \A i \in 0 .. b.nkeys - 1 : b.ent[i] \in Entry}

NoEnts  == [i \in 0 .. MXKEY - 1 |-> NoEnt]
NoLinks == [i \in 0 .. MXKEY |-> ZNULL]

(* bsetbk: a block with no keys, of a type and with a ZNXBLK word.         *)
FreshBlock(type, nxt) ==
  [type |-> type, nkeys |-> 0, nxt |-> nxt, ent |-> NoEnts, lnk |-> NoLinks]

(* A read of block ZNULL fails; the information words then read as 0.      *)
NoBlock == FreshBlock("none", ZNULL)

Full(b) == b.nkeys = MXKEY

----------------------------------------------------------------------------
(* Searching a block.                                                      *)

(* Positions whose key is smaller than k.  On a sorted block their number  *)
(* is where k is, or where it belongs: the exit of bsrhbk's binary search  *)
(* (module BlockSearch) and of bputky's scan from the end.                 *)
Below(b, k) == {i \in 0 .. b.nkeys - 1 : b.ent[i].key < k}
Gap(b, k)   == Cardinality(Below(b, k))

Hit(b, k) == Gap(b, k) < b.nkeys /\ b.ent[Gap(b, k)].key = k

----------------------------------------------------------------------------
(* bputky: add an entry with the links to its left and right.              *)

(* With a right link only, the key is a demoted one and goes to the end.   *)
PutPos(b, e, left, right) ==
  IF left = ZNULL /\ right # ZNULL THEN b.nkeys ELSE Gap(b, e.key)

PutEnt(b, p, e) ==
  [i \in 0 .. MXKEY - 1 |->
     IF i < p THEN b.ent[i] ELSE IF i = p THEN e ELSE b.ent[i - 1]]

(* The links right of p + 1 move up by one; at p = 0 link 0 is copied too. *)
ShiftLnk(b, p) ==
  [i \in 0 .. MXKEY |->
     IF i > p + 1 \/ (i = 1 /\ p = 0) THEN b.lnk[i - 1] ELSE b.lnk[i]]

PutLnk(b, p, left, right) ==
  IF b.nkeys = 0 THEN [NoLinks EXCEPT ![0] = left, ![1] = right]
  ELSE IF left = ZNULL /\ right = ZNULL
       THEN [ShiftLnk(b, p) EXCEPT ![p] = ZNULL, ![p + 1] = ZNULL]
       ELSE [ShiftLnk(b, p) EXCEPT
               ![0] = IF p = 0 THEN left ELSE @,
               ![p + 1] = IF right # ZNULL THEN right ELSE @]

(* A full block is left alone (and bputky records QBLKFL).                 *)
PutKey(b, e, left, right) ==
  IF Full(b) THEN b
  ELSE LET p == IF b.nkeys = 0 THEN 0 ELSE PutPos(b, e, left, right)
       IN  [b EXCEPT !.nkeys = @ + 1,
                     !.ent = PutEnt(b, p, e),
                     !.lnk = PutLnk(b, p, left, right)]

----------------------------------------------------------------------------
(* bremky: drop the key at p and the link on its right.                    *)
RemKey(b, p) ==
  [b EXCEPT
     !.nkeys = @ - 1,
     !.ent = [i \in 0 .. MXKEY - 1 |->
                IF i < p THEN b.ent[i]
                ELSE IF i + 1 < b.nkeys THEN b.ent[i + 1] ELSE NoEnt],
     !.lnk = [i \in 0 .. MXKEY |->
                IF i <= p THEN b.lnk[i]
                ELSE IF i + 1 <= b.nkeys THEN b.lnk[i + 1] ELSE ZNULL]]

(* brepky: replace the key at p and both its links.                        *)
RepKey(b, p, e, left, right) ==
  [b EXCEPT !.ent[p] = e, !.lnk[p] = left, !.lnk[p + 1] = right]

(* Faulty variant: the value of the first key.                             *)
ModValFirst(b, p, v) ==
  IF p < b.nkeys THEN [b EXCEPT !.ent[0].val = v] ELSE b

(* bmodky: replace the value at p.  A position past the last key is a      *)
(* stale slot: the write happens and is never seen.                        *)
ModVal(b, p, v) ==
  IF p < b.nkeys THEN [b EXCEPT !.ent[p].val = v] ELSE b

(* bcpybk to position 0, then bstinf(ZNKEYS): b holds n keys of f from fs. *)
CopyKeys(b, f, fs, n) ==
  [b EXCEPT
     !.nkeys = n,
     !.ent = [i \in 0 .. MXKEY - 1 |-> IF i < n THEN f.ent[fs + i] ELSE NoEnt],
     !.lnk = [i \in 0 .. MXKEY |-> IF i <= n THEN f.lnk[fs + i] ELSE ZNULL]]

(* bcpybk to the end of b, then bstinf(ZNKEYS).  The copy moves each link  *)
(* one up and then overwrites the last with f's last link: links survive   *)
(* only in leaves, where all are ZNULL.                                    *)
AppendKeys(b, f) ==
  LET t == b.nkeys  n == f.nkeys
  IN  [b EXCEPT
         !.nkeys = t + n,
         !.ent = [i \in 0 .. MXKEY - 1 |->
                    IF i < t THEN b.ent[i]
                    ELSE IF i < t + n THEN f.ent[i - t] ELSE NoEnt],
         !.lnk = [i \in 0 .. MXKEY |->
                    IF i = t + n THEN f.lnk[n]
                    ELSE IF i <= t THEN b.lnk[i]
                    ELSE IF i < t + n THEN f.lnk[i - t - 1] ELSE ZNULL]]

(* Faulty variant of Sp2: the one for an even number of keys.              *)
Sp2Even == (MXKEY \div 2) - 1

(* The split point of a full block: the key that moves up, and the number  *)
(* of keys to its right.                                                   *)
Sp  == MXKEY \div 2
Sp2 == IF MXKEY % 2 = 0 THEN Sp - 1 ELSE Sp
=============================================================================
