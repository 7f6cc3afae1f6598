------------------------------ MODULE BTreeProps ------------------------------
(***************************************************************************)
(* The properties of the index core that relate several blocks: the shape  *)
(* of the tree, the accounting of blocks, the stack, and the dictionary    *)
(* the tree stands for.                                                    *)
(***************************************************************************)
EXTENDS BTree

(* The blocks a block points to.                                           *)
Children(b) ==
  {blocks[b].lnk[i] : i \in 0 .. blocks[b].nkeys} \ {ZNULL}

(* The blocks of the tree by level, and all of them.  A level below the    *)
(* root has two blocks at least.                                           *)
MaxDepth == MAXBLK \div 2

Level ==
  LET L[d \in 0 .. MaxDepth] ==
        IF d = 0 THEN {ROOT} ELSE UNION {Children(b) : b \in L[d - 1]}
  IN  L
Reached == UNION {Level[d] : d \in 0 .. MaxDepth}

(* The blocks of the free list, from its head.                             *)
FreeList ==
  LET F[n \in 0 .. MAXBLK] ==
        IF n = 0 THEN super.freep ELSE Read(blocks, F[n - 1]).nxt
  IN  {F[n] : n \in 0 .. MAXBLK} \ {ZNULL}

(* The entries of a block, and of the tree.                                *)
EntsOf(b) == {blocks[b].ent[i] : i \in 0 .. blocks[b].nkeys - 1}
Entries   == UNION {EntsOf(b) : b \in Reached}

(* The block where bfndky ends its search for key k, were no block full.  *)
Home(k) ==
  LET P[d \in 0 .. MAXBLK] ==
        IF d = 0 THEN ROOT
        ELSE LET at == P[d - 1]
                 b  == blocks[at]
                 c  == IF b.nkeys = 0 THEN ZNULL ELSE b.lnk[Gap(b, k)]
             IN  IF Hit(b, k) \/ c = ZNULL THEN at ELSE c
  IN  P[MAXBLK]

----------------------------------------------------------------------------
(* Every key of the tree is found by the descent of bfndky, in the only    *)
(* block that holds it: splits (bsptbk), joins (bjoin), balances (balbk1), *)
(* demotions (bdemte) and replacements (bdelk1) keep the search order.     *)
(* While a demotion is pending the keys below an empty block are out of    *)
(* reach; no call runs then.                                               *)
SearchTree ==
  LET tree_blocks == Reached
  IN  ~spoiled /\ pc # "demote" =>
        \A b \in tree_blocks : \A i \in 0 .. blocks[b].nkeys - 1 :
          LET k == blocks[b].ent[i].key
          IN  /\ b = Home(k) /\ Gap(blocks[b], k) = i
              /\ \A c \in tree_blocks \ {b} : \A e \in EntsOf(c) : e.key # k

(* All leaves are at one depth, no block but the root is empty, and a      *)
(* block has either no child or one more than it has keys: bleaf, bnxtky   *)
(* and bdelk1 rely on each of the three.  (An interior block is empty      *)
(* while its demotion is pending, a leaf until it is joined or balanced.)  *)
Balanced ==
  ~spoiled /\ pc \notin {"join", "balance", "demote"} =>
    /\ \A b \in Reached :
         /\ b = ROOT \/ blocks[b].nkeys > 0
         /\ Cardinality(Children(b)) \in {0, blocks[b].nkeys + 1}
    /\ \A d \in 0 .. MaxDepth :
         \A b, c \in Level[d] : Children(b) = {} <=> Children(c) = {}

(* The frames bpush left lead from the root, link by link, to the block of *)
(* the last find: the parents that splits, joins, balances and demotions   *)
(* pull are the parents.                                                   *)
StackIsPath ==
  LET path == Append(stk, [blk |-> lf.blk, pos |-> lf.pos])
  IN  /\ ~spoiled /\ pc \notin {"idle", "refind"} =>
           \A n \in 2 .. Len(path) :
             path[n].blk = IF n = 2 THEN ROOT
                           ELSE blocks[path[n - 1].blk].lnk[path[n - 1].pos]
      /\ pc \in {"find", "refind"} /\ ~spoiled =>
           cblk = IF lf.blk = ZNULL THEN ROOT ELSE blocks[lf.blk].lnk[lf.pos]

(* The free list holds free blocks of the file, as many as the superblock  *)
(* counts, and none of them is in the tree: bgtfre never hands out a block *)
(* that bfndky can reach (bdemte and bjoin free blocks they just read).    *)
FreeListSound ==
  LET free == FreeList  used == Reached
  IN  ~spoiled =>
        /\ \A b \in free : blocks[b].type = "free" /\ b < super.blkmx
        /\ Cardinality(free) = super.nfree
        /\ free \cap used = {}
        /\ \A b \in used : blocks[b].type \in {"root", "inuse"}
                          /\ b < super.blkmx

(* Blocks of the file that are neither in the tree nor on the free list.   *)
(* While a demotion is pending, cblk is what the parent will point to.     *)
Lost == (2 .. super.blkmx - 1) \ (Reached \cup FreeList)

(* A block is lost only by a split of the root that gets one of the two    *)
(* blocks it needs (bsptbk returns without giving it back); no other step  *)
(* of any call loses a block.                                              *)
LostOnlyWhenFull ==
  [][ \/ UNCHANGED tree \/ spoiled'
      \/ Lost' = Lost
      \/ err' = "QF2BIG" /\ Lost \subseteq Lost' ]_vars

(* A step of a call changes no entry but that of its own key: a delete     *)
(* removes it, an insert adds it, an update changes its value.             *)
OwnEntryOnly ==
  LET old  == Entries
      new  == Entries'
      gone == {e.key : e \in old \ new}
      come == {e.key : e \in new \ old}
  IN  UNCHANGED blocks \/
      /\ gone \cup come \subseteq {lf.key}
      /\ gone \ come # {} => op.name = "del"
      /\ come \ gone # {} => op.name = "ins"
      /\ gone \cap come # {} => op.name = "upd"

(* No call loses, adds or changes another key's entry, however many splits *)
(* (bsptbk), joins (bjoin), balances (balbk1) and demotions (bdemte) it    *)
(* takes, or fails half way because the file cannot grow.                  *)
OnlyItsKey == [][OwnEntryOnly]_vars

(* The same of every call in which no demotion meets a full sister.        *)
OnlyItsKeyUnlessSpoiled == [][~spoiled' => OwnEntryOnly]_vars

(* bupdky changes the value of the current key and of no other.            *)
UpdatesCurrentKey ==
  [][ pc = "update" =>
        \A e \in Entries' \ Entries : lf.exct /\ e.key = lf.key ]_vars

(* Every call returns: the loop of bfndky, which looks at the parent again *)
(* after a split, and the loop of bdemte, which climbs the tree, both end. *)
CallsReturn == (pc # "idle") ~> (pc = "idle")

----------------------------------------------------------------------------
IX == INSTANCE Index WITH
        dict <- Entries,
        cur  <- IF lf.exct THEN lf.key ELSE NoKey,
        call <- op,
        done <- pc \in {"join", "balance", "demote", "refind"}

(* BTree, with the moves of Navigate, implements the dictionary of module  *)
(* Index: each call takes effect at one of its steps and returns what the  *)
(* dictionary says, whatever splits, joins and balances it takes; a delete *)
(* that bdelk1 refuses for its name (QDELER) deletes nothing.              *)
Implements == IX!Spec
=============================================================================
