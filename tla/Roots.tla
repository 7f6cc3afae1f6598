-------------------------------- MODULE Roots --------------------------------
(***************************************************************************)
(* The roots of a file: the names in the superroot (btcrtr.c, btchgr.c,    *)
(* btdelr.c), the blocks each root owns, and the superblock as bsuper.c    *)
(* reads and writes it.                                                    *)
(*                                                                         *)
(* A call is an operator from a file to the outcomes it may have: it runs  *)
(* under the lock of the file (module SharedFile).  Of the keys of a root  *)
(* it is known whether there are any, of its blocks how many there are and *)
(* what btdelr can reach.  How many blocks a call takes and gives back is  *)
(* a choice here: modules BTree, DupKeys and DataRecords say how many, and *)
(* what is in them.                                                        *)
(***************************************************************************)
EXTENDS Integers, SequencesExt

CONSTANTS
  MAXBLK,    (* blocks are numbered from 0 to MAXBLK - 1                   *)
  Limits,    (* the sizes, in blocks, the file may be confined to          *)
  Name,      (* the names of roots but "$$super"                           *)
  Default    (* "$$default"                                                *)

ASSUME RootConstants ==
  /\ MAXBLK \in Nat /\ MAXBLK > 1 /\ Limits \subseteq 2 .. MAXBLK
  /\ Default \in Name

ZNULL  == -1
ZSUPER == 0
ZROOT  == 1                                   (* the block of "$$default"  *)
Blk    == 1 .. MAXBLK - 1

(* "inuse" is a block of the tree.  A data block is "data" while the list  *)
(* of its root leads to it and "cut" afterwards.  A block that was taken   *)
(* for a split that failed is "lost".                                      *)
Type == {"none", "root", "free", "inuse", "data", "cut", "dup", "lost"}

(* The root a block was taken for.  A root may have keys; head is its      *)
(* ZNXBLK, the block at the head of its list of data blocks.               *)
Block == [type : Type, of : Blk \cup {ZSUPER, ZNULL}, keys : BOOLEAN,
          head : Blk \cup {ZNULL}]
BlockOf(type, r) == [type |-> type, of |-> r, keys |-> FALSE, head |-> ZNULL]

(* dir has the values of each name, of which there should be one: the      *)
(* block of the root.  free is the free list; misc is ZMISC of the         *)
(* superblock, the length of the free list when it was last written.       *)
File ==
  [blk : [Blk -> Block], dir : [Name -> Seq(Blk \cup {ZNULL})],
   free : Seq(Blk), blkmx : 2 .. MAXBLK, misc : 0 .. MAXBLK,
   limit : Limits]

NewFile(limit) ==
  [blk   |-> [b \in Blk |-> IF b = ZROOT THEN BlockOf("root", b)
                                        ELSE BlockOf("none", ZNULL)],
   dir   |-> [n \in Name |-> IF n = Default THEN <<ZROOT>> ELSE <<>>],
   free  |-> <<>>, blkmx |-> 2, misc |-> 0,
   limit |-> limit]

(* bwrsup, when btsync saves the file.                                     *)
Written(f) == [f EXCEPT !.misc = Len(f.free)]

(* The blocks taken for root r, of a type.                                 *)
BlocksOf(f, r, type) == {b \in Blk : f.blk[b].type = type /\ f.blk[b].of = r}

----------------------------------------------------------------------------
(* The free list.                                                          *)

(* What bgtfre returns, call after call: the free list, then the blocks at *)
(* the end of a file that grows up to its limit.                           *)
Supply(f) == f.free \o [i \in 1 .. f.limit - f.blkmx |-> f.blkmx + i - 1]

(* The first n of them are taken and formatted.                            *)
Take(f, n, block) ==
  [f EXCEPT !.blk = [b \in Blk |-> IF \E i \in 1 .. n : Supply(f)[i] = b
                                   THEN block ELSE f.blk[b]],
            !.free = SubSeq(@, n + 1, Len(@)),
            !.blkmx = IF n > Len(f.free) THEN @ + n - Len(f.free) ELSE @]

(* bmkfre of the blocks of S.  The order plays no part.                    *)
Freed(f, S) ==
  [f EXCEPT !.blk = [b \in Blk |-> IF b \in S THEN BlockOf("free", ZNULL)
                                   ELSE f.blk[b]],
            !.free = SetToSeq(S) \o @]

----------------------------------------------------------------------------
(* The key calls on root cur: the files they may leave.                    *)

Tree(f, cur) == BlocksOf(f, cur, "inuse")
Room(f) == Len(Supply(f))
HasKeys(f, cur, yes) == [f EXCEPT !.blk[cur].keys = yes]

(* A find that gets the blocks for its splits.  A split of the root takes  *)
(* two, any other one; in a new tree there is only the root to split.      *)
Found(f, cur) ==
  {f} \cup {Take(f, n, BlockOf("inuse", cur)) :
              n \in {i \in 1 .. Room(f) :
                       f.blk[cur].keys /\ (Tree(f, cur) = {} => i = 2)}}

(* A find that does not: QSPLIT.  It has taken what there was, for splits  *)
(* that succeeded or, one block, for that of the root (bsptbk).            *)
Stuck(f, cur) ==
  IF ~f.blk[cur].keys THEN {}
  ELSE {Take(f, Room(f), BlockOf(t, cur)) :
          t \in (IF Tree(f, cur) = {} THEN {} ELSE {"inuse"})
                  \cup (IF Room(f) <= 1 THEN {"lost"} ELSE {})}

(* binsky that succeeds: a new key, or a duplicate, for which btdupkey     *)
(* takes up to two dup blocks.                                             *)
Put(f, cur) ==
  UNION {{HasKeys(g, cur, TRUE)}
           \cup {Take(g, n, BlockOf("dup", cur)) :
                   n \in {i \in 0 .. 2 : g.blk[cur].keys /\ i <= Room(g)}} :
           g \in Found(f, cur)}

(* binsky that fails: no space for a split, a key that exists (QDUP), no   *)
(* space for the second entry of a chain.                                  *)
Refused(f, cur) ==
  Stuck(f, cur)
    \cup UNION {{g} \cup {Take(g, n, BlockOf("dup", cur)) :
                            n \in {i \in 0 .. 1 : i = Room(g)}} :
                  g \in {h \in Found(f, cur) : h.blk[cur].keys}}

(* btdeldup: an entry of a chain goes, and with it may go its block, which *)
(* need not be one of this root: deldat leaves ZNXDUP at a block it frees, *)
(* and new entries go there once it is the dup block of another root.      *)
EntryGone(f) ==
  {f} \cup {Freed(f, {b}) : b \in {x \in Blk : f.blk[x].type = "dup"}}

(* bdelk1: joins and demotions give back blocks of the tree, the last join *)
(* two.  The keys of a tree with blocks are not all gone.                  *)
KeyGone(f, cur) ==
  LET tree == Tree(f, cur)
      keys == IF tree = {} THEN BOOLEAN ELSE {TRUE}
  IN  UNION {{HasKeys(Freed(f, S), cur, k) : k \in keys} :
               S \in {T \in SUBSET tree : Cardinality(tree \ T) # 1}}

(* bdelk1 of the key the context is at; unless the file is shared, a find  *)
(* renews the context, but not after a chain has lost an entry.            *)
Gone(f, cur, shared) ==
  EntryGone(f) \cup
    LET gone == UNION {KeyGone(g, cur) : g \in EntryGone(f)}
    IN  IF shared THEN gone
        ELSE UNION {Found(g, cur) \cup Stuck(g, cur) : g \in gone}

Removed(f, cur, shared) ==
  Stuck(f, cur) \cup Found(f, cur)
    \cup UNION {Gone(g, cur, shared) :
                  g \in {h \in Found(f, cur) : h.blk[cur].keys}}

----------------------------------------------------------------------------
(* The data calls on root cur.                                             *)

(* mkdblk, n times: the last block is the head of the list.                *)
Lengthened(f, cur, n) ==
  LET g == Take(f, n, BlockOf("data", cur))
  IN  IF n = 0 THEN g ELSE [g EXCEPT !.blk[cur].head = Supply(f)[n]]

(* binsdt.  The head may have room for the record; without space for a     *)
(* block that is needed, those taken before stay on the list.              *)
Stored(f, cur) ==
  {Lengthened(f, cur, n) :
     n \in (IF f.blk[cur].head = ZNULL THEN 1 ELSE 0) .. Room(f)}
NotStored(f, cur) == {Lengthened(f, cur, Room(f))}

(* deldat frees the blocks of S.  With the head it clears ZNXBLK, and the  *)
(* list does not lead to the other blocks any more.                        *)
Emptied(f, cur, S) ==
  LET g == Freed(f, S)
      rest == BlocksOf(f, cur, "data") \ S
  IN  IF f.blk[cur].head \notin S THEN g
      ELSE [g EXCEPT !.blk = [b \in Blk |->
              IF b \in rest THEN BlockOf("cut", cur)
              ELSE IF b = cur THEN [g.blk[b] EXCEPT !.head = ZNULL]
              ELSE g.blk[b]]]

(* bdeldt of a record, or of the rest of one.                              *)
Shortened(f, cur) ==
  {Emptied(f, cur, S) :
     S \in SUBSET (BlocksOf(f, cur, "data") \cup BlocksOf(f, cur, "cut"))}

(* btins deletes the record again when the key is refused.                 *)
Inserted(f, cur) ==
  NotStored(f, cur)
    \cup UNION {Put(g, cur) \cup UNION {Shortened(h, cur) : h \in Refused(g, cur)} :
                  g \in Stored(f, cur)}

(* btupd of a record that grows or shrinks.                                *)
Updated(f, cur) ==
  Stuck(f, cur) \cup Found(f, cur)
    \cup UNION {Stored(g, cur) \cup NotStored(g, cur) \cup Shortened(g, cur) :
                  g \in {h \in Found(f, cur) : h.blk[cur].keys}}

(* btdel of a key that exists.                                             *)
RecordGone(f, cur, shared) ==
  UNION {UNION {Gone(h, cur, shared) : h \in Shortened(g, cur)} :
          g \in {h \in Found(f, cur) : h.blk[cur].keys}}

----------------------------------------------------------------------------
(* The outcome of a call: the file and the current root it leaves, whether *)
(* the root changed, and whether it returns without bulock.                *)
Leaves(f, root) == [file |-> f, root |-> root, moved |-> FALSE, held |-> FALSE]
MovesTo(f, root) == [Leaves(f, root) EXCEPT !.moved = TRUE]
Holds(f, root) == [Leaves(f, root) EXCEPT !.held = TRUE]

(* The calls on the superroot.                                             *)

(* binsky(root, ZNULL) in the superroot.  ZMISC of a root says whether it  *)
(* may have duplicate keys, ZMISC of the superblock is a count of blocks:  *)
(* a name that exists is refused or becomes a duplicate, at the end of a   *)
(* chain for which btdupkey takes a block (bwrsup clears ZNXDUP).  The set *)
(* of results: it is empty when the name is refused.                       *)
NameInserted(f, n) ==
  IF f.dir[n] = <<>> THEN {[f EXCEPT !.dir[n] = <<ZNULL>>]}
  ELSE IF f.misc # 0 /\ Room(f) > 0
  THEN {[Take(f, 1, BlockOf("dup", ZSUPER)) EXCEPT !.dir[n] = Append(@, ZNULL)]}
  ELSE {}

(* btcrtr.  bupdky gives the block to the first entry of the name.  (That  *)
(* a file at its limit takes no more roots is a bound.)                    *)
Created(f, cur, n) ==
  LET named == {g \in NameInserted(f, n) : Room(g) > 0}
      root(g) == Supply(g)[1]
  IN  IF named = {} THEN {Leaves(f, cur)}
      ELSE {MovesTo([Take(g, 1, BlockOf("root", root(g)))
                       EXCEPT !.dir[n][1] = root(g)], root(g)) : g \in named}

(* btchgr.                                                                 *)
Changed(f, cur, n) ==
  IF f.dir[n] = <<>> THEN {Leaves(f, cur)} ELSE {MovesTo(f, f.dir[n][1])}

(* btdelr frees the data blocks the list of root r leads to, the blocks of *)
(* the tree and the root.  The dup blocks, and the data blocks the list    *)
(* does not lead to, stay as they are, and have no root any more.          *)
Returned(f, r) == BlocksOf(f, r, "data") \cup Tree(f, r) \cup {r}
RootFreed(f, r) ==
  LET g == Freed(f, Returned(f, r))
  IN  [g EXCEPT !.blk = [b \in Blk |-> IF g.blk[b].of = r
                                      THEN [g.blk[b] EXCEPT !.of = ZNULL]
                                      ELSE g.blk[b]]]

(* The name goes with its first entry, as any key does.                    *)
NameGone(f, n) ==
  {[g EXCEPT !.dir[n] = Tail(@)] :
     g \in {f} \cup {Freed(f, {b}) : b \in BlocksOf(f, ZSUPER, "dup")}}

(* Faulty variant: a root is not asked whether it is the current one.      *)
DeletedCurrent(f, cur, n) ==
  IF f.dir[n] = <<>> THEN {Leaves(f, cur)}
  ELSE {Leaves(RootFreed(g, f.dir[n][1]), cur) : g \in NameGone(f, n)}

Deleted(f, cur, n) ==
  IF f.dir[n] = <<>> \/ f.dir[n][1] = cur THEN {Leaves(f, cur)}
  ELSE {Leaves(RootFreed(g, f.dir[n][1]), cur) : g \in NameGone(f, n)}

----------------------------------------------------------------------------
KeyCalls == {"bfndky", "binsky", "bdelky", "btins", "btupd", "btdel", "btrecs"}

Call ==
  [op : {"btcrtr", "btchgr", "btdelr"}, name : Name]
    \cup [op : KeyCalls \cup {"btpos", "btkeys", "btlock"}]

(* What call c makes of file f for a context whose current root is cur and *)
(* which shares the file, or does not.  btpos(ZEND) of an empty root,      *)
(* btkeys, and btdel and btrecs of a key that is not found return without  *)
(* bulock.                                                                 *)
Effects(c, f, cur, shared) ==
  LET outcomes(files) == {Leaves(g, cur) : g \in files}
      missing == {Holds(g, cur) : g \in Found(f, cur) \cup Stuck(f, cur)}
  IN  CASE c.op = "btcrtr" -> Created(f, cur, c.name)
        [] c.op = "btchgr" -> Changed(f, cur, c.name)
        [] c.op = "btdelr" -> Deleted(f, cur, c.name)
        [] c.op = "bfndky" -> outcomes(Found(f, cur) \cup Stuck(f, cur))
        [] c.op = "binsky" -> outcomes(Put(f, cur) \cup Refused(f, cur))
        [] c.op = "bdelky" -> outcomes(Removed(f, cur, shared))
        [] c.op = "btins"  -> outcomes(Inserted(f, cur))
        [] c.op = "btupd"  -> outcomes(Updated(f, cur))
        [] c.op = "btdel"  -> missing \cup outcomes(RecordGone(f, cur, shared))
        [] c.op = "btrecs" -> missing \cup outcomes(
                                {g \in Found(f, cur) : g.blk[cur].keys})
        [] c.op = "btpos"  -> {IF f.blk[cur].keys THEN Leaves(f, cur)
                                                  ELSE Holds(f, cur)}
        [] c.op = "btkeys" -> {Holds(f, cur)}
        [] OTHER           -> {Leaves(f, cur)}
=============================================================================
