-------------------------------- MODULE BTree --------------------------------
(***************************************************************************)
(* The index core of btlib for one root of one open index file: the API    *)
(* calls bfndky, binsky, bdelky and bupdky, the last two also with a NULL  *)
(* key (the current key), and every routine they call that changes a       *)
(* block, the superblock or the context of the last find.                  *)
(*                                                                         *)
(* The file is open in exclusive, write mode and duplicate keys are off.   *)
(* Blocks are read and written through the block cache as through one      *)
(* coherent store.  The loops of the code (the descent of bfndky and of    *)
(* bleaf, the demotions after a join) are steps, so an operation is a      *)
(* sequence of steps; pc says which routine runs next.                     *)
(***************************************************************************)
EXTENDS Blocks, Sequences

CONSTANTS
  NoKey,         (* no key: the NULL argument, and an empty lfkey          *)
  NoVal,         (* no value returned                                      *)
  LongKey,       (* stored keys the client names by a string longer than   *)
                 (* ZKYLEN - 1: the key is stored and looked up truncated  *)
  Limits,        (* the sizes, in blocks, the file may be confined to      *)
  StrictClient   (* TRUE: bupdky(NULL) is called only after a call that    *)
                 (* selected a current key                                 *)

ASSUME CallConstants ==
  /\ NoKey \notin Key /\ NoVal \notin Val
  /\ LongKey \subseteq Key
  /\ Limits \subseteq 2 .. MAXBLK
  /\ StrictClient \in BOOLEAN

VARIABLES
  blocks,   (* the blocks of the file                                      *)
  super,    (* cntxt.super: blkmx, nfree and freep; and the limit that     *)
            (* bgtfre sees, a number of blocks                             *)
  lf,       (* cntxt.lf: block, position, exactness and key of last find   *)
  stk,      (* cntxt.stk: a frame for each push of a block and a position  *)
  pc,       (* the routine that runs next; "idle" between API calls        *)
  op,       (* the API call under way                                      *)
  cblk,     (* the local cblk of bfndky, bdelk1 and bdemte                 *)
  tgt,      (* bdelk1: where the key to be replaced is                     *)
  err,      (* btgerr(): the first error of the call                       *)
  out,      (* the value bfndky returned                                   *)
  spoiled   (* a ghost: a demotion found its sister full, or a routine     *)
            (* met an inconsistency.  The call runs to its end (its keys   *)
            (* need not be in order); no further call is modelled.         *)

vars == <<blocks, super, lf, stk, pc, op, cblk, tgt, err, out, spoiled>>
tree == <<blocks, super>>

ROOT == 1
TreeBlk == {ROOT} \cup Child

OpName == {"none", "find", "ins", "del", "upd"}
PC     == {"idle", "find", "insert", "update", "delete", "descend", "join",
           "balance", "demote", "refind"}

(* Errors of the index core that tell of a broken structure.               *)
Internal == {"QBLKFL", "QJNSE", "QDEMSE", "QDELRP"}
Error    == {"OK", "QNOKEY", "QDUP", "QDELEX", "QDELER", "QLOCTB", "QF2BIG",
             "QNOTFR"} \cup Internal

NoFrame == [blk |-> ZNULL, pos |-> -1]
Frame   == [blk : TreeBlk, pos : 0 .. MXKEY] \cup {NoFrame}
NoOp == [name |-> "none", key |-> NoKey, val |-> NoVal]

(* The type invariant: nothing is out of the range its C type and its use  *)
(* give it; in particular no array is indexed outside its bounds.          *)
TypeOK ==
  /\ blocks \in [Link -> Block]
  /\ super \in [blkmx : 2 .. MAXBLK, nfree : Int, freep : ChildOrNull,
               limit : Limits]
  /\ lf \in [blk : TreeBlk \cup {ZNULL}, pos : -1 .. MXKEY, exct : BOOLEAN,
             key : Key \cup {NoKey}]
  /\ stk \in Seq(Frame)
  /\ pc \in PC
  /\ op \in [name : OpName, key : Key \cup {NoKey}, val : Val \cup {NoVal}]
  /\ cblk \in TreeBlk \cup {ZNULL}
  /\ tgt \in Frame
  /\ err \in Error
  /\ out \in Val \cup {NoVal}
  /\ spoiled \in BOOLEAN

(* btcrt: the superroot and an empty default root.                         *)
Init ==
  /\ blocks = [b \in Link |-> IF b \in {0, ROOT} THEN FreshBlock("root", ZNULL)
                                                 ELSE FreshBlock("none", ZNULL)]
  /\ \E n \in Limits :
       super = [blkmx |-> 2, nfree |-> 0, freep |-> ZNULL, limit |-> n]
  /\ lf = [blk |-> ZNULL, pos |-> -1, exct |-> FALSE, key |-> NoKey]
  /\ stk = <<>>
  /\ pc = "idle" /\ op = NoOp
  /\ cblk = ZNULL /\ tgt = NoFrame
  /\ err = "OK" /\ out = NoVal
  /\ spoiled = FALSE

----------------------------------------------------------------------------
(* The free list (bgtfre, bmkfre) and the stack.                           *)

(* bgtfre: the block it returns, ZNULL when there is none to be had ...    *)
GetFree(s, B) ==
  IF s.freep # ZNULL
  THEN IF B[s.freep].type = "free" THEN s.freep ELSE ZNULL
  ELSE IF s.blkmx < s.limit THEN s.blkmx ELSE ZNULL

(* ... the superblock it leaves ...                                        *)
Taken(s, B) ==
  IF s.freep # ZNULL
  THEN [s EXCEPT !.freep = B[s.freep].nxt, !.nfree = @ - 1]
  ELSE [s EXCEPT !.blkmx = @ + 1]

(* ... and the error it records when it returns ZNULL.                     *)
NoFree(s) == IF s.freep # ZNULL THEN "QNOTFR" ELSE "QF2BIG"

(* Faulty variants: the rest of the free list dropped, the count not kept. *)
FreeBlockUnlinked(s, B, b) == [B EXCEPT ![b] = FreshBlock("free", ZNULL)]
FreeSuperUncounted(s, b)   == [s EXCEPT !.freep = b]

(* bmkfre, on the blocks and on the superblock.                            *)
FreeBlock(s, B, b) == [B EXCEPT ![b] = FreshBlock("free", s.freep)]
FreeSuper(s, b)    == [s EXCEPT !.freep = b, !.nfree = @ + 1]

(* Faulty variants: nothing pulled, two frames pulled.                     *)
RestKept == stk
RestTwo  == SubSeq(stk, 1, Len(stk) - 2)

(* bpush of a block and a position, and the bpulls that undo it.  bpull    *)
(* of an empty stack returns 0.                                            *)
Push(b, p) == Append(stk, [blk |-> b, pos |-> p])
Top  == IF stk = <<>> THEN [blk |-> 0, pos |-> 0] ELSE stk[Len(stk)]
Rest == IF stk = <<>> THEN <<>> ELSE SubSeq(stk, 1, Len(stk) - 1)

(* A position of the last find, in another block.                          *)
At(b, p) == [lf EXCEPT !.blk = b, !.pos = p]

Read(B, b) == IF b = ZNULL THEN NoBlock ELSE B[b]
Blk(b) == Read(blocks, b)
Node   == Blk(lf.blk)

----------------------------------------------------------------------------
(* How an operation starts and ends.                                       *)

(* bfndky up to its loop: bstkin, bclrlf, lfkey.                           *)
StartFind(k) ==
  /\ stk' = <<>>
  /\ lf' = [blk |-> ZNULL, pos |-> -1, exct |-> FALSE, key |-> k]
  /\ cblk' = ROOT
  /\ tgt' = NoFrame

(* The API call returns e; the tree and the context are set by the caller. *)
Return(e) ==
  /\ pc' = "idle" /\ op' = NoOp
  /\ err' = e
  /\ cblk' = ZNULL /\ tgt' = NoFrame

(* A routine met what a sound tree rules out (NoInternalError says it      *)
(* never does): it records e and gives up.                                 *)
GiveUp(e) ==
  /\ Return(e)
  /\ spoiled' = TRUE
  /\ UNCHANGED <<tree, lf, stk, out>>

(* Faulty variant: the context is left as the deletion found it.           *)
ReestablishNot == Return(err) /\ UNCHANGED <<lf, stk, out>>

(* The end of bdelk1 in exclusive mode: unless there was an error, find    *)
(* the deleted key again, so that the context is valid for what follows.   *)
Reestablish ==
  IF err = "OK"
  THEN /\ StartFind(lf.key)
       /\ pc' = "refind"
       /\ UNCHANGED <<op, err, out>>
  ELSE Return(err) /\ UNCHANGED <<lf, stk, out>>

Call(name, k, v) ==
  /\ pc = "idle" /\ ~spoiled
  /\ op' = [name |-> name, key |-> k, val |-> v]
  /\ err' = "OK" /\ out' = NoVal
  /\ UNCHANGED <<tree, spoiled>>

CallByKey(name, k, v) ==
  /\ Call(name, k, v)
  /\ StartFind(k)
  /\ pc' = "find"

Bfndky(k)    == CallByKey("find", k, NoVal)
Binsky(k, v) == CallByKey("ins", k, v)
Bdelky(k)    == CallByKey("del", k, NoVal)
Bupdky(k, v) == CallByKey("upd", k, v)

(* bdelky and bupdky with a NULL key act on the context of the last find.  *)
BdelkyCurrent ==
  /\ Call("del", NoKey, NoVal)
  /\ pc' = "delete"
  /\ UNCHANGED <<lf, stk, cblk, tgt>>

BupdkyCurrent(v) ==
  /\ StrictClient => lf.exct
  /\ Call("upd", NoKey, v)
  /\ pc' = "update"
  /\ UNCHANGED <<lf, stk, cblk, tgt>>

----------------------------------------------------------------------------
(* bfndky: the descent, and the splits on the way (bsptbk).                *)

(* What the caller of bfndky does with its result (v is the value found).  *)
GoOn(next) ==
  /\ pc' = next /\ cblk' = ZNULL
  /\ UNCHANGED <<op, err, out, tgt>>

Found(v) ==
  \/ pc = "refind" /\ Return("OK") /\ UNCHANGED out
  \/ pc = "find" /\ op.name = "find" /\ Return("OK") /\ out' = v
  \/ pc = "find" /\ op.name = "ins" /\ Return("QDUP") /\ UNCHANGED out
  \/ pc = "find" /\ op.name = "del" /\ GoOn("delete")
  \/ pc = "find" /\ op.name = "upd" /\ GoOn("update")

NotFound ==
  \/ pc = "refind" /\ Return("OK") /\ UNCHANGED out
  \/ pc = "find" /\ op.name = "ins" /\ GoOn("insert")
  \/ pc = "find" /\ op.name # "ins" /\ Return("QNOKEY") /\ UNCHANGED out

(* bsrhbk of a block that need not be split, and the move to a child.      *)
SearchBlock ==
  LET b == Blk(cblk)
      p == IF b.nkeys = 0 THEN -1 ELSE Gap(b, lf.key)
      child == IF b.nkeys = 0 THEN ZNULL ELSE b.lnk[p]
  IN  /\ pc \in {"find", "refind"} /\ ~Full(b)
      /\ stk' = Push(lf.blk, lf.pos)
      /\ lf' = [lf EXCEPT !.blk = cblk, !.pos = p, !.exct = Hit(b, lf.key)]
      /\ \/ Hit(b, lf.key) /\ Found(b.ent[p].val)
         \/ ~Hit(b, lf.key) /\ child = ZNULL /\ NotFound
         \/ /\ ~Hit(b, lf.key) /\ child # ZNULL
            /\ cblk' = child
            /\ UNCHANGED <<pc, op, err, out, tgt>>
      /\ UNCHANGED <<tree, spoiled>>

(* bfndky gives up: no block to be had for a split.                        *)
NoSpace(e) ==
  /\ Return(e)
  /\ UNCHANGED <<blocks, lf, stk, out, spoiled>>

(* bsptbk of the root: two new blocks take its halves, the middle key      *)
(* stays.  When only the first can be had it stays taken.                  *)
SplitRoot ==
  LET r  == Blk(ROOT)
      b1 == GetFree(super, blocks)
      s1 == Taken(super, blocks)
      b2 == GetFree(s1, blocks)
      new == FreshBlock("inuse", ZNULL)
  IN  /\ pc \in {"find", "refind"} /\ cblk = ROOT /\ Full(r)
      /\ \/ b1 = ZNULL /\ NoSpace(NoFree(super)) /\ UNCHANGED super
         \/ /\ b1 # ZNULL /\ b2 = ZNULL
            /\ NoSpace(NoFree(s1)) /\ super' = s1
         \/ /\ b1 # ZNULL /\ b2 # ZNULL
            /\ super' = Taken(s1, blocks)
            /\ blocks' = [blocks EXCEPT
                 ![b1] = CopyKeys(new, r, 0, Sp),
                 ![b2] = CopyKeys(new, r, Sp + 1, Sp2),
                 ![ROOT] = [RepKey(CopyKeys(r, r, 0, 0), 0, r.ent[Sp], b1, b2)
                              EXCEPT !.nkeys = 1]]
            /\ UNCHANGED <<lf, stk, pc, op, cblk, tgt, err, out, spoiled>>

(* bsptbk of block b under its parent p: a new block takes the upper half, *)
(* the middle key goes to the parent.                                      *)
Split(B, b, new, p) ==
  LET f == Read(B, b)
  IN  [B EXCEPT
         ![new] = CopyKeys(FreshBlock("inuse", ZNULL), f, Sp + 1, Sp2),
         ![b]   = CopyKeys(f, f, 0, Sp),
         ![p]   = PutKey(B[p], f.ent[Sp], b, new)]

(* After the split bfndky looks at the parent again.                       *)
SplitChild ==
  LET new == GetFree(super, blocks)
  IN  /\ pc \in {"find", "refind"} /\ cblk # ROOT /\ Full(Blk(cblk))
      /\ \/ new = ZNULL /\ NoSpace(NoFree(super)) /\ UNCHANGED super
         \/ new # ZNULL /\ Full(Node) /\ GiveUp("QBLKFL")
         \/ /\ new # ZNULL /\ ~Full(Node)
            /\ blocks' = Split(blocks, cblk, new, lf.blk)
            /\ super' = Taken(super, blocks)
            /\ cblk' = lf.blk
            /\ lf' = At(Top.blk, Top.pos)
            /\ stk' = Rest
            /\ UNCHANGED <<pc, op, tgt, err, out, spoiled>>

----------------------------------------------------------------------------
(* binsky and bupdky once bfndky has positioned them; bleaf(1).            *)

AtLeaf == Node.nkeys = 0 \/ Node.lnk[lf.pos] = ZNULL

(* Faulty variant: bleaf(0).                                               *)
DescendLeftmost ==
  LET c == Node.lnk[lf.pos]
  IN  /\ pc = "descend" /\ ~AtLeaf
      /\ stk' = Push(lf.blk, lf.pos)
      /\ lf' = At(c, 0)
      /\ UNCHANGED <<tree, pc, op, cblk, tgt, err, out, spoiled>>

(* One turn of bleaf(1): to the child at the position, at its right end.   *)
Descend ==
  LET c == Node.lnk[lf.pos]
  IN  /\ pc = "descend" /\ ~AtLeaf
      /\ stk' = Push(lf.blk, lf.pos)
      /\ lf' = At(c, Blk(c).nkeys)
      /\ UNCHANGED <<tree, pc, op, cblk, tgt, err, out, spoiled>>

(* bfndky ended at a leaf, so binsky's own bleaf(1) stays where it is.     *)
InsertKey ==
  /\ pc = "insert"
  /\ IF Full(Node) THEN GiveUp("QBLKFL")
     ELSE /\ blocks' = [blocks EXCEPT ![lf.blk] =
                          PutKey(@, [key |-> op.key, val |-> op.val],
                                 ZNULL, ZNULL)]
          /\ Return("OK")
          /\ UNCHANGED <<super, lf, stk, out, spoiled>>

(* bmodky.  Nothing asks whether the last find was exact.                  *)
UpdateKey ==
  /\ pc = "update"
  /\ IF lf.pos < 0 \/ lf.pos >= MXKEY
     THEN Return("QLOCTB") /\ UNCHANGED blocks
     ELSE /\ blocks' = [blocks EXCEPT ![lf.blk] = ModVal(@, lf.pos, op.val)]
          /\ Return("OK")
  /\ UNCHANGED <<super, lf, stk, out, spoiled>>

----------------------------------------------------------------------------
(* bdelk1: remove a key; a key of an interior block is replaced by the     *)
(* last key of the leaves on its left.                                     *)

(* bremky from a leaf.  The root needs no join and no balance.             *)
AfterRemoval(pos) ==
  /\ UNCHANGED <<super, spoiled>>
  /\ IF Node.type = "root"
     THEN Reestablish
     ELSE /\ pc' = "join" /\ lf' = At(lf.blk, pos)
          /\ UNCHANGED <<stk, op, cblk, tgt, err, out>>

(* The key passed in is compared with the stored key, untruncated.         *)
DeleteKey ==
  /\ pc = "delete"
  /\ \/ /\ ~lf.exct
        /\ Return("QDELEX")
        /\ UNCHANGED <<tree, lf, stk, out, spoiled>>
     \/ /\ lf.exct /\ op.key \in LongKey
        /\ Return("QDELER")
        /\ UNCHANGED <<tree, lf, stk, out, spoiled>>
     \/ /\ lf.exct /\ op.key \notin LongKey
        /\ Node.lnk[lf.pos] # ZNULL
        /\ tgt' = [blk |-> lf.blk, pos |-> lf.pos]
        /\ pc' = "descend"
        /\ UNCHANGED <<tree, lf, stk, op, cblk, err, out, spoiled>>
     \/ /\ lf.exct /\ op.key \notin LongKey
        /\ Node.lnk[lf.pos] = ZNULL
        /\ blocks' = [blocks EXCEPT ![lf.blk] = RemKey(@, lf.pos)]
        /\ AfterRemoval(lf.pos)

ReplaceKey ==
  LET last == lf.pos - 1
      t    == Blk(tgt.blk)
  IN  /\ pc = "descend" /\ AtLeaf
      /\ IF last \notin 0 .. Node.nkeys - 1 THEN GiveUp("QDELRP")
         ELSE /\ blocks' = [blocks EXCEPT
                   ![tgt.blk] = RepKey(@, tgt.pos, Node.ent[last],
                                       t.lnk[tgt.pos], t.lnk[tgt.pos + 1]),
                   ![lf.blk] = RemKey(Node, last)]
              /\ AfterRemoval(last)

----------------------------------------------------------------------------
(* bjnblk and bjoin: join the leaf with its right or its left sister.      *)

(* Faulty variant: no room left for the separator.                         *)
JoinableFull(n, m) == n + m <= MXKEY

Joinable(n, m) == n + m < MXKEY - THRES

(* bjoin: the separator at s and the right block move to the left block.   *)
Join(l, r, s) ==
  LET p == Top.blk
      e == Blk(p).ent[s]
  IN  /\ blocks' = FreeBlock(super,
                     [blocks EXCEPT
                        ![p] = RemKey(@, s),
                        ![l] = AppendKeys(PutKey(Blk(l), e, ZNULL, ZNULL),
                                          Blk(r))], r)
      /\ super' = FreeSuper(super, r)
      /\ cblk' = l
      /\ lf' = At(p, s)
      /\ stk' = Rest
      /\ pc' = "demote"
      /\ UNCHANGED <<op, tgt, err, out, spoiled>>

CanJoinRight ==
  LET p == Blk(Top.blk)
  IN  Top.pos < p.nkeys /\ Joinable(Node.nkeys, Blk(p.lnk[Top.pos + 1]).nkeys)

CanJoinLeft ==
  LET p == Blk(Top.blk)
  IN  Top.pos > 0 /\ Joinable(Node.nkeys, Blk(p.lnk[Top.pos - 1]).nkeys)

JoinRight ==
  /\ pc = "join" /\ CanJoinRight
  /\ Join(lf.blk, Blk(Top.blk).lnk[Top.pos + 1], Top.pos)

JoinLeft ==
  /\ pc = "join" /\ ~CanJoinRight
  /\ \/ Top.pos > Blk(Top.blk).nkeys /\ GiveUp("QJNSE")
     \/ /\ Top.pos <= Blk(Top.blk).nkeys /\ CanJoinLeft
        /\ Join(Blk(Top.blk).lnk[Top.pos - 1], lf.blk, Top.pos - 1)

(* The parent goes back on the stack, its position stays in lfpos.         *)
NoJoin ==
  /\ pc = "join" /\ ~CanJoinRight /\ ~CanJoinLeft
  /\ Top.pos <= Blk(Top.blk).nkeys
  /\ pc' = "balance"
  /\ lf' = At(lf.blk, Top.pos)
  /\ UNCHANGED <<tree, stk, op, cblk, tgt, err, out, spoiled>>

----------------------------------------------------------------------------
(* balblk and balbk1: even out the leaf and its right or its left sister.  *)

Abs(n) == IF n < 0 THEN -n ELSE n
Uneven(n, m) == Abs(n - m) > MXKEY \div 2

(* balbk1's loops: the separator e and moved keys go from the fuller leaf  *)
(* to the other, and the next key becomes the separator.  Each bputky      *)
(* finds its place at the near end of the receiving leaf.                  *)
Moved(l, r) == Abs(l.nkeys - r.nkeys) \div 2

(* Faulty variant: the last key moved becomes the separator too.           *)
SeparatorMoved(l, r) ==
  IF l.nkeys < r.nkeys THEN r.ent[Moved(l, r) - 1]
                       ELSE l.ent[l.nkeys - Moved(l, r)]

Separator(l, r) ==
  IF l.nkeys < r.nkeys THEN r.ent[Moved(l, r)]
                       ELSE l.ent[l.nkeys - 1 - Moved(l, r)]

(* The keys of l, e and those of r, in this order, from position fs.       *)
Spread(l, r, e, fs, n) ==
  [i \in 0 .. MXKEY - 1 |->
     LET j == fs + i
     IN  IF i >= n THEN NoEnt
         ELSE IF j < l.nkeys THEN l.ent[j]
         ELSE IF j = l.nkeys THEN e ELSE r.ent[j - l.nkeys - 1]]

BalLeft(l, r, e) ==
  LET k == Moved(l, r) + 1
      n == IF l.nkeys < r.nkeys THEN l.nkeys + k ELSE l.nkeys - k
  IN  [l EXCEPT !.nkeys = n, !.ent = Spread(l, r, e, 0, n)]

BalRight(l, r, e) ==
  LET k == Moved(l, r) + 1
      n == IF l.nkeys < r.nkeys THEN r.nkeys - k ELSE r.nkeys + k
  IN  [r EXCEPT !.nkeys = n,
                !.ent = Spread(l, r, e, l.nkeys + r.nkeys + 1 - n, n)]

Balance(l, r, s) ==
  LET p == Top.blk
      e == Blk(p).ent[s]
  IN  /\ blocks' = [blocks EXCEPT
           ![p] = RepKey(@, s, Separator(Blk(l), Blk(r)), l, r),
           ![l] = BalLeft(Blk(l), Blk(r), e),
           ![r] = BalRight(Blk(l), Blk(r), e)]
      /\ Reestablish
      /\ UNCHANGED <<super, spoiled>>

CanBalanceRight ==
  LET p == Blk(Top.blk)
  IN  Top.pos < p.nkeys /\ Uneven(Node.nkeys, Blk(p.lnk[Top.pos + 1]).nkeys)

CanBalanceLeft ==
  LET p == Blk(Top.blk)
  IN  Top.pos > 0 /\ Uneven(Node.nkeys, Blk(p.lnk[Top.pos - 1]).nkeys)

BalanceRight ==
  /\ pc = "balance" /\ CanBalanceRight
  /\ Balance(lf.blk, Blk(Top.blk).lnk[Top.pos + 1], Top.pos)

BalanceLeft ==
  /\ pc = "balance" /\ ~CanBalanceRight /\ CanBalanceLeft
  /\ Balance(Blk(Top.blk).lnk[Top.pos - 1], lf.blk, Top.pos - 1)

NoBalance ==
  /\ pc = "balance" /\ ~CanBalanceRight /\ ~CanBalanceLeft
  /\ Reestablish
  /\ UNCHANGED <<tree, spoiled>>

----------------------------------------------------------------------------
(* bdemte: when a join took the last key of its parent, the one block left *)
(* under it (cblk) is merged upwards with a key of the grandparent.        *)

(* Faulty variants: cblk is not cleared, an empty block is left alone.     *)
DemoteDoneNot == pc = "demote" /\ Node.nkeys # 0 /\ UNCHANGED vars

DemoteDoneAlways ==
  /\ pc = "demote"
  /\ Reestablish
  /\ UNCHANGED <<tree, spoiled>>

DemoteDone ==
  /\ pc = "demote" /\ Node.nkeys # 0
  /\ Reestablish
  /\ UNCHANGED <<tree, spoiled>>

(* An empty root takes over the keys of the block.                         *)
DemoteRoot ==
  /\ pc = "demote" /\ Node.nkeys = 0 /\ Node.type = "root"
  /\ LET c == Blk(cblk)
     IN  blocks' = FreeBlock(super,
                     [blocks EXCEPT ![lf.blk] = CopyKeys(@, c, 0, c.nkeys)], cblk)
  /\ super' = FreeSuper(super, cblk)
  /\ Reestablish
  /\ UNCHANGED spoiled

(* The grandparent, the position of the key to be demoted and its links.   *)
Grand   == Blk(Top.blk)
OnRight == Top.pos # 0
DemPos  == IF OnRight THEN Top.pos - 1 ELSE 0
Link1   == Grand.lnk[DemPos]
Link2   == Grand.lnk[DemPos + 1]
Sister  == IF OnRight THEN Link1 ELSE Link2

Demoting == pc = "demote" /\ Node.nkeys = 0 /\ Node.type # "root"

(* bremky takes the key out of the grandparent first.                      *)
Cut    == [blocks EXCEPT ![Top.blk] = RemKey(@, DemPos)]
Target == Read(Cut, Sister)

(* The parent is pulled, and bdelk1 calls bdemte again.                    *)
ToGrand ==
  /\ lf' = At(Top.blk, DemPos)
  /\ stk' = Rest
  /\ UNCHANGED <<pc, op, tgt, out>>

(* B with key e and the orphan cblk put into the block that stays (to),    *)
(* and the right block of the pair freed.                                  *)
Merge(B, s, to, e) ==
  FreeBlock(s,
    [B EXCEPT ![to] =
       IF OnRight THEN PutKey(@, e, ZNULL, cblk)
       ELSE PutKey(CopyKeys(@, Read(B, Link2), 0, Read(B, Link2).nkeys), e,
                   cblk, ZNULL)],
    Link2)

Demote ==
  /\ Demoting /\ (DemPos < Grand.nkeys => ~Full(Target))
  /\ IF DemPos >= Grand.nkeys THEN GiveUp("QDEMSE")
     ELSE /\ blocks' = Merge(Cut, super, Link1, Grand.ent[DemPos])
          /\ super' = FreeSuper(super, Link2)
          /\ cblk' = Link1
          /\ ToGrand
          /\ UNCHANGED <<err, spoiled>>

(* A full sister is split first.  The entry to be demoted is a pointer to  *)
(* bsrhbk's static keyent, which the split has overwritten with its middle *)
(* key: that key is put in the merged block, the demoted one is lost.      *)
(* With no block for the split, bdemte returns with the key removed from   *)
(* the grandparent and the orphan still to be dealt with.                  *)
DemoteFull ==
  LET new == GetFree(super, Cut)
      s1  == Taken(super, Cut)
      to  == IF OnRight THEN new ELSE Link1
  IN  /\ Demoting /\ DemPos < Grand.nkeys /\ Full(Target)
      /\ IF new = ZNULL
         THEN /\ blocks' = Cut
              /\ err' = NoFree(super)
              /\ UNCHANGED <<super, cblk>>
         ELSE /\ blocks' = Merge(Split(Cut, Sister, new, Top.blk),
                                 s1, to, Target.ent[Sp])
              /\ super' = FreeSuper(s1, Link2)
              /\ cblk' = to
              /\ UNCHANGED err
      /\ ToGrand
      /\ spoiled' = TRUE

----------------------------------------------------------------------------
Invoke ==
  \/ \E k \in Key : Bfndky(k) \/ Bdelky(k)
  \/ \E k \in Key, v \in Val : Binsky(k, v) \/ Bupdky(k, v)
  \/ BdelkyCurrent
  \/ \E v \in Val : BupdkyCurrent(v)

FindStep   == SearchBlock \/ SplitRoot \/ SplitChild
DeleteStep == \/ DeleteKey \/ Descend \/ ReplaceKey
              \/ JoinRight \/ JoinLeft \/ NoJoin
              \/ BalanceRight \/ BalanceLeft \/ NoBalance
              \/ DemoteDone \/ DemoteRoot \/ Demote \/ DemoteFull
Step == FindStep \/ InsertKey \/ UpdateKey \/ DeleteStep

Next == Invoke \/ Step

Spec == Init /\ [][Next]_vars

(* A call runs to its end: nothing in the code waits.                      *)
FairSpec == Spec /\ WF_vars(Step)
----------------------------------------------------------------------------
(* Properties of the state of this module alone.  Those that relate the    *)
(* blocks of the tree to each other are in BTreeProps.                     *)

(* With a current key, the block and the position of the last find are     *)
(* where that key is: bdelk1 and bmodky act on them, and whatever a split, *)
(* a join or a balance moved since, they do not look the key up.           *)
CursorExact ==
  pc \in {"idle", "delete", "update"} /\ ~spoiled /\ lf.exct =>
    /\ lf.pos \in 0 .. Node.nkeys - 1
    /\ Node.ent[lf.pos].key = lf.key

(* The steps that pull a block and a position from the stack.              *)
Pulls ==
  \/ pc \in {"find", "refind"} /\ cblk # ROOT /\ Full(Blk(cblk))
  \/ pc \in {"join", "balance"}
  \/ Demoting

(* bpull never meets an empty stack (QSTKUF): a split that looks at the    *)
(* parent again, a join, a balance and a chain of demotions pull no more   *)
(* frames than the find and the descent before them pushed.                *)
NoUnderflow == Pulls => stk # <<>>

(* None of the errors that report a broken structure is ever returned: a   *)
(* block is never full when a key is put in it, and every position pulled  *)
(* from the stack is within its block.                                     *)
NoInternalError == err \notin Internal
=============================================================================
