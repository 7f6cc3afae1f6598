----------------------------- MODULE TreeTheorems -----------------------------
(***************************************************************************)
(* The steps of the index core on the shape of the tree: every action of   *)
(* BTree keeps the invariant TInv of TreeProofs, one lemma for each.       *)
(*                                                                         *)
(* And what the shape of the tree means for the index core: StackIsPath,   *)
(* FreeListSound and SearchTree, and, where the block size leaves room for *)
(* it, Balanced and that no routine meets an inconsistency before a        *)
(* demotion has met a full sister.                                         *)
(***************************************************************************)
EXTENDS TreeProofs, WellFoundedInduction

----------------------------------------------------------------------------
(* How a step ends.                                                        *)

(* A call returns.                                                         *)
LEMMA ReturnTree ==
  ASSUME FileOK(blocks', super'), NEW w, Tree(blocks', w),
         PathOK(blocks', w, stk', lf'), InteriorOK(blocks', w, lf', "idle"),
         pc' = "idle"
  PROVE  TInv'
<1>1. TreeInv(w)'
  BY DEF TreeInv
<1> QED  BY <1>1 DEF TInv

(* A find starts.                                                          *)
LEMMA StartTree ==
  ASSUME KeysBounded, NEW k \in Key, StartFind(k), Sound(blocks'),
         FileOK(blocks', super'), NEW w, Tree(blocks', w),
         InteriorOK(blocks', w, lf', "idle"),
         pc' \in {"find", "refind"}, pc' = "find" => op'.key = k
  PROVE  TInv'
<1>1. /\ stk' = <<>> /\ cblk' = ROOT /\ lf'.blk = ZNULL /\ lf'.key = k
  BY DEF StartFind
<1>2. Len(stk') = 0 /\ 2 .. Len(stk') = {}
  BY <1>1
<1>3. ROOT \in Used(blocks') /\ w.h[ROOT] \in Nat
  <2>1. ROOT \in Used(blocks')
    BY DEF Used
  <2> QED  BY <2>1, UsedWitness
<1>4. PathOK(blocks', w, stk', lf')
  BY <1>1, <1>2 DEF PathOK
<1>5. Passed(stk', lf') = {}
  BY <1>1, <1>2 DEF Passed
<1>6. Spans(w, ROOT, k)
  BY EndsOfKeys DEF Spans, Tree
<1>7. w.h[ROOT] = w.h[ROOT] - Len(stk')
  BY <1>2, <1>3
<1>8. FindOK(blocks', w, stk', lf', cblk')
  BY <1>1, <1>3, <1>5, <1>6, <1>7 DEF FindOK
<1>9. InteriorOK(blocks', w, lf', pc')
  BY DEF InteriorOK
<1>10. TreeInv(w)'
  BY <1>1, <1>4, <1>8, <1>9 DEF TreeInv
<1> QED  BY <1>10 DEF TInv

(* A deletion is done: the key is looked up again.                         *)
LEMMA AgainTree ==
  ASSUME KeysBounded, IInv, pc # "idle", ~spoiled, Reestablish, lf.key \in Key,
         Sound(blocks'), FileOK(blocks', super'), NEW w, Tree(blocks', w),
         InteriorOK(blocks', w, lf', "idle")
  PROVE  TInv'
<1>1. spoiled = FALSE
  BY DEF IInv, TypeOK
<1>2. err = "OK"
  BY <1>1 DEF IInv, CallState
<1>3. StartFind(lf.key) /\ pc' = "refind"
  BY <1>2 DEF Reestablish
<1> QED  BY <1>3, StartTree

(* A routine gives up.                                                     *)
LEMMA GiveUpTree ==
  ASSUME NEW e, GiveUp(e)
  PROVE  TInv'
BY DEF GiveUp, TInv

(* A call that returns and writes nothing.                                 *)
LEMMA ReturnSameTree ==
  ASSUME TInv, ~spoiled, NEW e, Return(e), UNCHANGED <<tree, lf, stk>>,
         pc # "demote"
  PROVE  TInv'
<1>1. FileOK(blocks, super)
  BY DEF TInv
<1>2. PICK w : TreeInv(w)
  BY DEF TInv
<1>3. /\ blocks' = blocks /\ super' = super /\ lf' = lf /\ stk' = stk
      /\ pc' = "idle"
  BY DEF tree, Return
<1>4. /\ Tree(blocks', w) /\ PathOK(blocks', w, stk', lf')
      /\ InteriorOK(blocks', w, lf', "idle")
  BY <1>2, <1>3 DEF TreeInv, InteriorOK
<1>5. FileOK(blocks', super')
  BY <1>1, <1>3
<1> QED  BY <1>3, <1>4, <1>5, ReturnTree

----------------------------------------------------------------------------
(* The initial states and the calls.                                       *)

(* Init: a tree of one empty leaf.                                         *)
LEMMA TInit ==
  ASSUME KeysBounded, Init
  PROVE  TInv
<1> DEFINE w == [h |-> [b \in TreeBlk |-> 0], lo |-> [b \in TreeBlk |-> Low],
                 hi |-> [b \in TreeBlk |-> High]]
<1>1. /\ Low \in Int /\ High \in Int /\ Low < High
  BY EndsOfKeys
<1>2. IInv
  BY InitInv
<1>3. Sound(blocks)
  BY <1>2, SameTree
<1>4. Used(blocks) = {ROOT}
  <2>1. \A b \in Child : blocks[b].type # "inuse"
    BY BlockNumbers DEF Init, FreshBlock, ROOT, Child
  <2> QED  BY <2>1 DEF Used
<1>5. /\ blocks[ROOT].nkeys = 0 /\ blocks[ROOT].lnk = NoLinks
  BY BlockNumbers DEF Init, FreshBlock
<1>6. /\ w.h[ROOT] = 0 /\ w.lo[ROOT] = Low /\ w.hi[ROOT] = High
      /\ w \in Witness
  BY <1>1 DEF Witness, TreeBlk
<1> HIDE DEF w
<1>7. NodeOK(blocks, w, ROOT)
  BY <1>1, <1>5, <1>6 DEF NodeOK, Sorted, Within
<1>8. Tree(blocks, w)
  BY <1>4, <1>6, <1>7 DEF Tree, Apart
<1>9. stk = <<>> /\ lf.blk = ZNULL /\ pc = "idle"
  BY DEF Init
<1>10. PathOK(blocks, w, stk, lf)
  <2>1. Len(stk) = 0 /\ 2 .. Len(stk) = {}
    BY <1>9
  <2> QED  BY <1>9, <2>1 DEF PathOK
<1>11. InteriorOK(blocks, w, lf, pc)
  BY <1>4, <1>6 DEF InteriorOK
<1>12. TreeInv(w)
  BY <1>8, <1>9, <1>10, <1>11 DEF TreeInv
<1>13. FileOK(blocks, super)
  <2>1. super.nfree = 0 /\ super.freep = ZNULL /\ super.blkmx = 2
    BY DEF Init
  <2>2. PICK f : f = [i \in 1 .. 0 |-> 0]
    OBVIOUS
  <2>3. f \in [1 .. 0 -> Child]
    BY <2>2
  <2>4. FreeIs(blocks, super, f)
    BY <2>1, <2>3 DEF FreeIs
  <2> QED  BY <1>4, <2>1, <2>4 DEF FileOK, ROOT
<1> QED  BY <1>12, <1>13 DEF TInv

(* A call by key, and one on the current key.                              *)
LEMMA TCallByKey ==
  ASSUME KeysBounded, IInv, TInv, NEW name, NEW k \in Key, NEW v,
         CallByKey(name, k, v)
  PROVE  TInv'
<1>1. /\ pc = "idle" /\ ~spoiled /\ UNCHANGED tree
      /\ op'.key = k /\ StartFind(k) /\ pc' = "find"
  BY DEF CallByKey, Call
<1>2. blocks' = blocks /\ super' = super
  BY <1>1 DEF tree
<1>3. Sound(blocks') /\ FileOK(blocks', super')
  BY <1>1, <1>2, SameTree DEF TInv
<1>4. PICK w : TreeInv(w)
  BY <1>1 DEF TInv
<1>5. Tree(blocks', w) /\ InteriorOK(blocks', w, lf', "idle")
  BY <1>1, <1>2, <1>4 DEF TreeInv, InteriorOK
<1> QED  BY <1>1, <1>3, <1>5, StartTree

(* A call on the current key leaves the tree and the stack as they are.    *)
LEMMA TCallCurrent ==
  ASSUME TInv, NEW name, NEW v, Call(name, NoKey, v),
         pc' \in {"delete", "update"}, UNCHANGED <<lf, stk, cblk, tgt>>
  PROVE  TInv'
<1>1. /\ pc = "idle" /\ ~spoiled /\ UNCHANGED tree
  BY DEF Call
<1>2. blocks' = blocks /\ super' = super /\ lf' = lf /\ stk' = stk
  BY <1>1 DEF tree
<1>3. FileOK(blocks', super')
  BY <1>1, <1>2 DEF TInv
<1>4. PICK w : TreeInv(w)
  BY <1>1 DEF TInv
<1>5. /\ Tree(blocks', w) /\ PathOK(blocks', w, stk', lf')
      /\ InteriorOK(blocks', w, lf', pc')
  BY <1>1, <1>2, <1>4 DEF TreeInv, InteriorOK
<1>6. TreeInv(w)'
  BY <1>5 DEF TreeInv
<1> QED  BY <1>3, <1>6 DEF TInv

(* A call starts.                                                          *)
LEMMA TInvoke ==
  ASSUME KeysBounded, IInv, TInv, Invoke
  PROVE  TInv'
<1>1. CASE \E k \in Key : Bfndky(k) \/ Bdelky(k)
  BY <1>1, TCallByKey DEF Bfndky, Bdelky
<1>2. CASE \E k \in Key, v \in Val : Binsky(k, v) \/ Bupdky(k, v)
  BY <1>2, TCallByKey DEF Binsky, Bupdky
<1>3. CASE BdelkyCurrent
  BY <1>3, TCallCurrent DEF BdelkyCurrent
<1>4. CASE \E v \in Val : BupdkyCurrent(v)
  BY <1>4, TCallCurrent DEF BupdkyCurrent
<1> QED  BY <1>1, <1>2, <1>3, <1>4 DEF Invoke

----------------------------------------------------------------------------
(* The find.                                                               *)

(* The stack is empty only before the root is searched.                    *)
LEMMA EmptyStack ==
  ASSUME IInv
  PROVE  /\ lf.blk = ZNULL <=> stk = <<>>
         /\ stk \in Seq(Frame) /\ Len(stk) \in Nat
<1>1. stk \in Seq(Frame) /\ lf.blk \in Depth(Len(stk))
  BY DEF IInv, TypeOK, StackShape
<1>2. PICK n \in Nat : n = Len(stk)
  BY <1>1
<1>3. lf.blk = ZNULL <=> n = 0
  BY <1>1, <1>2, DepthFacts
<1>4. n = 0 <=> stk = <<>>
  BY <1>1, <1>2
<1> QED  BY <1>1, <1>2, <1>3, <1>4

(* The state a find is in, in terms of a witness.                          *)
LEMMA FindState ==
  ASSUME IInv, TInv, ~spoiled, pc \in {"find", "refind"}
  PROVE  /\ Sound(blocks) /\ SuperOK(super) /\ FileOK(blocks, super)
         /\ cblk \in TreeBlk /\ Blk(cblk) = blocks[cblk]
         /\ blocks[cblk] \in Block
         /\ [blk |-> lf.blk, pos |-> lf.pos] \in Frame
         /\ lf.blk = ZNULL <=> stk = <<>>
         /\ stk \in Seq(Frame) /\ Len(stk) \in Nat
         /\ \E w : /\ TreeInv(w) /\ Tree(blocks, w)
                   /\ PathOK(blocks, w, stk, lf)
                   /\ FindOK(blocks, w, stk, lf, cblk)
                   /\ \A b \in Used(blocks) : w.h[b] # 0 => blocks[b].nkeys # 0
                   /\ w.h[ROOT] \in Nat
                   /\ pc = "find" => op.key = lf.key
<1>1. PICK w : TreeInv(w)
  BY DEF TInv
<1>2. ROOT \in Used(blocks)
  BY DEF Used
<1>3. w.h[ROOT] \in Nat
  BY <1>1, <1>2, SameTree, UsedWitness DEF TreeInv
<1>4. /\ Tree(blocks, w) /\ PathOK(blocks, w, stk, lf)
      /\ FindOK(blocks, w, stk, lf, cblk)
      /\ \A b \in Used(blocks) : w.h[b] # 0 => blocks[b].nkeys # 0
      /\ pc = "find" => op.key = lf.key
  BY <1>1 DEF TreeInv, InteriorOK
<1>5. FileOK(blocks, super)
  BY DEF TInv
<1> QED  BY <1>1, <1>3, <1>4, <1>5, EmptyStack, SameTree, FindFacts

(* A block is searched.                                                    *)
LEMMA TSearchBlock ==
  ASSUME IInv, TInv, SearchBlock, ~spoiled
  PROVE  TInv'
<1> DEFINE b == Blk(cblk)
           k == lf.key
           p == IF b.nkeys = 0 THEN -1 ELSE Gap(b, k)
           child == IF b.nkeys = 0 THEN ZNULL ELSE b.lnk[p]
<1>1. /\ pc \in {"find", "refind"} /\ ~Full(b)
      /\ stk' = Push(lf.blk, lf.pos)
      /\ lf' = [lf EXCEPT !.blk = cblk, !.pos = p, !.exct = Hit(b, k)]
      /\ blocks' = blocks /\ super' = super
      /\ \/ Hit(b, k) /\ Found(b.ent[p].val)
         \/ ~Hit(b, k) /\ child = ZNULL /\ NotFound
         \/ /\ ~Hit(b, k) /\ child # ZNULL
            /\ cblk' = child
            /\ UNCHANGED <<pc, op, err, out, tgt>>
  BY DEF SearchBlock, tree
<1> HIDE DEF b, k, p, child
<1>2. /\ Sound(blocks) /\ FileOK(blocks, super)
      /\ b = blocks[cblk] /\ b \in Block
      /\ lf.blk = ZNULL <=> stk = <<>>
      /\ stk \in Seq(Frame) /\ Len(stk) \in Nat
  BY <1>1, FindState DEF b
<1>3. PICK fr \in Frame : fr = [blk |-> lf.blk, pos |-> lf.pos]
  BY <1>1, FindState
<1>4. PICK w : /\ Tree(blocks, w) /\ PathOK(blocks, w, stk, lf)
               /\ FindOK(blocks, w, stk, lf, cblk)
               /\ \A a \in Used(blocks) : w.h[a] # 0 => blocks[a].nkeys # 0
               /\ w.h[ROOT] \in Nat
               /\ pc = "find" => op.key = lf.key
  BY <1>1, FindState
<1>5. /\ k \in Key /\ k \in Int /\ cblk \in Used(blocks)
      /\ w.h[cblk] = w.h[ROOT] - Len(stk)
      /\ w.lo[cblk] < k /\ k < w.hi[cblk]
      /\ \A a \in Passed(stk, lf) : Spans(w, a, k) /\ ~Full(blocks[a])
  BY <1>4, KeyConstants DEF FindOK, Spans, k
<1>6. /\ w.h[cblk] \in Nat /\ w.lo[cblk] \in Int /\ w.hi[cblk] \in Int
      /\ Sorted(b) /\ Within(b, w.lo[cblk], w.hi[cblk])
      /\ b.nkeys \in 0 .. MXKEY /\ cblk # ZNULL
      /\ w.h[cblk] = 0 => b.lnk = NoLinks
      /\ w.h[cblk] # 0 =>
           \A i \in 0 .. b.nkeys :
             Kid(blocks, w, b.lnk[i], w.h[cblk] - 1,
                 From(b, w.lo[cblk], i), To(b, w.hi[cblk], i))
  <2>1. NodeOK(blocks, w, cblk)
    BY <1>4, <1>5 DEF Tree
  <2>2. /\ w.h[cblk] \in Nat /\ w.lo[cblk] \in Int /\ w.hi[cblk] \in Int
    BY <1>2, <1>4, <1>5, UsedWitness
  <2>3. b.nkeys \in 0 .. MXKEY /\ cblk # ZNULL
    BY <1>2, <1>5, UsedBlock
  <2> QED  BY <1>2, <2>1, <2>2, <2>3 DEF NodeOK
<1>7. /\ Hit(b, k) <=> \E i \in 0 .. b.nkeys - 1 : KeyAt(b, i) = k
      /\ ~Hit(b, k) => /\ From(b, w.lo[cblk], Gap(b, k)) < k
                       /\ k < To(b, w.hi[cblk], Gap(b, k))
  BY <1>2, <1>5, <1>6, GapFences
<1>8. Gap(b, k) \in 0 .. b.nkeys
  BY <1>6, GapInBlock
<1>9. /\ lf'.blk = cblk /\ lf'.pos = p /\ lf'.key = k
  BY <1>1 DEF IInv, TypeOK, k
<1>10. GoesTo(blocks, w, stk, lf, cblk)
  BY <1>2, <1>4 DEF FindOK, GoesTo
<1>11. Grown(stk, lf, stk')
  BY <1>1, <1>3 DEF Push, Grown
<1>12. /\ PathOK(blocks, w, stk', lf') /\ Len(stk') = Len(stk) + 1
       /\ Passed(stk', lf') \subseteq Passed(stk, lf) \cup {cblk}
  BY <1>2, <1>4, <1>9, <1>10, <1>11, PathPush
<1>13. InteriorOK(blocks', w, lf', pc')
  BY <1>1, <1>4 DEF InteriorOK
<1>14. /\ FileOK(blocks', super') /\ Tree(blocks', w)
       /\ PathOK(blocks', w, stk', lf')
  BY <1>1, <1>2, <1>4, <1>12
<1>15. ASSUME pc' = "idle" PROVE TInv'
  <2>1. InteriorOK(blocks', w, lf', "idle")
    BY <1>13, <1>15
  <2> QED  BY <1>14, <1>15, <2>1, ReturnTree
<1>16. ASSUME pc' \in {"delete", "update"} PROVE TInv'
  <2>1. TreeInv(w)'
    BY <1>13, <1>14, <1>16 DEF TreeInv
  <2> QED  BY <1>14, <2>1 DEF TInv
<1>17. CASE Hit(b, k) /\ Found(b.ent[p].val)
  BY <1>15, <1>16, <1>17 DEF Found, Return, GoOn
<1>18. ASSUME ~Hit(b, k), child = ZNULL, pc = "find", pc' = "insert", op' = op
       PROVE  TInv'
  <2>1. w.h[cblk] = 0
    <3> SUFFICES ASSUME w.h[cblk] # 0 PROVE FALSE
      OBVIOUS
    <3>1. b.nkeys # 0
      BY <1>2, <1>4, <1>5
    <3>2. p = Gap(b, k) /\ child = b.lnk[p]
      BY <3>1 DEF p, child
    <3>3. child \in Used(blocks)
      BY <1>6, <1>8, <3>2 DEF Kid
    <3> QED  BY <1>2, <1>18, <3>3, UsedBlock
  <2>2. \A i \in 0 .. b.nkeys - 1 : KeyAt(b, i) # k
    BY <1>7, <1>18
  <2>3. /\ lf'.blk = cblk /\ lf'.key = k /\ op'.key = k /\ blocks'[cblk] = b
    BY <1>1, <1>2, <1>4, <1>9, <1>18 DEF k
  <2>4. InsertOK(blocks', w, lf', op'.key)
    BY <1>1, <1>5, <1>6, <2>1, <2>2, <2>3 DEF InsertOK, Spans
  <2>5. TreeInv(w)'
    BY <1>13, <1>14, <1>18, <2>4 DEF TreeInv
  <2> QED  BY <1>14, <2>5 DEF TInv
<1>19. CASE ~Hit(b, k) /\ child = ZNULL /\ NotFound
  <2>1. \/ pc' = "idle"
        \/ pc = "find" /\ pc' = "insert" /\ op' = op
    BY <1>19 DEF NotFound, Return, GoOn
  <2> QED  BY <1>15, <1>18, <1>19, <2>1
<1>20. CASE ~Hit(b, k) /\ child # ZNULL /\ cblk' = child /\ pc' = pc /\ op' = op
  <2>1. b.nkeys # 0 /\ p = Gap(b, k) /\ child = b.lnk[p] /\ p \in 0 .. b.nkeys
    BY <1>8, <1>20 DEF p, child
  <2>2. w.h[cblk] # 0
    <3> SUFFICES ASSUME w.h[cblk] = 0 PROVE FALSE
      OBVIOUS
    <3>1. p \in 0 .. MXKEY
      <4>1. PICK n : n = b.nkeys
        OBVIOUS
      <4>2. n \in 0 .. MXKEY /\ p \in 0 .. n /\ MXKEY \in Nat
        BY <1>6, <2>1, <4>1, BlockConstants
      <4> QED  BY <4>2
    <3> QED  BY <1>6, <1>20, <2>1, <3>1 DEF NoLinks
  <2>3. Kid(blocks, w, child, w.h[cblk] - 1,
            From(b, w.lo[cblk], p), To(b, w.hi[cblk], p))
    BY <1>6, <2>1, <2>2
  <2>4. /\ child \in Used(blocks) /\ w.h[child] = w.h[cblk] - 1
        /\ Spans(w, child, k)
    BY <1>7, <1>20, <2>1, <2>3 DEF Kid, Spans
  <2>5. w.h[child] = w.h[ROOT] - Len(stk')
    <3>1. PICK x, y, z : x = w.h[child] /\ y = w.h[cblk] /\ z = w.h[ROOT]
      OBVIOUS
    <3>2. PICK n \in Nat : n = Len(stk)
      BY <1>2
    <3>3. x = y - 1 /\ y = z - n /\ z \in Nat /\ Len(stk') = n + 1
      BY <1>4, <1>5, <1>12, <2>4, <3>1, <3>2
    <3>4. x = z - (n + 1)
      BY <3>3
    <3> QED  BY <3>1, <3>3, <3>4
  <2>6. \A a \in Passed(stk', lf') : Spans(w, a, k) /\ ~Full(blocks'[a])
    BY <1>1, <1>2, <1>5, <1>12 DEF Spans
  <2>7. FindOK(blocks', w, stk', lf', cblk')
    BY <1>1, <1>2, <1>5, <1>6, <1>9, <1>20, <2>1, <2>2, <2>4, <2>5, <2>6
       DEF FindOK
  <2>8. pc' = "find" => op'.key = lf'.key
    BY <1>4, <1>9, <1>20 DEF k
  <2>9. TreeInv(w)'
    BY <1>1, <1>13, <1>14, <1>20, <2>7, <2>8 DEF TreeInv
  <2> QED  BY <1>14, <2>9 DEF TInv
<1> QED  BY <1>1, <1>17, <1>19, <1>20

----------------------------------------------------------------------------
(* The splits.                                                             *)

(* Where bsptbk splits a full block.                                       *)
LEMMA SplitRoom ==
  ASSUME RoomToSplit
  PROVE  Sp \in Nat /\ Sp2 \in Nat /\ Sp # 0 /\ Sp2 # 0 /\ Sp + 1 + Sp2 = MXKEY
<1>1. Sp \in Nat /\ Sp2 \in Nat /\ Sp + 1 + Sp2 = MXKEY
  BY SplitPoint
<1>2. MXKEY \in Nat /\ MXKEY >= 3
  BY BlockConstants DEF RoomToSplit
<1>3. Sp # 0
  BY <1>2 DEF Sp
<1>4. Sp2 # 0
  <2>1. CASE MXKEY = 3
    BY <2>1 DEF Sp, Sp2
  <2>2. CASE MXKEY >= 4
    BY <1>2, <2>2 DEF Sp, Sp2
  <2> QED  BY <1>2, <2>1, <2>2
<1> QED  BY <1>1, <1>3, <1>4

(* The halves of a full root, and the root they leave.                     *)
LowHalf(r)  == CopyKeys(FreshBlock("inuse", ZNULL), r, 0, Sp)
HighHalf(r) == CopyKeys(FreshBlock("inuse", ZNULL), r, Sp + 1, Sp2)
NewRoot(r, b1, b2) ==
  [RepKey(CopyKeys(r, r, 0, 0), 0, r.ent[Sp], b1, b2) EXCEPT !.nkeys = 1]

(* The two halves of a full block.                                         *)
LEMMA HalvesView ==
  ASSUME NEW r \in Block, Full(r), RoomToSplit, NEW b1 \in Child,
         NEW b2 \in Child,
         NEW x, x = LowHalf(r), NEW y, y = HighHalf(r),
         NEW t, t = NewRoot(r, b1, b2)
  PROVE  /\ x \in Block /\ x.type = "inuse" /\ x.nkeys # 0
         /\ y \in Block /\ y.type = "inuse" /\ y.nkeys # 0
         /\ r.ent[Sp] \in Entry /\ Joined(r, x, r.ent[Sp], y) /\ Linked(r, x, y)
         /\ r.lnk = NoLinks => x.lnk = NoLinks /\ y.lnk = NoLinks
         /\ t.nkeys = 1 /\ t.ent[0] = r.ent[Sp] /\ t.lnk[0] = b1
         /\ t.lnk[1] = b2
         /\ t.type = r.type
<1>1. PICK a, c : a = Sp /\ c = Sp2
  OBVIOUS
<1>2. /\ a \in Nat /\ c \in Nat /\ a # 0 /\ c # 0 /\ a + 1 + c = r.nkeys
      /\ r.nkeys = MXKEY /\ MXKEY \in Nat
  BY <1>1, SplitRoom, BlockConstants DEF Full
<1>3. /\ x = CopyKeys(FreshBlock("inuse", ZNULL), r, 0, a)
      /\ y = CopyKeys(FreshBlock("inuse", ZNULL), r, a + 1, c)
  BY <1>1 DEF LowHalf, HighHalf
<1>4. /\ x \in Block /\ x.type = "inuse" /\ x.nkeys = a
      /\ \A i \in 0 .. a - 1 : x.ent[i] = r.ent[0 + i]
      /\ \A i \in 0 .. a : x.lnk[i] = r.lnk[0 + i]
      /\ r.lnk = NoLinks => x.lnk = NoLinks
  <2>1. 0 \in Nat /\ 0 + a <= r.nkeys
    BY <1>2
  <2> QED  BY <1>2, <1>3, <2>1, CopyNew
<1>5. /\ y \in Block /\ y.type = "inuse" /\ y.nkeys = c
      /\ \A i \in 0 .. c - 1 : y.ent[i] = r.ent[a + 1 + i]
      /\ \A i \in 0 .. c : y.lnk[i] = r.lnk[a + 1 + i]
      /\ r.lnk = NoLinks => y.lnk = NoLinks
  <2>1. PICK d \in Nat : d = a + 1
    BY <1>2
  <2>2. d + c <= r.nkeys
    BY <1>2, <2>1
  <2> QED  BY <1>2, <1>3, <2>1, <2>2, CopyNew
<1>6. r.ent[a] \in Entry
  BY <1>2, BlockFacts
<1>7. Joined(r, x, r.ent[a], y)
  <2>1. r.nkeys = x.nkeys + y.nkeys + 1
    BY <1>2, <1>4, <1>5
  <2>2. ASSUME NEW i \in 0 .. r.nkeys - 1
        PROVE  /\ i < a => r.ent[i] = x.ent[i]
               /\ i > a => r.ent[i] = y.ent[i - a - 1]
    <3>1. CASE i < a
      BY <1>2, <1>4, <3>1
    <3>2. CASE i > a
      <4>1. PICK j \in 0 .. c - 1 : j = i - a - 1 /\ i = a + 1 + j
        BY <1>2, <3>2
      <4> QED  BY <1>2, <1>5, <3>2, <4>1
    <3> QED  BY <1>2, <3>1, <3>2
  <2> QED  BY <1>4, <2>1, <2>2 DEF Joined
<1>8. Linked(r, x, y)
  <2>1. ASSUME NEW i \in 0 .. r.nkeys
        PROVE  /\ i <= a => r.lnk[i] = x.lnk[i]
               /\ i > a => r.lnk[i] = y.lnk[i - a - 1]
    <3>1. CASE i <= a
      BY <1>2, <1>4, <3>1
    <3>2. CASE i > a
      <4>1. PICK j \in 0 .. c : j = i - a - 1 /\ i = a + 1 + j
        BY <1>2, <3>2
      <4> QED  BY <1>2, <1>5, <3>2, <4>1
    <3> QED  BY <1>2, <3>1, <3>2
  <2> QED  BY <1>4, <2>1 DEF Linked
<1>9. /\ t.nkeys = 1 /\ t.ent[0] = r.ent[Sp] /\ t.lnk[0] = b1 /\ t.lnk[1] = b2
      /\ t.type = r.type
  <2>1. PICK z : z = CopyKeys(r, r, 0, 0)
    OBVIOUS
  <2>2. z \in Block /\ z.type = r.type
    <3>1. 0 \in Nat /\ 0 + 0 <= r.nkeys
      BY <1>2
    <3> QED  BY <2>1, <3>1, CopyKeysBlock
  <2>3. /\ z.ent \in [0 .. MXKEY - 1 -> Entry \cup {NoEnt}]
        /\ z.lnk \in [0 .. MXKEY -> ChildOrNull]
        /\ z = [type |-> z.type, nkeys |-> z.nkeys, nxt |-> z.nxt,
                ent |-> z.ent, lnk |-> z.lnk]
    BY <2>2, BlockFacts
  <2>4. t = [[z EXCEPT !.ent[0] = r.ent[Sp], !.lnk[0] = b1, !.lnk[1] = b2]
               EXCEPT !.nkeys = 1]
    <3>1. 0 + 1 = 1
      OBVIOUS
    <3> QED  BY <2>1, <3>1 DEF RepKey, NewRoot
  <2>5. 0 \in 0 .. MXKEY - 1 /\ 0 \in 0 .. MXKEY /\ 1 \in 0 .. MXKEY
    BY <1>2
  <2>6. /\ t.nkeys = 1 /\ t.type = z.type
        /\ t.ent = [z.ent EXCEPT ![0] = r.ent[Sp]]
        /\ t.lnk = [[z.lnk EXCEPT ![0] = b1] EXCEPT ![1] = b2]
    <3>1. PICK e, ty, nk, nx, en, ln :
            e = r.ent[Sp] /\ z = [type |-> ty, nkeys |-> nk, nxt |-> nx,
                                  ent |-> en, lnk |-> ln]
      BY <2>3
    <3> QED  BY <2>4, <3>1
  <2>7. PICK en, ln : en = z.ent /\ ln = z.lnk
    OBVIOUS
  <2>8. /\ en \in [0 .. MXKEY - 1 -> Entry \cup {NoEnt}]
        /\ ln \in [0 .. MXKEY -> ChildOrNull]
    BY <2>3, <2>7
  <2>9. /\ [en EXCEPT ![0] = r.ent[Sp]][0] = r.ent[Sp]
        /\ [[ln EXCEPT ![0] = b1] EXCEPT ![1] = b2][0] = b1
        /\ [[ln EXCEPT ![0] = b1] EXCEPT ![1] = b2][1] = b2
    BY <2>5, <2>8
  <2> QED  BY <2>2, <2>6, <2>7, <2>9
<1> QED  BY <1>1, <1>2, <1>4, <1>5, <1>6, <1>7, <1>8, <1>9

(* SplitRoot keeps the shape.                                              *)
LEMMA TSplitRoot ==
  ASSUME KeysBounded, RoomToSplit, IInv, TInv, SplitRoot, ~spoiled
  PROVE  TInv'
<1> DEFINE r  == Blk(ROOT)
           b1 == GetFree(super, blocks)
           s1 == Taken(super, blocks)
           b2 == GetFree(s1, blocks)
           new == FreshBlock("inuse", ZNULL)
           x  == CopyKeys(new, r, 0, Sp)
           y  == CopyKeys(new, r, Sp + 1, Sp2)
           t  == [RepKey(CopyKeys(r, r, 0, 0), 0, r.ent[Sp], b1, b2)
                    EXCEPT !.nkeys = 1]
<1>1. pc \in {"find", "refind"} /\ cblk = ROOT /\ Full(r)
  BY DEF SplitRoot
<1>2. /\ Sound(blocks) /\ SuperOK(super) /\ FileOK(blocks, super)
      /\ r = blocks[ROOT] /\ r \in Block
      /\ lf.blk = ZNULL <=> stk = <<>>
      /\ stk \in Seq(Frame) /\ Len(stk) \in Nat
  BY <1>1, FindState
<1>3. PICK w : /\ Tree(blocks, w) /\ PathOK(blocks, w, stk, lf)
               /\ FindOK(blocks, w, stk, lf, cblk)
               /\ \A a \in Used(blocks) : w.h[a] # 0 => blocks[a].nkeys # 0
               /\ w.h[ROOT] \in Nat
               /\ pc = "find" => op.key = lf.key
  BY <1>1, FindState
<1>4. CASE b1 = ZNULL
  <2>1. NoSpace(NoFree(super)) /\ UNCHANGED super
    BY <1>4 DEF SplitRoot
  <2>2. Return(NoFree(super)) /\ UNCHANGED <<tree, lf, stk>>
    BY <2>1 DEF NoSpace, tree
  <2> QED  BY <1>1, <2>2, ReturnSameTree
<1>5. CASE b1 # ZNULL /\ b2 = ZNULL
  <2>1. NoSpace(NoFree(s1)) /\ super' = s1
    BY <1>5 DEF SplitRoot
  <2>2. blocks' = blocks /\ lf' = lf /\ stk' = stk /\ pc' = "idle"
    BY <2>1 DEF NoSpace, Return
  <2>3. FileOK(blocks, s1)
    <3>1. \A a \in Link : blocks[a].type = "free" /\ a # b1 =>
            blocks[a] = blocks[a]
      OBVIOUS
    <3>2. Used(blocks) \subseteq Used(blocks) \cup {b1}
      OBVIOUS
    <3> HIDE DEF s1, b1
    <3>3. PICK g, s : g = b1 /\ s = s1 /\ g = GetFree(super, blocks)
                      /\ s = Taken(super, blocks) /\ g # ZNULL
      BY <1>5 DEF b1, s1
    <3> QED  BY <1>2, <3>1, <3>2, <3>3, TakenFile
  <2>4. InteriorOK(blocks', w, lf', "idle")
    BY <1>3, <2>2 DEF InteriorOK
  <2> QED  BY <1>3, <2>1, <2>2, <2>3, <2>4, ReturnTree
<1>6. CASE b1 # ZNULL /\ b2 # ZNULL
  <2>1. /\ super' = Taken(s1, blocks)
        /\ blocks' = [blocks EXCEPT ![b1] = x, ![b2] = y, ![ROOT] = t]
        /\ UNCHANGED <<lf, stk, pc, op, cblk, tgt, err, out, spoiled>>
    BY <1>6 DEF SplitRoot
  <2> HIDE DEF b1, b2, s1, x, y, t, r
  <2>2. Sound(blocks')
    <3>1. b1 \in ChildOrNull /\ SuperOK(s1)
      BY <1>2, <1>6, GetFreeSound DEF b1, s1
    <3>2. b2 \in ChildOrNull
      BY <1>2, <3>1, GetFreeSound DEF b2
    <3> QED
      BY <1>1, <1>2, <2>1, <3>1, <3>2, SplitRootSound DEF x, y, t
  <2>3. /\ FileOK(blocks, super) => b1 \in Child /\ b2 \in Child
        /\ b1 \notin Used(blocks) /\ b2 \notin Used(blocks) /\ b1 # b2
    <3>1. PICK g1, q1, g2, q2 :
            /\ g1 = b1 /\ q1 = s1 /\ g2 = b2 /\ q2 = super'
            /\ g1 = GetFree(super, blocks) /\ q1 = Taken(super, blocks)
            /\ g2 = GetFree(q1, blocks) /\ q2 = Taken(q1, blocks)
            /\ g1 # ZNULL /\ g2 # ZNULL
      BY <1>6, <2>1 DEF b1, b2, s1
    <3>2. \A a \in Link : blocks[a].type = "free" /\ a # g1 /\ a # g2 =>
            blocks[a] = blocks[a]
      OBVIOUS
    <3>3. Used(blocks) \subseteq Used(blocks) \cup {g1, g2}
      OBVIOUS
    <3> QED  BY <1>2, <3>1, <3>2, <3>3, TwoTakenFile
  <2>4. b1 \in Child /\ b2 \in Child /\ b1 \in Link /\ b2 \in Link
        /\ b1 # ROOT /\ b2 # ROOT
    BY <1>2, <2>3, BlockNumbers DEF ChildOrNull
  <2>5. /\ blocks'[b1] = x /\ blocks'[b2] = y /\ blocks'[ROOT] = t
        /\ \A a \in Link \ {ROOT, b1, b2} : blocks'[a] = blocks[a]
        /\ blocks' \in [Link -> Block] /\ t \in Block /\ t.type = "root"
    BY <1>2, <2>1, <2>2, <2>3, <2>4, BlockNumbers DEF Sound
  <2>6. /\ x \in Block /\ x.type = "inuse" /\ x.nkeys # 0
        /\ y \in Block /\ y.type = "inuse" /\ y.nkeys # 0
        /\ r.ent[Sp] \in Entry /\ Joined(r, x, r.ent[Sp], y) /\ Linked(r, x, y)
        /\ r.lnk = NoLinks => x.lnk = NoLinks /\ y.lnk = NoLinks
        /\ t.nkeys = 1 /\ t.ent[0] = r.ent[Sp] /\ t.lnk[0] = b1 /\ t.lnk[1] = b2
    <3>1. PICK q, g1, g2, u, v, z :
            q = r /\ g1 = b1 /\ g2 = b2 /\ u = x /\ v = y /\ z = t
      OBVIOUS
    <3>2. /\ q \in Block /\ Full(q) /\ g1 \in Child /\ g2 \in Child
          /\ u = LowHalf(q) /\ v = HighHalf(q) /\ z = NewRoot(q, g1, g2)
      BY <1>1, <1>2, <2>4, <3>1 DEF x, y, t, LowHalf, HighHalf, NewRoot
    <3>3. /\ u \in Block /\ u.type = "inuse" /\ u.nkeys # 0
          /\ v \in Block /\ v.type = "inuse" /\ v.nkeys # 0
          /\ q.ent[Sp] \in Entry /\ Joined(q, u, q.ent[Sp], v)
          /\ Linked(q, u, v)
          /\ q.lnk = NoLinks => u.lnk = NoLinks /\ v.lnk = NoLinks
          /\ z.nkeys = 1 /\ z.ent[0] = q.ent[Sp] /\ z.lnk[0] = g1
          /\ z.lnk[1] = g2
      BY <3>2, HalvesView
    <3> QED  BY <3>1, <3>3
  <2>7. PICK e \in Entry : e = r.ent[Sp]
    BY <2>6
  <2>8. PICK w2 : w2 = RootWitness(w, b1, b2, e.key)
    OBVIOUS
  <2>9. Tree(blocks', w2) /\ Used(blocks') = Used(blocks) \cup {b1, b2}
    BY <1>2, <1>3, <2>3, <2>4, <2>5, <2>6, <2>7, <2>8, SplitRootTree, SMTT(30)
  <2>10. FileOK(blocks', super')
    <3>1. PICK g1, q1, g2, q2 :
            /\ g1 = b1 /\ q1 = s1 /\ g2 = b2 /\ q2 = super'
            /\ g1 = GetFree(super, blocks) /\ q1 = Taken(super, blocks)
            /\ g2 = GetFree(q1, blocks) /\ q2 = Taken(q1, blocks)
            /\ g1 # ZNULL /\ g2 # ZNULL
      BY <1>6, <2>1 DEF b1, b2, s1
    <3>2. \A a \in Link : blocks[a].type = "free" /\ a # g1 /\ a # g2 =>
            blocks'[a] = blocks[a]
      BY <1>2, <2>5, <3>1 DEF Sound
    <3>3. Used(blocks') \subseteq Used(blocks) \cup {g1, g2}
      BY <2>9, <3>1
    <3> QED  BY <1>2, <3>1, <3>2, <3>3, TwoTakenFile
  <2>11. /\ Len(stk') = 0 /\ stk' = stk /\ lf' = lf /\ lf.blk = ZNULL
         /\ 2 .. Len(stk') = {}
    <3>1. w.h[ROOT] = w.h[ROOT] - Len(stk)
      BY <1>1, <1>3 DEF FindOK
    <3>2. Len(stk) = 0
      BY <1>2, <1>3, <3>1
    <3> QED  BY <1>2, <2>1, <3>2
  <2>12. PathOK(blocks', w2, stk', lf')
    BY <2>11 DEF PathOK
  <2>13. ROOT \in Used(blocks') /\ w2.h[ROOT] \in Nat
         /\ w2.lo[ROOT] = Low /\ w2.hi[ROOT] = High
    <3>1. ROOT \in Used(blocks')
      BY DEF Used
    <3> QED  BY <2>2, <2>9, <3>1, UsedWitness DEF Tree
  <2>14. FindOK(blocks', w2, stk', lf', cblk')
    <3>1. lf.key \in Key /\ Spans(w, ROOT, lf.key)
      BY <1>1, <1>3 DEF FindOK
    <3>2. Spans(w2, ROOT, lf.key)
      BY <1>3, <2>13, <3>1 DEF Spans, Tree
    <3>3. Passed(stk', lf') = {}
      BY <2>11 DEF Passed
    <3>4. w2.h[ROOT] = w2.h[ROOT] - Len(stk')
      BY <2>11, <2>13
    <3> QED  BY <1>1, <2>1, <2>11, <2>13, <3>1, <3>2, <3>3, <3>4 DEF FindOK
  <2>15. InteriorOK(blocks', w2, lf', pc')
    <3>1. ASSUME NEW a \in Used(blocks'), w2.h[a] # 0
          PROVE  blocks'[a].nkeys # 0
      <4>1. CASE a \in {ROOT, b1, b2}
        BY <2>5, <2>6, <4>1
      <4>2. CASE a \notin {ROOT, b1, b2}
        <5>1. a \in Used(blocks) /\ a \in Link /\ a \in TreeBlk
          BY <1>2, <2>9, <4>2, UsedBlock
        <5>2. w2.h[a] = w.h[a]
          BY <1>3, <2>8, <4>2, <5>1 DEF RootWitness, Tree, Witness
        <5> QED  BY <1>3, <2>5, <3>1, <4>2, <5>1, <5>2
      <4> QED  BY <4>1, <4>2
    <3> QED  BY <3>1 DEF InteriorOK
  <2>16. TreeInv(w2)'
    BY <1>1, <1>3, <2>1, <2>9, <2>12, <2>14, <2>15 DEF TreeInv
  <2> QED  BY <2>10, <2>16 DEF TInv
<1> QED  BY <1>4, <1>5, <1>6

(* A path survives a change of its last block and of blocks not on it.     *)
LEMMA PathSame ==
  ASSUME NEW B, Sound(B), NEW w, Tree(B, w), NEW B2, NEW w2,
         NEW S \in Seq(Frame), NEW f,
         PathOK(B, w, S, f), w2.h[ROOT] = w.h[ROOT],
         \A a \in Passed(S, f) : a \in Used(B2) /\ w2.h[a] = w.h[a],
         \A a \in Passed(S, f) : a # f.blk => B2[a] = B[a]
  PROVE  PathOK(B2, w2, S, f)
<1>1. ROOT \in Used(B)
  BY DEF Used
<1>2. w.h[ROOT] \in Nat
  BY <1>1, UsedWitness
<1>3. ASSUME NEW i \in 2 .. Len(S)
      PROVE  /\ S[i].blk \in Used(B2) /\ w2.h[S[i].blk] = w.h[S[i].blk]
             /\ B2[S[i].blk].nkeys = B[S[i].blk].nkeys
             /\ B2[S[i].blk].lnk = B[S[i].blk].lnk
  <2>1. S[i].blk \in Passed(S, f)
    BY DEF Passed
  <2>2. S[i].blk # f.blk
    <3>1. CASE f.blk = ZNULL
      <4>1. S[i].blk \in Used(B)
        BY DEF PathOK
      <4> QED  BY <3>1, <4>1, UsedBlock
    <3>2. CASE f.blk # ZNULL
      <4>1. f.blk \in Used(B)
        BY <3>2 DEF PathOK
      <4>2. w.h[f.blk] \in Nat
        BY <4>1, UsedWitness
      <4> QED  BY <1>2, <3>2, <4>2, PathAbove
    <3> QED  BY <3>1, <3>2
  <2> QED  BY <2>1, <2>2
<1>4. f.blk # ZNULL => f.blk \in Used(B2) /\ w2.h[f.blk] = w.h[f.blk]
  BY DEF Passed
<1> QED  BY <1>3, <1>4, PathKept

(* The step back to the parent.                                            *)
LEMMA PathUp ==
  ASSUME IInv, NEW w, Tree(blocks, w), PathOK(blocks, w, stk, lf),
         lf.blk # ZNULL, NEW S, S = Rest, NEW f, f.blk = Top.blk,
         f.pos = Top.pos
  PROVE  /\ PathOK(blocks, w, S, f) /\ Len(S) = Len(stk) - 1
         /\ S \in Seq(Frame) /\ Len(stk) \in Nat /\ Len(stk) >= 1
         /\ f.blk = ZNULL <=> lf.blk = ROOT
         /\ f.blk = ZNULL <=> S = <<>>
         /\ f.blk # ZNULL =>
              /\ f.blk \in Used(blocks) /\ w.h[f.blk] # 0
              /\ w.h[f.blk] = w.h[lf.blk] + 1
              /\ f.pos \in 0 .. blocks[f.blk].nkeys
              /\ blocks[f.blk].lnk[f.pos] = lf.blk
         /\ \A a \in Passed(S, f) :
              /\ a \in Passed(stk, lf) /\ a \in Used(blocks)
              /\ w.h[lf.blk] < w.h[a]
         /\ lf.blk \in Used(blocks) /\ w.h[lf.blk] \in Nat
         /\ w.h[lf.blk] = w.h[ROOT] - Len(S) /\ w.h[ROOT] \in Nat
<1>1. /\ stk \in Seq(Frame) /\ Len(stk) \in Nat /\ stk # <<>> /\ Sound(blocks)
  BY EmptyStack, SameTree
<1>2. PICK n \in Nat : n = Len(stk) - 1 /\ Len(stk) = n + 1
  <2>1. Len(stk) # 0
    BY <1>1
  <2> QED  BY <1>1, <2>1
<1>3. Top = stk[n + 1] /\ Top \in Frame /\ Top.blk \in Depth(n)
  BY <1>1, <1>2, TopFacts
<1>4. /\ ROOT \in Used(blocks) /\ lf.blk \in Used(blocks)
      /\ lf.blk \in Depth(n + 1)
  BY <1>2 DEF Used, PathOK, IInv, StackShape
<1>5. w.h[ROOT] \in Nat /\ w.h[lf.blk] \in Nat /\ w.h[lf.blk] = w.h[ROOT] - n
  <2>1. w.h[ROOT] \in Nat /\ w.h[lf.blk] \in Nat
    BY <1>1, <1>4, UsedWitness
  <2>2. w.h[lf.blk] = w.h[ROOT] - (Len(stk) - 1)
    BY DEF PathOK
  <2> QED  BY <1>2, <2>1, <2>2
<1>6. S \in Seq(Frame) /\ Len(S) = n /\ \A i \in 1 .. n : S[i] = stk[i]
  <2>1. S = SubSeq(stk, 1, n)
    BY <1>1, <1>2 DEF Rest
  <2> QED  BY <1>1, <1>2, <2>1
<1>7. n = 0 <=> S = <<>>
  BY <1>6
<1>8. (f.blk = ZNULL <=> n = 0) /\ (lf.blk = ROOT <=> n = 0)
  BY <1>3, <1>4, DepthFacts
<1>9. ASSUME NEW i \in 2 .. n
      PROVE  /\ S[i].blk \in Passed(stk, lf) /\ S[i].blk \in Used(blocks)
             /\ w.h[lf.blk] < w.h[S[i].blk]
  <2>1. S[i] = stk[i] /\ i \in 2 .. Len(stk)
    BY <1>2, <1>6
  <2>2. /\ w.h[lf.blk] < w.h[stk[i].blk] /\ stk[i].blk \in Used(blocks)
    BY <1>1, <1>5, <2>1, PathAbove
  <2> QED  BY <2>1, <2>2 DEF Passed
<1>10. CASE n = 0
  <2>1. 2 .. Len(S) = {} /\ f.blk = ZNULL
    BY <1>6, <1>8, <1>10
  <2>2. PathOK(blocks, w, S, f) /\ Passed(S, f) = {}
    BY <2>1 DEF PathOK, Passed
  <2> QED  BY <1>1, <1>2, <1>4, <1>5, <1>6, <1>7, <1>8, <1>10, <2>1, <2>2
<1>11. CASE n # 0
  <2>1. Len(stk) >= 2
    BY <1>2, <1>11
  <2>2. PICK t : t = Top /\ t = stk[Len(stk)] /\ f.blk = t.blk /\ f.pos = t.pos
    BY <1>2, <1>3
  <2>3. /\ PathOK(blocks, w, S, f)
        /\ t.blk \in Used(blocks) /\ w.h[t.blk] # 0
        /\ t.pos \in 0 .. blocks[t.blk].nkeys
        /\ blocks[t.blk].lnk[t.pos] = lf.blk
        /\ w.h[t.blk] = w.h[ROOT] - (Len(stk) - 2)
        /\ Passed(S, f) \subseteq Passed(stk, lf)
    <3>1. Shrunk(stk, S, f)
      BY <1>1, <2>1, <2>2 DEF Rest, Shrunk
    <3>2. /\ PathOK(blocks, w, S, f)
          /\ f.blk \in Used(blocks) /\ w.h[f.blk] # 0
          /\ f.pos \in 0 .. blocks[f.blk].nkeys
          /\ blocks[f.blk].lnk[f.pos] = lf.blk
          /\ w.h[f.blk] = w.h[ROOT] - (Len(stk) - 2)
          /\ Passed(S, f) \subseteq Passed(stk, lf)
      <4>1. /\ PathOK(blocks, w, S, f) /\ AtParent(blocks, w, stk, lf, f)
            /\ Passed(S, f) \subseteq Passed(stk, lf)
        BY <1>5, <3>1, PathPop
      <4> QED  BY <4>1 DEF AtParent
    <3> QED  BY <2>2, <3>2
  <2>4. w.h[t.blk] = w.h[lf.blk] + 1
    <3>1. PICK x, y, z : x = w.h[t.blk] /\ y = w.h[lf.blk] /\ z = w.h[ROOT]
      OBVIOUS
    <3>2. x = z - (n + 1 - 2) /\ y = z - n /\ z \in Nat
      BY <1>2, <1>5, <2>3, <3>1
    <3>3. x = y + 1
      BY <3>2
    <3> QED  BY <3>1, <3>3
  <2>5. \A a \in Passed(S, f) : a \in Used(blocks) /\ w.h[lf.blk] < w.h[a]
    <3>1. w.h[lf.blk] < w.h[t.blk]
      BY <1>5, <2>4
    <3>2. ASSUME NEW a \in Passed(S, f)
          PROVE  a \in Used(blocks) /\ w.h[lf.blk] < w.h[a]
      <4>1. a = t.blk \/ \E i \in 2 .. n : a = S[i].blk
        BY <1>6, <2>2, <3>2 DEF Passed
      <4> QED  BY <1>9, <2>3, <3>1, <4>1
    <3> QED  BY <3>2
  <2> QED
    BY <1>1, <1>2, <1>4, <1>5, <1>6, <1>7, <1>8, <1>11, <2>2, <2>3, <2>4, <2>5,
       SMTT(30)
<1> QED  BY <1>10, <1>11

(* The parts of a witness of the state, in the form the steps need.        *)
LEMMA StateWitness ==
  ASSUME IInv, TInv, ~spoiled
  PROVE  /\ Sound(blocks) /\ SuperOK(super) /\ FileOK(blocks, super)
         /\ stk \in Seq(Frame) /\ ROOT \in Used(blocks)
         /\ \E w : /\ TreeInv(w) /\ Tree(blocks, w)
                   /\ PathOK(blocks, w, stk, lf)
                   /\ w.h[ROOT] \in Nat /\ InteriorOK(blocks, w, lf, pc)
<1>1. PICK w : TreeInv(w)
  BY DEF TInv
<1>2. ROOT \in Used(blocks)
  BY DEF Used
<1>3. w.h[ROOT] \in Nat
  BY <1>1, <1>2, SameTree, UsedWitness DEF TreeInv
<1>4. /\ Tree(blocks, w) /\ PathOK(blocks, w, stk, lf)
      /\ InteriorOK(blocks, w, lf, pc)
  BY <1>1 DEF TreeInv
<1> QED  BY <1>1, <1>2, <1>3, <1>4, SameTree, EmptyStack DEF TInv

(* SplitChild keeps the shape.                                             *)
LEMMA TSplitChild ==
  ASSUME RoomToSplit, IInv, TInv, SplitChild, ~spoiled
  PROVE  TInv'
<1> DEFINE new == GetFree(super, blocks)
<1>1. pc \in {"find", "refind"} /\ cblk # ROOT /\ Full(Blk(cblk))
  BY DEF SplitChild
<1>2. /\ Sound(blocks) /\ SuperOK(super) /\ FileOK(blocks, super)
      /\ Blk(cblk) = blocks[cblk]
      /\ stk \in Seq(Frame)
  BY <1>1, FindState
<1>3. PICK w : /\ Tree(blocks, w) /\ PathOK(blocks, w, stk, lf)
               /\ FindOK(blocks, w, stk, lf, cblk)
               /\ \A a \in Used(blocks) : w.h[a] # 0 => blocks[a].nkeys # 0
               /\ w.h[ROOT] \in Nat
               /\ pc = "find" => op.key = lf.key
  BY <1>1, FindState
<1>4. CASE new = ZNULL
  <2>1. NoSpace(NoFree(super)) /\ UNCHANGED super
    BY <1>4 DEF SplitChild
  <2>2. Return(NoFree(super)) /\ UNCHANGED <<tree, lf, stk>>
    BY <2>1 DEF NoSpace, tree
  <2> QED  BY <1>1, <2>2, ReturnSameTree
<1>5. CASE new # ZNULL /\ Full(Node)
  BY <1>5, GiveUpTree DEF SplitChild
<1>6. CASE new # ZNULL /\ ~Full(Node)
  <2>1. /\ blocks' = Split(blocks, cblk, new, lf.blk)
        /\ super' = Taken(super, blocks)
        /\ cblk' = lf.blk /\ lf' = At(Top.blk, Top.pos) /\ stk' = Rest
        /\ pc' = pc /\ op' = op
    BY <1>6 DEF SplitChild
  <2> HIDE DEF new
  <2>2. /\ lf.blk # ZNULL /\ w.h[lf.blk] # 0
        /\ lf.pos \in 0 .. blocks[lf.blk].nkeys
        /\ cblk = blocks[lf.blk].lnk[lf.pos] /\ lf.key \in Key
        /\ \A a \in Passed(stk, lf) : Spans(w, a, lf.key) /\ ~Full(blocks[a])
    BY <1>1, <1>3 DEF FindOK
  <2>3. lf' = [lf EXCEPT !.blk = Top.blk, !.pos = Top.pos]
    BY <2>1 DEF At
  <2>4. lf'.blk = Top.blk /\ lf'.pos = Top.pos /\ lf'.key = lf.key
    BY <2>3 DEF IInv, TypeOK
  <2>5. /\ PathOK(blocks, w, stk', lf') /\ Len(stk') = Len(stk) - 1
        /\ stk' \in Seq(Frame)
        /\ lf'.blk = ZNULL <=> lf.blk = ROOT
        /\ lf'.blk # ZNULL =>
              /\ lf'.blk \in Used(blocks) /\ w.h[lf'.blk] # 0
              /\ lf'.pos \in 0 .. blocks[lf'.blk].nkeys
              /\ blocks[lf'.blk].lnk[lf'.pos] = lf.blk
        /\ \A a \in Passed(stk', lf') :
              /\ a \in Passed(stk, lf) /\ a \in Used(blocks)
              /\ w.h[lf.blk] < w.h[a]
        /\ lf.blk \in Used(blocks) /\ w.h[lf.blk] \in Nat
        /\ w.h[lf.blk] = w.h[ROOT] - Len(stk')
    BY <1>3, <2>1, <2>2, <2>4, PathUp
  <2>6. ~Full(blocks[lf.blk]) /\ blocks[lf.blk].nkeys # 0
    BY <1>3, <2>2, <2>5, <1>6, NodeFacts
  <2>7. new \in Child /\ new \notin Used(blocks) /\ SuperOK(super')
    <3>1. PICK g, t : g = new /\ t = super' /\ g = GetFree(super, blocks)
                      /\ t = Taken(super, blocks) /\ g # ZNULL
      BY <1>6, <2>1 DEF new
    <3>2. \A a \in Link : blocks[a].type = "free" /\ a # g =>
            blocks[a] = blocks[a]
      OBVIOUS
    <3>3. Used(blocks) \subseteq Used(blocks) \cup {g}
      OBVIOUS
    <3> QED  BY <1>2, <3>1, <3>2, <3>3, TakenFile
  <2>8. /\ cblk \in Used(blocks) \ {ROOT} /\ w.h[cblk] = w.h[lf.blk] - 1
    <3>1. Kid(blocks, w, cblk, w.h[lf.blk] - 1,
              From(blocks[lf.blk], w.lo[lf.blk], lf.pos),
              To(blocks[lf.blk], w.hi[lf.blk], lf.pos))
      BY <1>3, <2>2, <2>5 DEF Tree, NodeOK
    <3> QED  BY <3>1 DEF Kid
  <2>9. PICK w2 : w2 = SplitWitness(w, cblk, new, KeyAt(blocks[cblk], Sp))
    OBVIOUS
  <2>10. /\ Tree(blocks', w2) /\ Used(blocks') = Used(blocks) \cup {new}
         /\ \A a \in Used(blocks) : w2.h[a] = w.h[a]
         /\ \A a \in Used(blocks) \ {cblk} :
              w2.lo[a] = w.lo[a] /\ w2.hi[a] = w.hi[a]
         /\ \A a \in Used(blocks) \ {cblk, lf.blk} : blocks'[a] = blocks[a]
         /\ \A a \in Link \ {cblk, lf.blk, new} : blocks'[a] = blocks[a]
         /\ blocks'[lf.blk].nkeys = blocks[lf.blk].nkeys + 1
         /\ blocks'[cblk].nkeys = Sp /\ blocks'[new].nkeys = Sp2
    <3>1. PICK p, i, b, g : p = lf.blk /\ i = lf.pos /\ b = cblk /\ g = new
      OBVIOUS
    <3>2. /\ p \in Used(blocks) /\ w.h[p] # 0 /\ ~Full(blocks[p])
          /\ blocks[p].nkeys # 0 /\ i \in 0 .. blocks[p].nkeys
          /\ b = blocks[p].lnk[i] /\ Full(blocks[b])
          /\ g \in Child /\ g \notin Used(blocks)
          /\ blocks' = Split(blocks, b, g, p)
          /\ w2 = SplitWitness(w, b, g, KeyAt(blocks[b], Sp))
      BY <1>1, <1>2, <2>1, <2>2, <2>5, <2>6, <2>7, <2>9, <3>1
    <3>3. /\ Tree(blocks', w2) /\ Used(blocks') = Used(blocks) \cup {g}
          /\ \A a \in Used(blocks) : w2.h[a] = w.h[a]
          /\ \A a \in Used(blocks) \ {b} :
               w2.lo[a] = w.lo[a] /\ w2.hi[a] = w.hi[a]
          /\ \A a \in Used(blocks) \ {b, p} : blocks'[a] = blocks[a]
          /\ \A a \in Link \ {b, p, g} : blocks'[a] = blocks[a]
          /\ blocks'[p].nkeys = blocks[p].nkeys + 1 /\ blocks'[b].nkeys = Sp
          /\ blocks'[g].nkeys = Sp2
      BY <1>2, <1>3, <3>2, SplitTree, SMTT(30)
    <3> QED  BY <3>1, <3>3
  <2>11. FileOK(blocks', super')
    <3>1. PICK g, t : g = new /\ t = super' /\ g = GetFree(super, blocks)
                      /\ t = Taken(super, blocks) /\ g # ZNULL
      BY <1>6, <2>1 DEF new
    <3>2. blocks[cblk].type # "free" /\ blocks[lf.blk].type # "free"
      BY <1>2, <2>5, <2>8, UsedBlock
    <3>3. \A a \in Link : blocks[a].type = "free" /\ a # g =>
            blocks'[a] = blocks[a]
      BY <2>10, <3>1, <3>2
    <3>4. Used(blocks') \subseteq Used(blocks) \cup {g}
      BY <2>10, <3>1
    <3> QED  BY <1>2, <3>1, <3>3, <3>4, TakenFile
  <2>12. ASSUME NEW a \in Passed(stk', lf')
         PROVE  /\ a \in Used(blocks') /\ w2.h[a] = w.h[a]
                /\ blocks'[a] = blocks[a]
                /\ Spans(w2, a, lf.key) /\ ~Full(blocks'[a])
    <3>1. a \in Used(blocks) /\ w.h[lf.blk] < w.h[a] /\ a \in Passed(stk, lf)
      BY <2>5, <2>12
    <3>2. w.h[a] \in Nat
      BY <1>2, <1>3, <3>1, UsedWitness
    <3>3. a # lf.blk /\ a # cblk
      BY <2>5, <2>8, <3>1, <3>2
    <3> QED  BY <2>2, <2>10, <3>1, <3>3 DEF Spans
  <2>13. PathOK(blocks', w2, stk', lf')
    <3>1. w2.h[ROOT] = w.h[ROOT]
      BY <2>10 DEF Used
    <3> QED  BY <1>2, <1>3, <2>5, <2>12, <3>1, PathSame
  <2>14. FindOK(blocks', w2, stk', lf', cblk')
    <3>1. lf.blk \in Used(blocks') /\ w2.h[lf.blk] = w2.h[ROOT] - Len(stk')
      BY <2>5, <2>10 DEF Used
    <3>2. Spans(w2, lf.blk, lf.key)
      <4>1. lf.blk \in Passed(stk, lf)
        BY <2>2 DEF Passed
      <4>2. lf.blk # cblk
        BY <2>5, <2>8
      <4> QED  BY <2>2, <2>5, <2>10, <4>1, <4>2 DEF Spans
    <3>3. lf'.blk # ZNULL =>
            /\ w2.h[lf'.blk] # 0 /\ lf'.pos \in 0 .. blocks'[lf'.blk].nkeys
            /\ lf.blk = blocks'[lf'.blk].lnk[lf'.pos]
      <4>1. lf'.blk # ZNULL => lf'.blk \in Passed(stk', lf')
        BY DEF Passed
      <4> QED  BY <2>5, <2>12, <4>1
    <3> QED
      BY <2>1, <2>2, <2>4, <2>5, <2>12, <3>1, <3>2, <3>3 DEF FindOK
  <2>15. InteriorOK(blocks', w2, lf', pc')
    <3>1. ASSUME NEW a \in Used(blocks'), w2.h[a] # 0
          PROVE  blocks'[a].nkeys # 0
      <4>1. CASE a = new \/ a = cblk
        BY <2>10, <4>1, SplitRoom
      <4>2. CASE a = lf.blk
        <5>1. blocks[lf.blk].nkeys \in Nat
          BY <1>2, <2>5, UsedBlock
        <5> QED  BY <2>10, <4>2, <5>1
      <4>3. CASE a \notin {new, cblk, lf.blk}
        BY <1>3, <2>10, <3>1, <4>3
      <4> QED  BY <4>1, <4>2, <4>3
    <3> QED  BY <3>1 DEF InteriorOK
  <2>16. TreeInv(w2)'
    BY <1>1, <1>3, <2>1, <2>4, <2>10, <2>13, <2>14, <2>15 DEF TreeInv
  <2> QED  BY <2>11, <2>16 DEF TInv
<1> QED  BY <1>4, <1>5, <1>6

----------------------------------------------------------------------------
(* The steps that edit one leaf.                                           *)

(* The blocks after a step are blocks.                                     *)
LEMMA SoundNext ==
  ASSUME IInv'
  PROVE  Sound(blocks')
BY DEF IInv, TypeOK, RootIsRoot, Sound

(* One block is rewritten within its fences.                               *)
LEMMA OneBlock ==
  ASSUME NEW B, Sound(B), NEW s, FileOK(B, s), NEW w, Tree(B, w),
         NEW S \in Seq(Frame), NEW f, PathOK(B, w, S, f), f.blk # ZNULL,
         NEW m, Fits(B, w, f.blk, m),
         NEW B2, B2 = Write(B, f.blk, m)
  PROVE  /\ Tree(B2, w) /\ Used(B2) = Used(B) /\ FileOK(B2, s)
         /\ PathOK(B2, w, S, f) /\ B2[f.blk] = m
         /\ \A a \in Used(B) : a # f.blk => B2[a] = B[a]
         /\ f.blk \in Used(B)
<1>1. f.blk \in Used(B)
  BY DEF PathOK
<1>2. PICK b : b = f.blk
  OBVIOUS
<1>3. /\ Used(B2) = Used(B) /\ Tree(B2, w) /\ B2[b] = m
      /\ \A a \in Used(B) \ {b} : B2[a] = B[a]
  <2>1. b \in Used(B) /\ Fits(B, w, b, m) /\ B2 = Write(B, b, m)
    BY <1>1, <1>2
  <2> QED  BY <2>1, EditTree
<1>4. FileOK(B2, s)
  <2>1. B[b].type # "free" /\ B \in [Link -> Block]
    BY <1>1, <1>2, UsedBlock DEF Sound
  <2>2. \A a \in Link : B[a].type = "free" => B2[a] = B[a]
    BY <1>2, <2>1 DEF Write
  <2> QED  BY <1>3, <2>1, <2>2, SameFile
<1>5. PathOK(B2, w, S, f)
  <2>1. \A a \in Passed(S, f) : a \in Used(B)
    BY DEF Passed, PathOK
  <2> QED  BY <1>2, <1>3, <2>1, PathSame
<1> QED  BY <1>1, <1>2, <1>3, <1>4, <1>5

(* bputky puts the key where it belongs.                                   *)
LEMMA InsertOrder ==
  ASSUME NEW x \in Block, Sorted(x), x.lnk = NoLinks, ~Full(x),
         NEW l \in Int, NEW u \in Int, Within(x, l, u),
         NEW e \in Entry, l < e.key, e.key < u,
         \A i \in 0 .. x.nkeys - 1 : KeyAt(x, i) # e.key,
         NEW m, m = PutKey(x, e, ZNULL, ZNULL)
  PROVE  /\ m \in Block /\ m.type = x.type /\ Sorted(m) /\ Within(m, l, u)
         /\ m.lnk = NoLinks
<1>1. PICK k \in Int : k = e.key
  BY KeyConstants DEF Entry
<1>2. PICK p : p = Gap(x, k)
  OBVIOUS
<1>3. /\ p \in 0 .. x.nkeys /\ x.nkeys \in Nat /\ x.nkeys < MXKEY
      /\ \A i \in 0 .. x.nkeys - 1 : (i < p) <=> (KeyAt(x, i) < k)
  <2>1. x.nkeys \in 0 .. MXKEY /\ x.nkeys # MXKEY
    BY BlockKeys DEF Full
  <2> QED  BY <1>2, <2>1, GapSeparates, BlockConstants, SMTT(30)
<1>4. x.nkeys # 0 => p = PutPos(x, e, ZNULL, ZNULL)
  BY <1>1, <1>2 DEF PutPos
<1>5. /\ m \in Block /\ m.type = x.type /\ m.nkeys = x.nkeys + 1
      /\ \A i \in 0 .. x.nkeys :
           /\ i < p => m.ent[i] = x.ent[i]
           /\ i = p => m.ent[i] = e
           /\ i > p => m.ent[i] = x.ent[i - 1]
      /\ m.lnk = PutLnk(x, p, ZNULL, ZNULL)
  <2>1. ZNULL \in ChildOrNull
    BY BlockNumbers
  <2> QED  BY <1>3, <1>4, <2>1, PutEntries
<1>6. m.lnk = NoLinks
  BY <1>3, <1>5, PutLinksLeaf
<1>7. \A i \in 0 .. x.nkeys - 1 : KeyAt(x, i) \in Int
  BY BlockKeys
<1>8. ASSUME NEW i \in 0 .. x.nkeys
      PROVE  /\ i < p => /\ i \in 0 .. x.nkeys - 1 /\ KeyAt(m, i) = KeyAt(x, i)
                         /\ KeyAt(m, i) < k
             /\ i = p => KeyAt(m, i) = k
             /\ i > p => /\ i - 1 \in 0 .. x.nkeys - 1
                         /\ KeyAt(m, i) = KeyAt(x, i - 1) /\ k < KeyAt(m, i)
             /\ KeyAt(m, i) \in Int
  <2>1. CASE i < p
    <3>1. i \in 0 .. x.nkeys - 1
      BY <1>3, <2>1
    <3> QED  BY <1>3, <1>5, <1>7, <2>1, <3>1 DEF KeyAt
  <2>2. CASE i = p
    BY <1>1, <1>5, <2>2 DEF KeyAt
  <2>3. CASE i > p
    <3>1. PICK j \in 0 .. x.nkeys - 1 : j = i - 1 /\ ~(j < p)
      BY <1>3, <2>3
    <3>2. KeyAt(m, i) = KeyAt(x, j)
      BY <1>5, <2>3, <3>1 DEF KeyAt
    <3>3. KeyAt(x, j) # k /\ ~(KeyAt(x, j) < k) /\ KeyAt(x, j) \in Int
      BY <1>1, <1>3, <1>7, <3>1
    <3> QED  BY <1>3, <2>3, <3>1, <3>2, <3>3
  <2> QED  BY <1>3, <2>1, <2>2, <2>3
<1>9. Sorted(m)
  <2>1. ASSUME NEW i \in 0 .. x.nkeys, NEW j \in 0 .. x.nkeys, i < j
        PROVE  KeyAt(m, i) < KeyAt(m, j)
    <3>1. CASE j < p
      BY <1>3, <1>8, <2>1, <3>1 DEF Sorted
    <3>2. CASE i > p
      <4>1. /\ i - 1 \in 0 .. x.nkeys - 1 /\ j - 1 \in 0 .. x.nkeys - 1
            /\ i - 1 < j - 1
        BY <1>3, <2>1, <3>2
      <4>2. KeyAt(m, i) = KeyAt(x, i - 1) /\ KeyAt(m, j) = KeyAt(x, j - 1)
        BY <1>3, <1>8, <2>1, <3>2
      <4> QED  BY <4>1, <4>2 DEF Sorted
    <3>3. CASE i <= p /\ p <= j
      <4>1. KeyAt(m, i) \in Int /\ KeyAt(m, j) \in Int
        BY <1>8
      <4>2. KeyAt(m, i) <= k /\ k <= KeyAt(m, j) /\ (i < p \/ p < j)
        BY <1>3, <1>8, <2>1, <3>3, <4>1
      <4> QED  BY <1>3, <1>8, <2>1, <3>3, <4>1, <4>2
    <3> QED  BY <1>3, <2>1, <3>1, <3>2, <3>3
  <2> QED  BY <1>3, <1>5, <2>1 DEF Sorted
<1>10. Within(m, l, u)
  <2>1. ASSUME NEW i \in 0 .. x.nkeys
        PROVE  l < KeyAt(m, i) /\ KeyAt(m, i) < u
    BY <1>1, <1>3, <1>8 DEF Within
  <2> QED  BY <1>3, <1>5, <2>1 DEF Within
<1> QED  BY <1>5, <1>6, <1>9, <1>10

(* InsertKey keeps the shape.                                              *)
LEMMA TInsertKey ==
  ASSUME IInv, TInv, InsertKey, ~spoiled
  PROVE  TInv'
<1>1. CASE Full(Node)
  BY <1>1, GiveUpTree DEF InsertKey
<1>2. CASE ~Full(Node)
  <2> DEFINE e == [key |-> op.key, val |-> op.val]
  <2>1. /\ pc = "insert" /\ Return("OK")
        /\ UNCHANGED <<super, lf, stk, out, spoiled>>
        /\ blocks' = [blocks EXCEPT ![lf.blk] = PutKey(@, e, ZNULL, ZNULL)]
    BY <1>2 DEF InsertKey
  <2>2. e \in Entry /\ e.key = op.key
    BY <2>1 DEF IInv, CallState, Entry
  <2> HIDE DEF e
  <2>3. /\ Sound(blocks) /\ FileOK(blocks, super) /\ stk \in Seq(Frame)
    BY StateWitness
  <2>4. PICK w : /\ Tree(blocks, w) /\ PathOK(blocks, w, stk, lf)
                 /\ InteriorOK(blocks, w, lf, pc) /\ TreeInv(w)
    BY StateWitness
  <2>5. InsertOK(blocks, w, lf, op.key)
    BY <2>1, <2>4 DEF TreeInv
  <2>6. PICK x, b : x = blocks[lf.blk] /\ b = lf.blk
    OBVIOUS
  <2>7. /\ b \in Used(blocks) /\ b \in Link /\ b # ZNULL /\ w.h[b] = 0
        /\ w.lo[b] < op.key /\ op.key < w.hi[b] /\ ~Full(x)
        /\ \A i \in 0 .. x.nkeys - 1 : KeyAt(x, i) # op.key
        /\ x \in Block
    BY <2>3, <2>4, <2>5, <2>6, UsedBlock DEF InsertOK, PathOK, Spans
  <2>8. /\ Sorted(x) /\ Within(x, w.lo[b], w.hi[b]) /\ x.lnk = NoLinks
        /\ w.lo[b] \in Int /\ w.hi[b] \in Int
    BY <2>3, <2>4, <2>6, <2>7, UsedWitness DEF NodeOK
  <2>9. PICK m : m = PutKey(x, e, ZNULL, ZNULL)
    OBVIOUS
  <2>10. /\ m \in Block /\ m.type = x.type /\ Sorted(m)
         /\ Within(m, w.lo[b], w.hi[b]) /\ m.lnk = NoLinks
    BY <2>2, <2>7, <2>8, <2>9, InsertOrder
  <2>11. blocks' = Write(blocks, lf.blk, m)
    BY <2>1, <2>3, <2>6, <2>7, <2>9 DEF Sound, Write
  <2>12. /\ Tree(blocks', w) /\ Used(blocks') = Used(blocks)
         /\ FileOK(blocks', super) /\ PathOK(blocks', w, stk, lf)
         /\ \A a \in Used(blocks) : a # b => blocks'[a] = blocks[a]
    <3>1. Fits(blocks, w, lf.blk, m)
      BY <2>6, <2>7, <2>10 DEF Fits
    <3> QED  BY <2>3, <2>4, <2>6, <2>7, <2>11, <3>1, OneBlock
  <2>13. InteriorOK(blocks', w, lf', "idle")
    BY <2>1, <2>4, <2>7, <2>12 DEF InteriorOK
  <2> QED  BY <2>1, <2>12, <2>13, ReturnTree DEF Return
<1> QED  BY <1>1, <1>2

(* UpdateKey keeps the shape: bmodky changes a value.                      *)
LEMMA TUpdateKey ==
  ASSUME IInv, TInv, UpdateKey, ~spoiled
  PROVE  TInv'
<1>1. /\ pc = "update" /\ UNCHANGED <<super, lf, stk, out, spoiled>>
  BY DEF UpdateKey
<1>2. ASSUME blocks' = blocks, NEW e, Return(e) PROVE TInv'
  <2>1. UNCHANGED <<tree, lf, stk>>
    BY <1>1, <1>2 DEF tree
  <2> QED  BY <1>1, <1>2, <2>1, ReturnSameTree
<1>3. CASE lf.pos < 0 \/ lf.pos >= MXKEY
  BY <1>2, <1>3 DEF UpdateKey
<1>4. CASE ~(lf.pos < 0 \/ lf.pos >= MXKEY)
  <2>1. /\ Return("OK")
        /\ blocks' = [blocks EXCEPT ![lf.blk] = ModVal(@, lf.pos, op.val)]
    BY <1>4 DEF UpdateKey
  <2>2. /\ Sound(blocks) /\ FileOK(blocks, super) /\ stk \in Seq(Frame)
    BY StateWitness
  <2>3. CASE lf.blk = ZNULL
    <3>1. blocks' = blocks
      BY <2>1, <2>2, <2>3, BlockNumbers DEF Sound
    <3> QED  BY <1>2, <2>1, <3>1
  <2>4. CASE lf.blk # ZNULL
    <3>1. PICK w : /\ Tree(blocks, w) /\ PathOK(blocks, w, stk, lf)
                   /\ InteriorOK(blocks, w, lf, pc) /\ TreeInv(w)
      BY StateWitness
    <3>2. PICK x, b : x = blocks[lf.blk] /\ b = lf.blk
      OBVIOUS
    <3>3. b \in Used(blocks) /\ b \in Link /\ x \in Block
      BY <2>2, <2>4, <3>1, <3>2, UsedBlock DEF PathOK
    <3>4. /\ Sorted(x) /\ Within(x, w.lo[b], w.hi[b])
          /\ w.h[b] = 0 => x.lnk = NoLinks
      BY <2>2, <3>1, <3>2, <3>3, UsedWitness DEF NodeOK
    <3>5. PICK m : m = ModVal(x, lf.pos, op.val)
      OBVIOUS
    <3>6. /\ m \in Block /\ m.type = x.type /\ m.nkeys = x.nkeys
          /\ \A i \in 0 .. x.nkeys - 1 : m.ent[i].key = x.ent[i].key
      <4>1. lf.pos \in Nat /\ op.val \in Val
        BY <1>1, <1>4 DEF IInv, CallState, TypeOK
      <4> QED  BY <3>3, <3>5, <4>1, ModValBlock
    <3>7. m.lnk = x.lnk
      BY <3>3, <3>5 DEF ModVal, Block
    <3>8. \A i \in 0 .. m.nkeys - 1 : KeyAt(m, i) = KeyAt(x, i)
      BY <3>6 DEF KeyAt
    <3>9. Sorted(m) /\ Within(m, w.lo[b], w.hi[b])
      BY <3>4, <3>6, <3>8 DEF Sorted, Within
    <3>10. blocks' = Write(blocks, lf.blk, m)
      BY <2>1, <2>2, <3>2, <3>3, <3>5 DEF Sound, Write
    <3>11. /\ Tree(blocks', w) /\ Used(blocks') = Used(blocks)
           /\ FileOK(blocks', super) /\ PathOK(blocks', w, stk, lf)
           /\ \A a \in Used(blocks) : a # b => blocks'[a] = blocks[a]
           /\ blocks'[b] = m
      <4>1. Fits(blocks, w, lf.blk, m)
        BY <3>2, <3>4, <3>6, <3>7, <3>8, <3>9 DEF Fits
      <4> QED  BY <2>2, <2>4, <3>1, <3>2, <3>10, <4>1, OneBlock
    <3>12. InteriorOK(blocks', w, lf', "idle")
      BY <1>1, <3>1, <3>2, <3>6, <3>11 DEF InteriorOK
    <3> QED  BY <1>1, <2>1, <3>1, <3>11, <3>12, ReturnTree DEF Return
  <2> QED  BY <2>3, <2>4
<1> QED  BY <1>3, <1>4

----------------------------------------------------------------------------
(* Deletion: the steps before the join.                                    *)

(* A key was taken out of the leaf of the last find.                       *)
LEMMA AfterRemovalTree ==
  ASSUME KeysBounded, IInv, NEW q, AfterRemoval(q), pc # "idle", ~spoiled,
         Sound(blocks'), FileOK(blocks', super),
         NEW w, Tree(blocks', w), PathOK(blocks', w, stk, lf),
         w.h[lf.blk] = 0, lf.key \in Key,
         \A b \in Used(blocks') : w.h[b] # 0 => blocks'[b].nkeys # 0
  PROVE  TInv'
<1>1. /\ super' = super /\ spoiled' = spoiled
  BY DEF AfterRemoval
<1>2. \A f, p : InteriorOK(blocks', w, f, p)
  BY DEF InteriorOK
<1>3. CASE Node.type = "root"
  <2>1. Reestablish
    BY <1>3 DEF AfterRemoval
  <2> QED  BY <1>1, <1>2, <2>1, AgainTree
<1>4. CASE Node.type # "root"
  <2>1. /\ pc' = "join" /\ lf' = At(lf.blk, q)
        /\ UNCHANGED <<stk, op, cblk, tgt, err, out>>
    BY <1>4 DEF AfterRemoval
  <2>2. lf'.blk = lf.blk /\ lf'.key = lf.key
    BY <2>1 DEF At, IInv, TypeOK
  <2>3. PathOK(blocks', w, stk', lf')
    BY <2>1, <2>2 DEF PathOK
  <2>4. TreeInv(w)'
    BY <1>2, <2>1, <2>2, <2>3 DEF TreeInv
  <2> QED  BY <1>1, <2>4 DEF TInv
<1> QED  BY <1>3, <1>4

(* The position of the current key in the block of the last find.          *)
LEMMA CurrentKey ==
  ASSUME IInv, pc = "delete", ~spoiled, lf.exct
  PROVE  /\ lf.blk # ZNULL /\ lf.pos \in 0 .. Node.nkeys - 1
         /\ KeyAt(Node, lf.pos) = lf.key /\ lf.key \in Key
         /\ Node = blocks[lf.blk] /\ Node \in Block
<1>1. /\ lf.pos \in 0 .. Node.nkeys - 1 /\ Node.ent[lf.pos].key = lf.key
  BY DEF IInv, CursorExact
<1>2. lf.blk # ZNULL
  BY <1>1, NodeFacts
<1>3. Node = blocks[lf.blk] /\ Node \in Block
  BY <1>2, NodeFacts
<1>4. KeyAt(Node, lf.pos) = lf.key
  BY <1>1 DEF KeyAt
<1> QED  BY <1>1, <1>2, <1>3, <1>4, BlockKeys

(* DeleteKey keeps the shape.                                              *)
LEMMA TDeleteKey ==
  ASSUME KeysBounded, IInv, TInv, DeleteKey, ~spoiled
  PROVE  TInv'
<1>1. pc = "delete"
  BY DEF DeleteKey
<1>2. /\ Sound(blocks) /\ SuperOK(super) /\ FileOK(blocks, super)
      /\ stk \in Seq(Frame)
  BY StateWitness
<1>3. PICK w : /\ TreeInv(w) /\ Tree(blocks, w) /\ PathOK(blocks, w, stk, lf)
               /\ w.h[ROOT] \in Nat /\ InteriorOK(blocks, w, lf, pc)
  BY StateWitness
<1>4. \A a \in Used(blocks) : w.h[a] # 0 => blocks[a].nkeys # 0
  BY <1>1, <1>3 DEF InteriorOK
<1>5. ASSUME NEW e, Return(e), UNCHANGED <<tree, lf, stk, out, spoiled>>
      PROVE TInv'
  <2>1. UNCHANGED <<tree, lf, stk>>
    BY <1>5
  <2> QED  BY <1>1, <1>5, <2>1, ReturnSameTree
<1>6. CASE ~lf.exct
  BY <1>5, <1>6 DEF DeleteKey
<1>7. CASE lf.exct /\ op.key \in LongKey
  BY <1>5, <1>7 DEF DeleteKey
<1>8. CASE lf.exct /\ op.key \notin LongKey
  <2>1. PICK b, x, s : b = lf.blk /\ x = Node /\ s = lf.pos
    OBVIOUS
  <2>2. /\ b # ZNULL /\ s \in 0 .. x.nkeys - 1 /\ x = blocks[b] /\ x \in Block
        /\ KeyAt(x, s) = lf.key /\ lf.key \in Key
    BY <1>1, <1>8, <2>1, CurrentKey
  <2>3. b \in Used(blocks) /\ b \in Link
    BY <1>2, <1>3, <2>1, <2>2, UsedBlock DEF PathOK
  <2>4. /\ w.h[b] \in Nat /\ w.lo[b] \in Int /\ w.hi[b] \in Int
        /\ NodeOK(blocks, w, b)
    BY <1>2, <1>3, <2>3, UsedWitness
  <2>5. x.nkeys \in Nat
    BY <2>2, BlockKeys
  <2>6. CASE x.lnk[s] # ZNULL
    <3>1. /\ tgt' = [blk |-> lf.blk, pos |-> lf.pos] /\ pc' = "descend"
          /\ UNCHANGED <<tree, lf, stk, op, cblk, err, out, spoiled>>
      BY <1>8, <2>1, <2>6 DEF DeleteKey
    <3>2. /\ blocks' = blocks /\ super' = super /\ lf' = lf /\ stk' = stk
          /\ spoiled' = spoiled /\ tgt'.blk = lf.blk /\ tgt'.pos = lf.pos
      BY <3>1 DEF tree
    <3>3. w.h[b] # 0
      <4>1. w.h[b] = 0 => x.lnk = NoLinks
        BY <2>2, <2>4 DEF NodeOK
      <4>2. s \in 0 .. MXKEY
        BY <2>2, BlockKeys, BlockConstants
      <4> QED  BY <2>6, <4>1, <4>2 DEF NoLinks
    <3>4. DescendOK(blocks, w, lf, tgt')
      BY <2>1, <2>2, <2>3, <2>5, <3>2, <3>3 DEF DescendOK
    <3>5. InteriorOK(blocks, w, lf, "descend")
      BY <1>4 DEF InteriorOK
    <3>6. TreeInv(w)'
      BY <1>3, <3>1, <3>2, <3>4, <3>5 DEF TreeInv
    <3> QED  BY <1>2, <3>2, <3>6 DEF TInv
  <2>7. CASE x.lnk[s] = ZNULL
    <3>1. /\ blocks' = [blocks EXCEPT ![lf.blk] = RemKey(@, lf.pos)]
          /\ AfterRemoval(lf.pos)
      BY <1>8, <2>1, <2>7 DEF DeleteKey
    <3>2. w.h[b] = 0
      <4> SUFFICES ASSUME w.h[b] # 0 PROVE FALSE
        OBVIOUS
      <4>1. s \in 0 .. x.nkeys
        BY <2>2, <2>5
      <4>2. Kid(blocks, w, x.lnk[s], w.h[b] - 1, From(x, w.lo[b], s),
                To(x, w.hi[b], s))
        BY <2>2, <2>4, <4>1 DEF NodeOK
      <4> QED  BY <1>2, <2>7, <4>2, UsedBlock DEF Kid
    <3>3. Sorted(x) /\ Within(x, w.lo[b], w.hi[b]) /\ x.lnk = NoLinks
      BY <2>2, <2>4, <3>2 DEF NodeOK
    <3>4. PICK m : m = RemKey(x, s)
      OBVIOUS
    <3>5. /\ m \in Block /\ m.type = x.type /\ m.lnk = NoLinks
      BY <2>2, <3>3, <3>4, RemoveView
    <3>6. Sorted(m) /\ Within(m, w.lo[b], w.hi[b])
      BY <2>2, <2>4, <3>3, <3>4, RemovedOrder
    <3>7. blocks' = Write(blocks, lf.blk, m)
      BY <1>2, <2>1, <2>2, <2>3, <3>1, <3>4 DEF Sound, Write
    <3>8. Fits(blocks, w, lf.blk, m)
      BY <2>1, <2>2, <3>2, <3>5, <3>6 DEF Fits
    <3>9. /\ Tree(blocks', w) /\ Used(blocks') = Used(blocks)
          /\ FileOK(blocks', super) /\ PathOK(blocks', w, stk, lf)
          /\ \A a \in Used(blocks) : a # b => blocks'[a] = blocks[a]
      <4>1. lf.blk # ZNULL /\ lf.blk = b
        BY <2>1, <2>2
      <4>2. PICK B2, f, S : B2 = blocks' /\ f = lf /\ S = stk
        OBVIOUS
      <4>3. /\ f.blk # ZNULL /\ f.blk = b /\ S \in Seq(Frame)
            /\ PathOK(blocks, w, S, f) /\ Fits(blocks, w, f.blk, m)
            /\ B2 = Write(blocks, f.blk, m)
        BY <1>2, <1>3, <3>7, <3>8, <4>1, <4>2
      <4>4. /\ Tree(B2, w) /\ Used(B2) = Used(blocks) /\ FileOK(B2, super)
            /\ PathOK(B2, w, S, f)
            /\ \A a \in Used(blocks) : a # f.blk => B2[a] = blocks[a]
        BY <1>2, <1>3, <4>3, OneBlock, SMTT(30)
      <4> QED  BY <4>2, <4>3, <4>4
    <3>10. \A a \in Used(blocks') : w.h[a] # 0 => blocks'[a].nkeys # 0
      BY <1>4, <3>2, <3>9
    <3>11. Sound(blocks')
      BY DeleteKeyInv, SoundNext
    <3> QED
      BY <1>1, <2>1, <2>2, <3>1, <3>2, <3>9, <3>10, <3>11, AfterRemovalTree
  <2> QED  BY <2>6, <2>7
<1> QED  BY <1>6, <1>7, <1>8

(* bleaf goes to the right end of the child at its position.               *)
LEMMA TDescend ==
  ASSUME IInv, TInv, Descend, ~spoiled
  PROVE  TInv'
<1>1. PICK c : c = Node.lnk[lf.pos]
  OBVIOUS
<1>2. /\ pc = "descend" /\ Node.nkeys # 0 /\ c # ZNULL
      /\ stk' = Push(lf.blk, lf.pos) /\ lf' = At(c, Blk(c).nkeys)
      /\ blocks' = blocks /\ super' = super /\ spoiled' = spoiled
      /\ pc' = pc /\ tgt' = tgt
  BY <1>1 DEF Descend, AtLeaf, tree
<1>3. /\ Sound(blocks) /\ SuperOK(super) /\ FileOK(blocks, super)
      /\ stk \in Seq(Frame)
  BY StateWitness
<1>4. PICK w : /\ TreeInv(w) /\ Tree(blocks, w) /\ PathOK(blocks, w, stk, lf)
               /\ w.h[ROOT] \in Nat /\ InteriorOK(blocks, w, lf, pc)
  BY StateWitness
<1>5. PICK b, x, s : b = lf.blk /\ x = Node /\ s = lf.pos
  OBVIOUS
<1>6. b # ZNULL /\ x = blocks[b] /\ x \in Block
  <2>1. lf.blk # ZNULL
    BY <1>2 DEF IInv, RoutineState
  <2> QED  BY <1>5, <2>1, NodeFacts
<1>7. DescendOK(blocks, w, lf, tgt)
  BY <1>2, <1>4 DEF TreeInv
<1>8. /\ b \in Used(blocks) /\ s \in 0 .. x.nkeys /\ x.nkeys \in Nat
  BY <1>4, <1>5, <1>6, <1>7, BlockKeys DEF PathOK, DescendOK
<1>9. /\ w.h[b] \in Nat /\ w.lo[b] \in Int /\ w.hi[b] \in Int
      /\ NodeOK(blocks, w, b)
  BY <1>3, <1>4, <1>8, UsedWitness
<1>10. w.h[b] # 0
  <2>1. w.h[b] = 0 => x.lnk = NoLinks
    BY <1>6, <1>9 DEF NodeOK
  <2>2. s \in 0 .. MXKEY
    BY <1>6, <1>8, BlockKeys, BlockConstants
  <2> QED  BY <1>1, <1>2, <1>5, <2>1, <2>2 DEF NoLinks
<1>11. Kid(blocks, w, c, w.h[b] - 1, From(x, w.lo[b], s), To(x, w.hi[b], s))
  BY <1>1, <1>5, <1>6, <1>8, <1>9, <1>10 DEF NodeOK
<1>12. /\ c \in Used(blocks) /\ Blk(c) = blocks[c] /\ blocks[c].nkeys \in Nat
       /\ w.h[c] = w.h[b] - 1 /\ w.hi[c] = To(x, w.hi[b], s)
  BY <1>2, <1>3, <1>11, UsedBlock DEF Kid, Blk, Read
<1>13. lf'.blk = c /\ lf'.pos = blocks[c].nkeys /\ lf'.key = lf.key
  BY <1>2, <1>12 DEF At, IInv, TypeOK
<1>14. PathOK(blocks, w, stk', lf')
  <2>1. GoesTo(blocks, w, stk, lf, c)
    BY <1>1, <1>5, <1>6, <1>8, <1>10, EmptyStack DEF GoesTo
  <2>2. Grown(stk, lf, stk')
    <3>1. [blk |-> lf.blk, pos |-> lf.pos] \in Frame
      <4>1. x.nkeys \in 0 .. MXKEY /\ b \in TreeBlk
        BY <1>3, <1>6, <1>8, BlockKeys, UsedBlock
      <4>2. s \in 0 .. MXKEY
        BY <1>8, <4>1, BlockConstants
      <4> QED  BY <1>5, <4>1, <4>2 DEF Frame
    <3> QED  BY <1>2, <3>1 DEF Grown, Push
  <2>3. PICK f, S : f = lf' /\ S = stk'
    OBVIOUS
  <2>4. f.blk = c /\ Grown(stk, lf, S)
    BY <1>13, <2>2, <2>3
  <2>5. PathOK(blocks, w, S, f)
    BY <1>3, <1>4, <2>1, <2>4, PathPush
  <2> QED  BY <2>3, <2>5
<1>15. DescendOK(blocks, w, lf', tgt)
  <2>1. To(x, w.hi[b], s) = KeyAt(blocks[tgt.blk], tgt.pos)
    <3>1. CASE tgt.blk = lf.blk /\ tgt.pos = lf.pos
      <4>1. s \in 0 .. x.nkeys - 1
        BY <1>5, <1>6, <1>7, <3>1 DEF DescendOK
      <4> QED  BY <1>5, <1>6, <1>8, <3>1, <4>1 DEF To
    <3>2. CASE ~(tgt.blk = lf.blk /\ tgt.pos = lf.pos)
      <4>1. /\ s = x.nkeys /\ w.hi[b] = KeyAt(blocks[tgt.blk], tgt.pos)
        BY <1>5, <1>6, <1>7, <3>2 DEF DescendOK
      <4> QED  BY <4>1 DEF To
    <3> QED  BY <3>1, <3>2
  <2>2. w.h[c] < w.h[tgt.blk]
    <3>1. /\ tgt.blk \in Used(blocks)
          /\ tgt.blk = b \/ w.h[b] < w.h[tgt.blk]
      BY <1>5, <1>7 DEF DescendOK
    <3>2. w.h[tgt.blk] \in Nat
      BY <1>3, <1>4, <3>1, UsedWitness
    <3> QED  BY <1>9, <1>12, <3>1, <3>2
  <2> QED  BY <1>7, <1>12, <1>13, <2>1, <2>2 DEF DescendOK
<1>16. InteriorOK(blocks, w, lf', pc)
  BY <1>2, <1>4 DEF InteriorOK
<1>17. TreeInv(w)'
  BY <1>2, <1>4, <1>14, <1>15, <1>16 DEF TreeInv
<1> QED  BY <1>2, <1>3, <1>17 DEF TInv

----------------------------------------------------------------------------
(* A new separator leaves the number of keys and the links.                *)
LEMMA SeparateShape ==
  ASSUME NEW B, NEW p, B[p] \in Block, NEW s \in 0 .. B[p].nkeys - 1, NEW e,
         NEW m, m = Separate(B, p, s, e)
  PROVE  /\ m.nkeys = B[p].nkeys /\ m.lnk = B[p].lnk /\ m.type = B[p].type
<1>1. PICK x : x = B[p]
  OBVIOUS
<1>2. x \in Block /\ s \in Int /\ m = RepKey(x, s, e, x.lnk[s], x.lnk[s + 1])
  BY <1>1 DEF Separate
<1>3. m.nkeys = x.nkeys /\ m.type = x.type
  BY <1>2 DEF RepKey, Block
<1>4. m.lnk = [[x.lnk EXCEPT ![s] = x.lnk[s]] EXCEPT ![s + 1] = x.lnk[s + 1]]
  BY <1>2 DEF RepKey, Block
<1>5. x.lnk \in [0 .. MXKEY -> ChildOrNull]
  BY <1>2 DEF Block
<1>6. PICK L : L = x.lnk
  OBVIOUS
<1>7. [L EXCEPT ![s] = L[s]] = L
  BY <1>5, <1>6
<1>8. [L EXCEPT ![s + 1] = L[s + 1]] = L
  BY <1>5, <1>6
<1> QED  BY <1>1, <1>3, <1>4, <1>6, <1>7, <1>8

(* What ReplaceKey finds at the end of the descent: a leaf whose last key  *)
(* is the predecessor of the key to be replaced.                           *)
LEMMA AtPredecessor ==
  ASSUME IInv, NEW w, Tree(blocks, w), PathOK(blocks, w, stk, lf),
         DescendOK(blocks, w, lf, tgt), AtLeaf, lf.blk # ZNULL,
         lf.pos - 1 \in 0 .. Node.nkeys - 1
  PROVE  /\ lf.blk \in Used(blocks) /\ w.h[lf.blk] = 0
         /\ Node = blocks[lf.blk] /\ Node \in Block
         /\ tgt.blk \in Used(blocks) /\ tgt.blk # lf.blk
         /\ w.h[tgt.blk] # 0 /\ tgt.pos \in 0 .. blocks[tgt.blk].nkeys - 1
         /\ w.hi[lf.blk] = KeyAt(blocks[tgt.blk], tgt.pos)
         /\ lf.pos = Node.nkeys /\ lf.key = KeyAt(blocks[tgt.blk], tgt.pos)
<1>1. Sound(blocks)
  BY SameTree
<1>2. PICK b, x, s : b = lf.blk /\ x = Node /\ s = lf.pos
  OBVIOUS
<1>3. /\ x = blocks[b] /\ x \in Block /\ b \in Used(blocks)
      /\ s \in 0 .. x.nkeys /\ x.nkeys \in Nat /\ x.nkeys # 0
  BY <1>2, NodeFacts, BlockKeys DEF PathOK, DescendOK
<1>4. w.h[b] \in Nat /\ NodeOK(blocks, w, b)
  BY <1>1, <1>3, UsedWitness
<1>5. w.h[b] = 0
  <2> SUFFICES ASSUME w.h[b] # 0 PROVE FALSE
    OBVIOUS
  <2>1. Kid(blocks, w, x.lnk[s], w.h[b] - 1, From(x, w.lo[b], s),
            To(x, w.hi[b], s))
    BY <1>3, <1>4 DEF NodeOK
  <2>2. x.lnk[s] = ZNULL
    BY <1>2, <1>3 DEF AtLeaf
  <2> QED  BY <1>1, <2>1, <2>2, UsedBlock DEF Kid
<1>6. /\ tgt.blk \in Used(blocks) /\ tgt.blk # b
      /\ w.h[tgt.blk] # 0 /\ tgt.pos \in 0 .. blocks[tgt.blk].nkeys - 1
      /\ w.hi[b] = KeyAt(blocks[tgt.blk], tgt.pos)
      /\ s = x.nkeys /\ lf.key = KeyAt(blocks[tgt.blk], tgt.pos)
  BY <1>2, <1>3, <1>5 DEF DescendOK
<1> QED  BY <1>2, <1>3, <1>5, <1>6

(* ReplaceKey keeps the shape.                                             *)
LEMMA TReplaceKey ==
  ASSUME KeysBounded, IInv, TInv, ReplaceKey, ~spoiled
  PROVE  TInv'
<1>1. PICK z \in Int : z = lf.pos - 1
  BY DEF IInv, TypeOK
<1>2. pc = "descend" /\ AtLeaf /\ lf.blk # ZNULL
  BY DEF ReplaceKey, IInv, RoutineState
<1>3. CASE z \notin 0 .. Node.nkeys - 1
  <2>1. GiveUp("QDELRP")
    BY <1>1, <1>3 DEF ReplaceKey
  <2> QED  BY <2>1, GiveUpTree
<1>4. CASE z \in 0 .. Node.nkeys - 1
  <2>1. /\ Sound(blocks) /\ SuperOK(super) /\ FileOK(blocks, super)
        /\ stk \in Seq(Frame)
    BY StateWitness
  <2>2. PICK w : /\ TreeInv(w) /\ Tree(blocks, w) /\ PathOK(blocks, w, stk, lf)
                 /\ w.h[ROOT] \in Nat /\ InteriorOK(blocks, w, lf, pc)
    BY StateWitness
  <2>3. DescendOK(blocks, w, lf, tgt)
    BY <1>2, <2>2 DEF TreeInv
  <2>4. PICK b, x, p, s : b = lf.blk /\ x = Node /\ p = tgt.blk /\ s = tgt.pos
    OBVIOUS
  <2>5. /\ b \in Used(blocks) /\ w.h[b] = 0 /\ x = blocks[b] /\ x \in Block
        /\ p \in Used(blocks) /\ p # b /\ w.h[p] # 0
        /\ s \in 0 .. blocks[p].nkeys - 1 /\ w.hi[b] = KeyAt(blocks[p], s)
        /\ z = x.nkeys - 1 /\ lf.key = KeyAt(blocks[p], s)
    BY <1>1, <1>2, <1>4, <2>2, <2>3, <2>4, AtPredecessor
  <2>6. PICK e, m : e = x.ent[z] /\ m = RemKey(x, z)
    OBVIOUS
  <2>7. /\ b \in Link /\ p \in Link /\ blocks[p] \in Block
        /\ blocks \in [Link -> Block]
        /\ KeyAt(blocks[p], s) \in Key /\ KeyAt(blocks[p], s) \in Int
    BY <2>1, <2>5, UsedBlock DEF Sound
  <2>8. /\ blocks' = [blocks EXCEPT
             ![p] = RepKey(@, s, e, blocks[p].lnk[s], blocks[p].lnk[s + 1]),
             ![b] = m]
        /\ AfterRemoval(z)
    <3>1. Blk(tgt.blk) = blocks[p]
      BY <2>1, <2>4, <2>5, UsedBlock DEF Blk, Read
    <3> QED  BY <1>1, <1>4, <2>4, <2>6, <3>1 DEF ReplaceKey
  <2>9. /\ w.lo[b] \in Int /\ w.hi[b] \in Int /\ NodeOK(blocks, w, b)
    BY <2>1, <2>2, <2>5, UsedWitness
  <2>10. Sorted(x) /\ Within(x, w.lo[b], w.hi[b]) /\ x.lnk = NoLinks
    BY <2>5, <2>9 DEF NodeOK
  <2>11. /\ z \in 0 .. x.nkeys - 1 /\ x.nkeys \in Nat
         /\ \A i \in 0 .. x.nkeys - 1 : KeyAt(x, i) \in Int
         /\ e \in Entry /\ KeyAt(x, z) = e.key
    BY <1>4, <2>4, <2>5, <2>6, BlockKeys DEF KeyAt
  <2>12. m \in Block /\ m.type = x.type /\ m.lnk = NoLinks
    BY <2>5, <2>6, <2>10, <2>11, RemoveView
  <2>13. /\ Sorted(m) /\ Within(m, w.lo[b], w.hi[b])
         /\ \A i \in 0 .. m.nkeys - 1 :
              \E j \in 0 .. x.nkeys - 1 : j # z /\ KeyAt(m, i) = KeyAt(x, j)
    BY <2>5, <2>6, <2>9, <2>10, <2>11, RemovedOrder
  <2>14. PICK B1 : B1 = Write(blocks, lf.blk, m)
    OBVIOUS
  <2>15. /\ Tree(B1, w) /\ Used(B1) = Used(blocks) /\ FileOK(B1, super)
         /\ PathOK(B1, w, stk, lf) /\ B1[b] = m
         /\ \A a \in Used(blocks) : a # b => B1[a] = blocks[a]
    <3>1. Fits(blocks, w, lf.blk, m)
      BY <2>4, <2>5, <2>12, <2>13 DEF Fits
    <3>2. PICK f, S : f = lf /\ S = stk
      OBVIOUS
    <3>3. /\ f.blk # ZNULL /\ f.blk = b /\ S \in Seq(Frame)
          /\ PathOK(blocks, w, S, f) /\ Fits(blocks, w, f.blk, m)
          /\ B1 = Write(blocks, f.blk, m)
      BY <1>2, <2>1, <2>2, <2>4, <2>14, <3>1, <3>2
    <3>4. /\ Tree(B1, w) /\ Used(B1) = Used(blocks) /\ FileOK(B1, super)
          /\ PathOK(B1, w, S, f) /\ B1[f.blk] = m
          /\ \A a \in Used(blocks) : a # f.blk => B1[a] = blocks[a]
      BY <2>1, <2>2, <3>3, OneBlock, SMTT(30)
    <3> QED  BY <3>2, <3>3, <3>4
  <2>16. Sound(B1) /\ B1 \in [Link -> Block]
    <3>1. b = ROOT => m.type = "root"
      BY <2>1, <2>5, <2>12, UsedBlock
    <3>2. B1 = [blocks EXCEPT ![b] = m]
      BY <2>4, <2>14 DEF Write
    <3>3. B1 \in [Link -> Block]
      BY <2>7, <2>12, <3>2
    <3>4. B1[ROOT].type = "root"
      BY <2>1, <2>7, <3>1, <3>2, BlockNumbers DEF Sound
    <3> QED  BY <3>3, <3>4 DEF Sound
  <2>17. B1[p] = blocks[p]
    BY <2>5, <2>15
  <2>18. Predecessor(B1, w, p, s, e, b)
    <3>1. w.lo[b] < e.key /\ e.key < w.hi[b]
      BY <2>10, <2>11 DEF Within
    <3>2. ASSUME NEW i \in 0 .. m.nkeys - 1 PROVE KeyAt(m, i) < e.key
      <4>1. PICK j \in 0 .. x.nkeys - 1 : j # z /\ KeyAt(m, i) = KeyAt(x, j)
        BY <2>13
      <4>2. j < z
        BY <2>5, <2>11, <4>1
      <4> QED  BY <2>10, <2>11, <4>1, <4>2 DEF Sorted
    <3> QED  BY <2>5, <2>11, <2>15, <2>17, <3>1, <3>2 DEF Predecessor
  <2>19. blocks' = Write(B1, p, Separate(B1, p, s, e))
    <3>1. PICK r : r = RepKey(blocks[p], s, e, blocks[p].lnk[s],
                              blocks[p].lnk[s + 1])
      OBVIOUS
    <3>2. blocks' = [[blocks EXCEPT ![p] = r] EXCEPT ![b] = m]
      BY <2>7, <2>8, <3>1
    <3>3. [[blocks EXCEPT ![p] = r] EXCEPT ![b] = m]
            = [[blocks EXCEPT ![b] = m] EXCEPT ![p] = r]
      BY <2>5, <2>7
    <3>4. Separate(B1, p, s, e) = r
      BY <2>17, <3>1 DEF Separate
    <3> QED  BY <2>4, <2>14, <3>2, <3>3, <3>4 DEF Write
  <2>20. PICK w2 : w2 = MoveWitness(w, KeyAt(B1[p], s), e.key)
    OBVIOUS
  <2>21. Tree(blocks', w2) /\ Used(blocks') = Used(blocks)
    <3>1. PICK B2 : B2 = blocks'
      OBVIOUS
    <3>2. B2 = Write(B1, p, Separate(B1, p, s, e))
      BY <2>19, <3>1
    <3>3. /\ Tree(B2, MoveWitness(w, KeyAt(B1[p], s), e.key))
          /\ Used(B2) = Used(B1)
      BY <2>15, <2>16, <2>18, <3>2, ReplaceTree
    <3> QED  BY <2>15, <2>20, <3>1, <3>3
  <2>22. w2.h = w.h
    BY <2>20 DEF MoveWitness
  <2>23. /\ blocks'[p].nkeys = B1[p].nkeys /\ blocks'[p].lnk = B1[p].lnk
         /\ \A a \in Link : a # p => blocks'[a] = B1[a]
    <3>1. PICK r : r = Separate(B1, p, s, e)
      OBVIOUS
    <3>2. blocks' = [B1 EXCEPT ![p] = r]
      BY <2>19, <3>1 DEF Write
    <3>3. r.nkeys = B1[p].nkeys /\ r.lnk = B1[p].lnk
      BY <2>5, <2>7, <2>17, <3>1, SeparateShape
    <3> QED  BY <2>7, <2>16, <3>2, <3>3
  <2>24. FileOK(blocks', super)
    <3>1. B1[p].type # "free"
      BY <2>1, <2>5, <2>17, UsedBlock
    <3>2. \A a \in Link : B1[a].type = "free" => blocks'[a] = B1[a]
      BY <2>23, <3>1
    <3>3. Used(blocks') \subseteq Used(B1)
      BY <2>15, <2>21
    <3> QED  BY <2>15, <2>16, <3>2, <3>3, SameFile
  <2>25. \A a \in Used(blocks) : /\ blocks'[a].nkeys = B1[a].nkeys
                                 /\ blocks'[a].lnk = B1[a].lnk
    BY <2>1, <2>23, UsedBlock
  <2>26. PathOK(blocks', w2, stk, lf)
    <3>1. \A i \in 2 .. Len(stk) : stk[i].blk \in Used(blocks)
      BY <2>2 DEF PathOK
    <3>2. lf.blk \in Used(blocks)
      BY <2>4, <2>5
    <3> QED
      BY <2>1, <2>15, <2>21, <2>22, <2>25, <3>1, <3>2, PathKept, ZenonT(40)
  <2>27. ASSUME NEW a \in Used(blocks'), w2.h[a] # 0
         PROVE  blocks'[a].nkeys # 0
    <3>1. a \in Used(blocks) /\ a # b
      BY <2>5, <2>21, <2>22, <2>27
    <3>2. blocks[a].nkeys # 0
      BY <1>2, <2>2, <2>22, <2>27, <3>1 DEF InteriorOK
    <3> QED  BY <2>15, <2>25, <3>1, <3>2
  <2>28. Sound(blocks')
    BY ReplaceKeyInv, SoundNext
  <2>29. lf.key \in Key /\ w2.h[lf.blk] = 0 /\ pc # "idle"
    BY <1>2, <2>4, <2>5, <2>7, <2>22
  <2> QED
    BY <2>8, <2>21, <2>24, <2>26, <2>27, <2>28, <2>29, AfterRemovalTree
<1> QED  BY <1>3, <1>4

----------------------------------------------------------------------------
(* Two sisters merged under their parent, by bjoin or by bdemte.           *)

(* Two children side by side.                                              *)
LEMMA Sisters ==
  ASSUME NEW B, Sound(B), NEW w, Tree(B, w), NEW p \in Used(B), w.h[p] # 0,
         NEW s \in 0 .. B[p].nkeys - 1,
         NEW l, l = B[p].lnk[s], NEW r, r = B[p].lnk[s + 1]
  PROVE  /\ l \in Used(B) \ {ROOT} /\ r \in Used(B) \ {ROOT}
         /\ l # r /\ p # l /\ p # r
         /\ w.h[p] \in Nat /\ w.h[l] = w.h[p] - 1 /\ w.h[r] = w.h[p] - 1
         /\ w.hi[l] = KeyAt(B[p], s) /\ w.lo[r] = KeyAt(B[p], s)
         /\ KeyAt(B[p], s) \in Int /\ B[p].ent[s] \in Entry
<1>1. /\ B[p].nkeys \in Nat /\ KeyAt(B[p], s) \in Int /\ B[p].ent[s] \in Entry
  BY UsedBlock
<1>2. s \in 0 .. B[p].nkeys /\ s + 1 \in 0 .. B[p].nkeys /\ s # B[p].nkeys
      /\ s + 1 # 0 /\ s + 1 - 1 = s /\ s # s + 1
  BY <1>1
<1>3. w.h[p] \in Nat /\ NodeOK(B, w, p)
  BY UsedWitness
<1>4. /\ Kid(B, w, l, w.h[p] - 1, From(B[p], w.lo[p], s), To(B[p], w.hi[p], s))
      /\ Kid(B, w, r, w.h[p] - 1, From(B[p], w.lo[p], s + 1),
             To(B[p], w.hi[p], s + 1))
  BY <1>2, <1>3 DEF NodeOK
<1>5. To(B[p], w.hi[p], s) = KeyAt(B[p], s)
      /\ From(B[p], w.lo[p], s + 1) = KeyAt(B[p], s)
  BY <1>2 DEF To, From
<1>6. l # r
  BY <1>2, OneParent
<1>7. w.h[l] = w.h[p] - 1 /\ w.h[r] = w.h[p] - 1
  BY <1>4 DEF Kid
<1> QED  BY <1>1, <1>3, <1>4, <1>5, <1>6, <1>7 DEF Kid

(* The store with the separator taken out and the merged block written.    *)
Merged(B, B1, p, s, l, r, n) ==
  /\ B1 \in [Link -> Block] /\ B1[p] = RemKey(B[p], s) /\ B1[l] = n
  /\ \A a \in Link \ {p, l, r} : B1[a] = B[a]

(* Children l and r of block p side by side, the key at s between them.    *)
Beside(B, w, p, s, l, r) ==
  /\ p \in Used(B) /\ w.h[p] # 0 /\ s \in 0 .. B[p].nkeys - 1
  /\ l = B[p].lnk[s] /\ r = B[p].lnk[s + 1]

(* What the merged block is.                                               *)
MergedBlock(B, w, p, s, l, r, n) ==
  /\ n \in Block /\ n.type = "inuse" /\ Joined(n, B[l], B[p].ent[s], B[r])
  /\ w.h[l] = 0 => n.lnk = NoLinks
  /\ w.h[l] # 0 => Linked(n, B[l], B[r])

(* What a merge makes of the tree and of the free list.                    *)
LEMMA MergedTree ==
  ASSUME NEW B, Sound(B), NEW t, SuperOK(t), FileOK(B, t), NEW w, Tree(B, w),
         NEW p, NEW s, NEW l, NEW r, Beside(B, w, p, s, l, r),
         NEW n, MergedBlock(B, w, p, s, l, r, n),
         NEW B1, Merged(B, B1, p, s, l, r, n),
         NEW B2, B2 = FreeBlock(t, B1, r)
  PROVE  /\ Tree(B2, MergeWitness(w, l, r)) /\ Used(B2) = Used(B) \ {r}
         /\ FileOK(B2, FreeSuper(t, r))
         /\ \A a \in Used(B) \ {p, l, r} : B2[a] = B[a]
         /\ B2[p] = RemKey(B[p], s) /\ B2[l] = n /\ n.nkeys # 0
<1>0. /\ p \in Used(B) /\ w.h[p] # 0 /\ s \in 0 .. B[p].nkeys - 1
      /\ l = B[p].lnk[s] /\ r = B[p].lnk[s + 1]
  BY DEF Beside
<1>1. /\ l \in Used(B) \ {ROOT} /\ r \in Used(B) \ {ROOT}
      /\ l # r /\ p # l /\ p # r
  BY <1>0, Sisters
<1>2. l \in Link /\ r \in Link /\ p \in Link /\ r \in Child
  BY <1>0, <1>1, UsedBlock
<1>3. /\ B1 \in [Link -> Block] /\ B1[p] = RemKey(B[p], s) /\ B1[l] = n
      /\ \A a \in Link \ {p, l, r} : B1[a] = B[a]
  BY DEF Merged
<1>4. PICK g : g = FreshBlock("free", t.freep)
  OBVIOUS
<1>5. B2 = [B1 EXCEPT ![r] = g] /\ g.type = "free" /\ g \in Block
  BY <1>4, FreshIsBlock DEF FreeBlock, FreshBlock, SuperOK, BlockType
<1>6. /\ B2 \in [Link -> Block] /\ B2[r] = g
      /\ \A a \in Link \ {r} : B2[a] = B1[a]
  BY <1>2, <1>3, <1>5
<1>7. /\ B2[p] = RemKey(B[p], s) /\ B2[l] = n /\ B2[r].type = "free"
      /\ \A a \in Link \ {p, l, r} : B2[a] = B[a]
  BY <1>1, <1>2, <1>3, <1>5, <1>6
<1>8. /\ n \in Block /\ n.type = "inuse" /\ Joined(n, B[l], B[p].ent[s], B[r])
      /\ w.h[l] = 0 => n.lnk = NoLinks
      /\ w.h[l] # 0 => Linked(n, B[l], B[r])
  BY DEF MergedBlock
<1>9. Tree(B2, MergeWitness(w, l, r)) /\ Used(B2) = Used(B) \ {r}
  BY <1>0, <1>6, <1>7, <1>8, MergeTree, SMTT(30)
<1>10. FileOK(B2, FreeSuper(t, r))
  <2>1. B[p].type # "free" /\ B[l].type # "free" /\ B[r].type # "free"
    BY <1>0, <1>1, UsedBlock
  <2>2. \A a \in Link : B[a].type = "free" => B1[a] = B[a]
    BY <1>3, <2>1
  <2>3. Used(B2) \subseteq Used(B) /\ B \in [Link -> Block]
    BY <1>9 DEF Sound
  <2> QED  BY <1>1, <1>2, <1>3, <2>2, <2>3, FreeFile
<1>11. n.nkeys # 0
  <2>1. n.nkeys = B[l].nkeys + B[r].nkeys + 1
    BY <1>8 DEF Joined
  <2> QED  BY <1>1, <2>1, UsedBlock
<1>12. \A a \in Used(B) \ {p, l, r} : B2[a] = B[a]
  BY <1>7, UsedBlock
<1> QED  BY <1>7, <1>9, <1>10, <1>11, <1>12

(* How a merge leaves the state: at the parent, for bdemte to look at.     *)
MergeStep(p, s, l, r, n) ==
  /\ p = Top.blk /\ lf' = At(p, s) /\ stk' = Rest /\ pc' = "demote"
  /\ cblk' = l /\ super' = FreeSuper(super, r)
  /\ \E B1 : /\ Merged(blocks, B1, p, s, l, r, n)
             /\ blocks' = FreeBlock(super, B1, r)

(* A step that merges and goes to the parent keeps the shape.              *)
LEMMA MergeStepTree ==
  ASSUME IInv, FileOK(blocks, super), NEW w, Tree(blocks, w),
         PathOK(blocks, w, stk, lf), InteriorOK(blocks, w, lf, "demote"),
         NEW p, NEW s, NEW l, NEW r, Beside(blocks, w, p, s, l, r),
         lf.blk \in {l, r}, lf.key \in Key,
         NEW n, MergedBlock(blocks, w, p, s, l, r, n),
         MergeStep(p, s, l, r, n)
  PROVE  TInv'
<1>0. /\ p \in Used(blocks) /\ w.h[p] # 0 /\ s \in 0 .. blocks[p].nkeys - 1
      /\ l = blocks[p].lnk[s] /\ r = blocks[p].lnk[s + 1]
  BY DEF Beside
<1>1. Sound(blocks) /\ SuperOK(super)
  BY SameTree
<1>2. /\ p = Top.blk /\ lf' = At(p, s) /\ stk' = Rest /\ pc' = "demote"
      /\ cblk' = l /\ super' = FreeSuper(super, r)
  BY DEF MergeStep
<1>3. PICK B1 : /\ Merged(blocks, B1, p, s, l, r, n)
                /\ blocks' = FreeBlock(super, B1, r)
  BY DEF MergeStep
<1>4. /\ l \in Used(blocks) \ {ROOT} /\ r \in Used(blocks) \ {ROOT}
      /\ l # r /\ p # l /\ p # r
      /\ w.h[p] \in Nat /\ w.h[l] = w.h[p] - 1 /\ w.h[r] = w.h[p] - 1
  BY <1>0, <1>1, Sisters
<1>5. PICK w2 : w2 = MergeWitness(w, l, r)
  OBVIOUS
<1>6. /\ Tree(blocks', w2) /\ Used(blocks') = Used(blocks) \ {r}
      /\ FileOK(blocks', super')
      /\ \A a \in Used(blocks) \ {p, l, r} : blocks'[a] = blocks[a]
      /\ blocks'[p] = RemKey(blocks[p], s) /\ blocks'[l] = n /\ n.nkeys # 0
  <2>1. PICK B2 : B2 = blocks'
    OBVIOUS
  <2>2. B2 = FreeBlock(super, B1, r)
    BY <1>3, <2>1
  <2>3. /\ Tree(B2, MergeWitness(w, l, r)) /\ Used(B2) = Used(blocks) \ {r}
        /\ FileOK(B2, FreeSuper(super, r))
        /\ \A a \in Used(blocks) \ {p, l, r} : B2[a] = blocks[a]
        /\ B2[p] = RemKey(blocks[p], s) /\ B2[l] = n /\ n.nkeys # 0
    BY <1>1, <1>3, <2>2, MergedTree
  <2> QED  BY <1>2, <1>5, <2>1, <2>3
<1>7. w2.h = w.h
  BY <1>5 DEF MergeWitness
<1>8. lf'.blk = p /\ lf'.pos = s /\ lf'.key = lf.key
  BY <1>2 DEF At, IInv, TypeOK
<1>9. PICK f : f = [blk |-> Top.blk, pos |-> Top.pos]
  OBVIOUS
<1>10. f.blk = p /\ f.blk = Top.blk /\ f.pos = Top.pos /\ lf.blk # ZNULL
  BY <1>1, <1>2, <1>4, <1>9, UsedBlock
<1>11. PICK S : S = stk'
  OBVIOUS
<1>12. /\ PathOK(blocks, w, S, f) /\ S \in Seq(Frame)
       /\ \A a \in Passed(S, f) : a \in Used(blocks) /\ w.h[lf.blk] < w.h[a]
  <2>1. S = Rest
    BY <1>2, <1>11
  <2> QED  BY <1>10, <2>1, PathUp
<1>13. PathOK(blocks', w2, S, f)
  <2>1. ASSUME NEW a \in Passed(S, f)
        PROVE  /\ a \in Used(blocks') /\ w2.h[a] = w.h[a]
               /\ a # f.blk => blocks'[a] = blocks[a]
    <3>1. a \in Used(blocks) /\ w.h[lf.blk] < w.h[a] /\ w.h[a] \in Nat
      BY <1>1, <1>12, <2>1, UsedWitness
    <3>2. a # l /\ a # r
      BY <1>4, <3>1
    <3> QED  BY <1>6, <1>7, <1>10, <3>1, <3>2
  <2> QED  BY <1>1, <1>7, <1>12, <2>1, PathSame
<1>14. PathOK(blocks', w2, stk', lf')
  BY <1>8, <1>10, <1>11, <1>13 DEF PathOK
<1>15. DemoteOK(blocks', w2, lf', cblk')
  <2>1. ASSUME blocks'[p].nkeys = 0 PROVE l = blocks'[p].lnk[0]
    <3>1. PICK x, m : x = blocks[p] /\ m = RemKey(x, s)
      OBVIOUS
    <3>2. x \in Block /\ x.nkeys \in Nat /\ s \in 0 .. x.nkeys - 1
      BY <1>0, <1>1, <3>1, UsedBlock
    <3>3. /\ m.nkeys = x.nkeys - 1
          /\ \A i \in 0 .. x.nkeys - 1 : i <= s => m.lnk[i] = x.lnk[i]
      BY <3>1, <3>2, RemoveView
    <3>4. s = 0 /\ m.lnk[0] = x.lnk[0]
      BY <1>6, <2>1, <3>1, <3>2, <3>3
    <3> QED  BY <1>0, <1>6, <3>1, <3>4
  <2> QED  BY <1>0, <1>2, <1>7, <1>8, <2>1 DEF DemoteOK
<1>16. InteriorOK(blocks', w2, lf', "demote")
  <2>1. ASSUME NEW a \in Used(blocks'), w2.h[a] # 0, blocks'[a].nkeys = 0
        PROVE  a = p
    <3>1. a # l
      BY <1>6, <2>1
    <3> QED  BY <1>6, <1>7, <2>1, <3>1 DEF InteriorOK
  <2> QED  BY <1>8, <2>1 DEF InteriorOK
<1>17. TreeInv(w2)'
  BY <1>2, <1>6, <1>8, <1>14, <1>15, <1>16 DEF TreeInv
<1> QED  BY <1>6, <1>17 DEF TInv

----------------------------------------------------------------------------
(* bjoin: two leaves and the key between them make one leaf.               *)

(* The leaf bjoin makes.                                                   *)
LEMMA JoinedLeaf ==
  ASSUME NEW x \in Block, NEW y \in Block, NEW e \in Entry,
         x.lnk = NoLinks, y.lnk = NoLinks, Sorted(x),
         NEW l \in Int, NEW u \in Int, Within(x, l, u), u = e.key,
         x.nkeys + y.nkeys < MXKEY,
         NEW n, n = AppendKeys(PutKey(x, e, ZNULL, ZNULL), y)
  PROVE  /\ n \in Block /\ n.type = x.type /\ n.lnk = NoLinks
         /\ Joined(n, x, e, y)
<1>1. x.nkeys \in Nat /\ y.nkeys \in Nat /\ MXKEY \in Nat
  BY BlockKeys, BlockConstants
<1>2. ~Full(x)
  BY <1>1 DEF Full
<1>3. Gap(x, u) = x.nkeys
  <2>1. x.nkeys \in 0 .. x.nkeys /\ u <= To(x, u, x.nkeys)
    BY <1>1 DEF To
  <2>2. \/ From(x, l, x.nkeys) < u
        \/ x.nkeys = 0
    BY <1>1 DEF From, Within
  <2> QED  BY <2>1, <2>2, GapOf
<1>4. x.nkeys # 0 => x.nkeys = PutPos(x, e, ZNULL, ZNULL)
  BY <1>3 DEF PutPos
<1>5. PICK m : m = PutKey(x, e, ZNULL, ZNULL)
  OBVIOUS
<1>6. /\ m \in Block /\ m.type = x.type /\ m.nkeys = x.nkeys + 1
      /\ \A i \in 0 .. x.nkeys :
           /\ i < x.nkeys => m.ent[i] = x.ent[i]
           /\ i = x.nkeys => m.ent[i] = e
      /\ m.lnk = PutLnk(x, x.nkeys, ZNULL, ZNULL)
  <2>1. ZNULL \in ChildOrNull /\ x.nkeys \in 0 .. x.nkeys
    BY <1>1, BlockNumbers
  <2> QED  BY <1>2, <1>4, <1>5, <2>1, PutEntries
<1>7. m.lnk = NoLinks
  <2>1. x.nkeys \in 0 .. x.nkeys /\ x.nkeys < MXKEY
    BY <1>1
  <2> QED  BY <1>6, <2>1, PutLinksLeaf
<1>8. n = AppendKeys(m, y) /\ m.nkeys + y.nkeys <= MXKEY
  BY <1>1, <1>5, <1>6
<1>9. /\ n \in Block /\ n.type = m.type /\ n.nkeys = m.nkeys + y.nkeys
      /\ \A i \in 0 .. n.nkeys - 1 :
           /\ i < m.nkeys => n.ent[i] = m.ent[i]
           /\ i >= m.nkeys => n.ent[i] = y.ent[i - m.nkeys]
      /\ n.lnk = NoLinks
  BY <1>6, <1>7, <1>8, AppendView
<1>10. ASSUME NEW i \in 0 .. n.nkeys - 1
       PROVE  /\ i < x.nkeys => n.ent[i] = x.ent[i]
              /\ i = x.nkeys => n.ent[i] = e
              /\ i > x.nkeys => n.ent[i] = y.ent[i - x.nkeys - 1]
  <2>1. CASE i <= x.nkeys
    <3>1. i \in 0 .. x.nkeys /\ i < m.nkeys
      BY <1>1, <1>6, <1>9, <2>1
    <3> QED  BY <1>1, <1>6, <1>9, <2>1, <3>1
  <2>2. CASE i > x.nkeys
    <3>1. i >= m.nkeys /\ i - m.nkeys = i - x.nkeys - 1
      BY <1>1, <1>6, <1>9, <2>2
    <3> QED  BY <1>1, <1>9, <2>2, <3>1
  <2> QED  BY <1>1, <1>9, <2>1, <2>2
<1>11. n.nkeys = x.nkeys + y.nkeys + 1
  BY <1>1, <1>6, <1>9
<1> QED  BY <1>6, <1>9, <1>10, <1>11 DEF Joined

(* The leaf of the last find and its parent, when it has a parent.         *)
LEMMA LeafAndParent ==
  ASSUME IInv, NEW w, Tree(blocks, w), PathOK(blocks, w, stk, lf),
         lf.blk \in Child
  PROVE  /\ Top.blk \in Used(blocks) /\ w.h[Top.blk] # 0
         /\ Top.pos \in 0 .. blocks[Top.blk].nkeys
         /\ blocks[Top.blk].lnk[Top.pos] = lf.blk
         /\ Blk(Top.blk) = blocks[Top.blk]
         /\ blocks[Top.blk].nkeys \in Nat
         /\ w.h[Top.blk] = w.h[lf.blk] + 1
<1>1. PICK f : f = [blk |-> Top.blk, pos |-> Top.pos]
  OBVIOUS
<1>2. f.blk = Top.blk /\ f.pos = Top.pos /\ lf.blk # ZNULL /\ lf.blk # ROOT
  BY <1>1, BlockConstants DEF Child, ZNULL, ROOT
<1>3. PICK S : S = Rest
  OBVIOUS
<1>4. /\ f.blk = ZNULL <=> lf.blk = ROOT
      /\ f.blk # ZNULL =>
           /\ f.blk \in Used(blocks) /\ w.h[f.blk] # 0
           /\ w.h[f.blk] = w.h[lf.blk] + 1
           /\ f.pos \in 0 .. blocks[f.blk].nkeys
           /\ blocks[f.blk].lnk[f.pos] = lf.blk
  BY <1>2, <1>3, PathUp
<1>5. Sound(blocks)
  BY SameTree
<1>6. Blk(Top.blk) = blocks[Top.blk] /\ blocks[Top.blk].nkeys \in Nat
  BY <1>2, <1>4, <1>5, UsedBlock DEF Blk, Read
<1> QED  BY <1>2, <1>4, <1>6

(* bjoin keeps the shape.                                                  *)
LEMMA JoinTree ==
  ASSUME IInv, TInv, ~spoiled, pc = "join", NEW l, NEW r, NEW s, Join(l, r, s),
         lf.blk \in {l, r}, s \in 0 .. Blk(Top.blk).nkeys - 1,
         l = Blk(Top.blk).lnk[s], r = Blk(Top.blk).lnk[s + 1],
         Joinable(Blk(l).nkeys, Blk(r).nkeys)
  PROVE  TInv'
<1>1. /\ Sound(blocks) /\ SuperOK(super) /\ FileOK(blocks, super)
      /\ stk \in Seq(Frame)
  BY StateWitness
<1>2. PICK w : /\ TreeInv(w) /\ Tree(blocks, w) /\ PathOK(blocks, w, stk, lf)
               /\ w.h[ROOT] \in Nat /\ InteriorOK(blocks, w, lf, pc)
  BY StateWitness
<1>3. w.h[lf.blk] = 0 /\ lf.key \in Key /\ lf.blk \in Child
  BY <1>2 DEF TreeInv, IInv, RoutineState
<1>4. PICK p : p = Top.blk
  OBVIOUS
<1>5. /\ p \in Used(blocks) /\ w.h[p] # 0 /\ Blk(p) = blocks[p]
      /\ blocks[p].nkeys \in Nat
  BY <1>2, <1>3, <1>4, LeafAndParent
<1>6. Beside(blocks, w, p, s, l, r)
  BY <1>4, <1>5 DEF Beside
<1>7. /\ l \in Used(blocks) /\ r \in Used(blocks) /\ l # ROOT /\ r # ROOT
      /\ w.h[l] = w.h[p] - 1 /\ w.h[r] = w.h[p] - 1 /\ w.h[p] \in Nat
      /\ w.hi[l] = KeyAt(blocks[p], s)
      /\ blocks[p].ent[s] \in Entry /\ p # l /\ p # r /\ l # r
  <2>1. /\ s \in 0 .. blocks[p].nkeys - 1
        /\ l = blocks[p].lnk[s] /\ r = blocks[p].lnk[s + 1]
    BY <1>4, <1>5
  <2> QED  BY <1>1, <1>2, <1>5, <2>1, Sisters
<1>8. w.h[l] = 0 /\ w.h[r] = 0
  BY <1>3, <1>7
<1>9. PICK x, y, e : x = blocks[l] /\ y = blocks[r] /\ e = blocks[p].ent[s]
  OBVIOUS
<1>10. /\ x \in Block /\ y \in Block /\ x.type = "inuse"
       /\ l \in Link /\ r \in Link /\ p \in Link /\ Blk(l) = x /\ Blk(r) = y
  BY <1>1, <1>5, <1>7, <1>9, UsedBlock DEF Blk, Read
<1>11. /\ x.lnk = NoLinks /\ y.lnk = NoLinks /\ Sorted(x)
       /\ w.lo[l] \in Int /\ w.hi[l] \in Int /\ Within(x, w.lo[l], w.hi[l])
  BY <1>1, <1>2, <1>7, <1>8, <1>9, UsedWitness, SMTT(30) DEF NodeOK
<1>12. w.hi[l] = e.key /\ e \in Entry
  BY <1>7, <1>9 DEF KeyAt
<1>13. x.nkeys + y.nkeys < MXKEY
  <2>1. x.nkeys + y.nkeys < MXKEY - THRES
    BY <1>10 DEF Joinable
  <2> QED  BY <1>10, <2>1, BlockKeys, BlockConstants
<1>14. PICK n : n = AppendKeys(PutKey(x, e, ZNULL, ZNULL), y)
  OBVIOUS
<1>15. n \in Block /\ n.type = x.type /\ n.lnk = NoLinks /\ Joined(n, x, e, y)
  BY <1>10, <1>11, <1>12, <1>13, <1>14, JoinedLeaf
<1>16. MergedBlock(blocks, w, p, s, l, r, n)
  BY <1>8, <1>9, <1>10, <1>15 DEF MergedBlock
<1>17. MergeStep(p, s, l, r, n)
  <2>1. PICK B1 : B1 = [blocks EXCEPT ![p] = RemKey(@, s), ![l] = n]
    OBVIOUS
  <2>2. /\ p = Top.blk /\ lf' = At(p, s) /\ stk' = Rest /\ pc' = "demote"
        /\ cblk' = l /\ super' = FreeSuper(super, r)
        /\ blocks' = FreeBlock(super, B1, r)
    BY <1>4, <1>5, <1>9, <1>10, <1>14, <2>1 DEF Join
  <2>3. Merged(blocks, B1, p, s, l, r, n)
    <3>1. PICK q : q = RemKey(blocks[p], s)
      OBVIOUS
    <3>2. q \in Block
      BY <1>1, <1>4, <1>5, <3>1, RemoveView, UsedBlock
    <3>3. B1 = [[blocks EXCEPT ![p] = q] EXCEPT ![l] = n]
      BY <2>1, <3>1
    <3>4. blocks \in [Link -> Block]
      BY <1>1 DEF Sound
    <3>5. /\ B1 \in [Link -> Block] /\ B1[p] = q /\ B1[l] = n
          /\ \A a \in Link \ {p, l, r} : B1[a] = blocks[a]
      BY <1>7, <1>10, <1>15, <3>2, <3>3, <3>4
    <3> QED  BY <3>1, <3>5 DEF Merged
  <2> QED  BY <2>2, <2>3 DEF MergeStep
<1>18. InteriorOK(blocks, w, lf, "demote")
  BY <1>2 DEF InteriorOK
<1> QED
  BY <1>1, <1>2, <1>3, <1>6, <1>16, <1>17, <1>18, MergeStepTree

(* JoinRight keeps the shape.                                              *)
LEMMA TJoinRight ==
  ASSUME IInv, TInv, JoinRight, ~spoiled
  PROVE  TInv'
<1>1. PICK r, s : r = Blk(Top.blk).lnk[Top.pos + 1] /\ s = Top.pos
  OBVIOUS
<1>2. /\ pc = "join" /\ Join(lf.blk, r, s) /\ s < Blk(Top.blk).nkeys
      /\ Joinable(Blk(lf.blk).nkeys, Blk(r).nkeys)
  BY <1>1 DEF JoinRight, CanJoinRight, Node
<1>3. PICK w : Tree(blocks, w) /\ PathOK(blocks, w, stk, lf)
  BY StateWitness
<1>4. lf.blk \in Child
  BY <1>2 DEF IInv, RoutineState
<1>5. /\ s \in 0 .. Blk(Top.blk).nkeys /\ Blk(Top.blk).nkeys \in Nat
      /\ lf.blk = Blk(Top.blk).lnk[s]
  BY <1>1, <1>3, <1>4, LeafAndParent
<1>6. s \in 0 .. Blk(Top.blk).nkeys - 1
  BY <1>2, <1>5
<1>7. PICK l : l = lf.blk
  OBVIOUS
<1>8. /\ Join(l, r, s) /\ lf.blk \in {l, r} /\ l = Blk(Top.blk).lnk[s]
      /\ r = Blk(Top.blk).lnk[s + 1] /\ Joinable(Blk(l).nkeys, Blk(r).nkeys)
  BY <1>1, <1>2, <1>5, <1>7
<1> QED  BY <1>2, <1>6, <1>8, JoinTree

(* JoinLeft keeps the shape.                                               *)
LEMMA TJoinLeft ==
  ASSUME IInv, TInv, JoinLeft, ~spoiled
  PROVE  TInv'
<1>1. CASE GiveUp("QJNSE")
  BY <1>1, GiveUpTree
<1>2. CASE ~GiveUp("QJNSE")
  <2>1. PICK l, s : l = Blk(Top.blk).lnk[Top.pos - 1] /\ s = Top.pos - 1
    OBVIOUS
  <2>2. /\ pc = "join" /\ Join(l, lf.blk, s) /\ Top.pos > 0
        /\ Joinable(Blk(lf.blk).nkeys, Blk(l).nkeys)
    BY <1>2, <2>1 DEF JoinLeft, CanJoinLeft, Node
  <2>3. PICK w : Tree(blocks, w) /\ PathOK(blocks, w, stk, lf)
    BY StateWitness
  <2>4. lf.blk \in Child
    BY <2>2 DEF IInv, RoutineState
  <2>5. /\ Top.pos \in 0 .. Blk(Top.blk).nkeys /\ Blk(Top.blk).nkeys \in Nat
        /\ lf.blk = Blk(Top.blk).lnk[Top.pos]
    BY <2>3, <2>4, LeafAndParent
  <2>6. s \in 0 .. Blk(Top.blk).nkeys - 1 /\ s + 1 = Top.pos
    BY <2>1, <2>2, <2>5
  <2>7. PICK r : r = lf.blk
    OBVIOUS
  <2>8. Joinable(Blk(l).nkeys, Blk(r).nkeys)
    <3>1. Blk(l).nkeys \in Int /\ Blk(r).nkeys \in Int
      BY <2>1, <2>2, <2>7, SisterFacts DEF Node
    <3> QED  BY <2>2, <2>7, <3>1 DEF Joinable
  <2>9. /\ Join(l, r, s) /\ lf.blk \in {l, r} /\ l = Blk(Top.blk).lnk[s]
        /\ r = Blk(Top.blk).lnk[s + 1]
    BY <2>1, <2>2, <2>5, <2>6, <2>7
  <2> QED  BY <2>2, <2>6, <2>8, <2>9, JoinTree
<1> QED  BY <1>1, <1>2

(* No join: the parent's position goes to the last find.                   *)
LEMMA TNoJoin ==
  ASSUME IInv, TInv, NoJoin, ~spoiled
  PROVE  TInv'
<1>1. /\ pc = "join" /\ pc' = "balance" /\ lf' = At(lf.blk, Top.pos)
      /\ blocks' = blocks /\ super' = super /\ stk' = stk
  BY DEF NoJoin, tree
<1>2. lf'.blk = lf.blk /\ lf'.key = lf.key
  BY <1>1 DEF At, IInv, TypeOK
<1>3. PICK w : TreeInv(w) /\ FileOK(blocks, super)
  BY StateWitness
<1>4. PathOK(blocks, w, stk, lf')
  BY <1>2, <1>3 DEF TreeInv, PathOK
<1>5. InteriorOK(blocks, w, lf', "balance")
  BY <1>1, <1>3 DEF TreeInv, InteriorOK
<1>6. TreeInv(w)'
  BY <1>1, <1>2, <1>3, <1>4, <1>5 DEF TreeInv
<1> QED  BY <1>1, <1>3, <1>6 DEF TInv

(* The tree is left as it is, and the key looked up again.                 *)
LEMMA AgainSameTree ==
  ASSUME KeysBounded, IInv, TInv, ~spoiled, pc \in {"balance", "demote"},
         Reestablish, blocks' = blocks, super' = super,
         pc = "demote" => Node.nkeys # 0
  PROVE  TInv'
<1>1. Sound(blocks) /\ FileOK(blocks, super)
  BY StateWitness
<1>2. PICK w : /\ TreeInv(w) /\ Tree(blocks, w) /\ PathOK(blocks, w, stk, lf)
               /\ InteriorOK(blocks, w, lf, pc)
  BY StateWitness
<1>3. lf.key \in Key
  BY <1>2 DEF TreeInv
<1>4. pc = "demote" => Node = blocks[lf.blk]
  BY NodeFacts DEF IInv, RoutineState
<1>5. InteriorOK(blocks', w, lf', "idle")
  BY <1>2, <1>4 DEF InteriorOK
<1> QED  BY <1>1, <1>2, <1>3, <1>5, AgainTree

(* NoBalance keeps the shape.                                              *)
LEMMA TNoBalance ==
  ASSUME KeysBounded, IInv, TInv, NoBalance, ~spoiled
  PROVE  TInv'
<1>1. pc = "balance" /\ Reestablish /\ blocks' = blocks /\ super' = super
  BY DEF NoBalance, tree
<1> QED  BY <1>1, AgainSameTree

(* DemoteDone keeps the shape.                                             *)
LEMMA TDemoteDone ==
  ASSUME KeysBounded, IInv, TInv, DemoteDone, ~spoiled
  PROVE  TInv'
<1>1. /\ pc = "demote" /\ Node.nkeys # 0 /\ Reestablish
      /\ blocks' = blocks /\ super' = super
  BY DEF DemoteDone, tree
<1> QED  BY <1>1, AgainSameTree

----------------------------------------------------------------------------
(* balbk1: the keys of two leaves and their separator, divided anew.       *)

(* The keys of x, e and those of y in a row.                               *)
Row(x, e, y) ==
  [nkeys |-> x.nkeys + y.nkeys + 1,
   ent   |-> [i \in 0 .. x.nkeys + y.nkeys |->
                IF i < x.nkeys THEN x.ent[i]
                ELSE IF i = x.nkeys THEN e ELSE y.ent[i - x.nkeys - 1]]]

(* The row of two leaves and their separator.                              *)
LEMMA RowJoined ==
  ASSUME NEW x \in Block, NEW y \in Block, NEW e
  PROVE  Joined(Row(x, e, y), x, e, y)
<1>1. x.nkeys \in Nat /\ y.nkeys \in Nat
  BY BlockKeys
<1> QED  BY <1>1 DEF Row, Joined

(* The blocks balbk1 leaves: the same row, divided at the new separator.   *)
LEMMA EvenedLeaves ==
  ASSUME NEW x \in Block, NEW y \in Block, NEW e \in Entry,
         Uneven(x.nkeys, y.nkeys),
         NEW a, a = BalLeft(x, y, e), NEW b, b = BalRight(x, y, e),
         NEW g, g = Separator(x, y)
  PROVE  /\ a \in Block /\ a.type = x.type /\ a.lnk = x.lnk
         /\ b \in Block /\ b.type = y.type /\ b.lnk = y.lnk
         /\ g \in Entry /\ Joined(Row(x, e, y), a, g, b)
<1>1. /\ x.nkeys \in 0 .. MXKEY /\ y.nkeys \in 0 .. MXKEY /\ MXKEY \in Nat
      /\ \A i \in 0 .. x.nkeys - 1 : x.ent[i] \in Entry
      /\ \A i \in 0 .. y.nkeys - 1 : y.ent[i] \in Entry
  BY BlockKeys, BlockConstants
<1>2. PICK m : m = Moved(x, y)
  OBVIOUS
<1>3. /\ m \in Nat
      /\ x.nkeys < y.nkeys => x.nkeys + m + 1 <= y.nkeys
      /\ x.nkeys >= y.nkeys => y.nkeys + m + 1 <= x.nkeys
  BY <1>2, MovedFacts
<1>4. PICK L, R, n, q : /\ L = x.nkeys /\ R = y.nkeys
                        /\ n = IF L < R THEN L + (m + 1) ELSE L - (m + 1)
                        /\ q = IF L < R THEN R - (m + 1) ELSE R + (m + 1)
  OBVIOUS
<1>5. /\ L \in 0 .. MXKEY /\ R \in 0 .. MXKEY
      /\ n \in 0 .. MXKEY /\ q \in 0 .. MXKEY /\ n + q = L + R
      /\ L + R + 1 - q = n + 1
  BY <1>1, <1>3, <1>4
<1>6. /\ a = [x EXCEPT !.nkeys = n, !.ent = Spread(x, y, e, 0, n)]
      /\ b = [y EXCEPT !.nkeys = q, !.ent = Spread(x, y, e, n + 1, q)]
  BY <1>2, <1>4, <1>5 DEF BalLeft, BalRight
<1>7. g = IF L < R THEN y.ent[m] ELSE x.ent[L - 1 - m]
  BY <1>2, <1>4 DEF Separator
<1>8. g \in Entry
  BY <1>1, <1>3, <1>4, <1>7
<1>9. /\ a \in Block /\ a.type = x.type
      /\ b \in Block /\ b.type = y.type
  <2>1. 0 \in Nat /\ 0 + n <= x.nkeys + y.nkeys + 1
    BY <1>4, <1>5
  <2>2. n + 1 \in Nat /\ n + 1 + q <= x.nkeys + y.nkeys + 1
    BY <1>4, <1>5
  <2>3. a = Refill(x, x, y, e, 0, n) /\ b = Refill(y, x, y, e, n + 1, q)
    BY <1>6 DEF Refill
  <2>4. n \in 0 .. MXKEY /\ q \in 0 .. MXKEY
    BY <1>5
  <2>5. Refill(x, x, y, e, 0, n) \in Block
        /\ Refill(x, x, y, e, 0, n).type = x.type
    BY <2>1, <2>4, SpreadBlock
  <2>6. Refill(y, x, y, e, n + 1, q) \in Block
        /\ Refill(y, x, y, e, n + 1, q).type = y.type
    BY <2>2, <2>4, SpreadBlock
  <2> QED  BY <2>3, <2>5, <2>6
<1>10. /\ a.nkeys = n /\ a.lnk = x.lnk /\ a.ent = Spread(x, y, e, 0, n)
       /\ b.nkeys = q /\ b.lnk = y.lnk /\ b.ent = Spread(x, y, e, n + 1, q)
  BY <1>6 DEF Block
<1>11. PICK v : v = Row(x, e, y)
  OBVIOUS
<1>12. /\ v.nkeys = L + R + 1
       /\ \A i \in 0 .. L + R :
            v.ent[i] = IF i < L THEN x.ent[i]
                       ELSE IF i = L THEN e ELSE y.ent[i - L - 1]
  BY <1>4, <1>11 DEF Row
<1>13. v.nkeys = a.nkeys + b.nkeys + 1 /\ v.nkeys - 1 = L + R
  BY <1>5, <1>10, <1>12
<1>14. ASSUME NEW i \in 0 .. v.nkeys - 1
       PROVE  /\ i < a.nkeys => v.ent[i] = a.ent[i]
              /\ i = a.nkeys => v.ent[i] = g
              /\ i > a.nkeys => v.ent[i] = b.ent[i - a.nkeys - 1]
  <2>1. i \in 0 .. L + R /\ i \in Int
    BY <1>5, <1>13
  <2>2. v.ent[i] = IF i < L THEN x.ent[i]
                   ELSE IF i = L THEN e ELSE y.ent[i - L - 1]
    BY <1>12, <2>1
  <2>3. CASE i < n
    <3>1. i \in 0 .. MXKEY - 1 /\ ~(i >= n) /\ 0 + i = i
      BY <1>1, <1>5, <2>1, <2>3
    <3>2. a.ent[i] = IF i < L THEN x.ent[i]
                     ELSE IF i = L THEN e ELSE y.ent[i - L - 1]
      BY <1>4, <1>10, <3>1 DEF Spread
    <3> QED  BY <1>5, <1>10, <2>1, <2>2, <2>3, <3>2
  <2>4. CASE i = n
    <3>1. CASE L < R
      <4>1. ~(i < L) /\ i # L /\ i - L - 1 = m
        BY <1>3, <1>4, <1>5, <2>4, <3>1
      <4> QED  BY <1>5, <1>7, <1>10, <2>2, <2>4, <3>1, <4>1
    <3>2. CASE ~(L < R)
      <4>1. i < L /\ i = L - 1 - m
        BY <1>3, <1>4, <1>5, <2>4, <3>2
      <4> QED  BY <1>5, <1>7, <1>10, <2>2, <2>4, <3>2, <4>1
    <3> QED  BY <3>1, <3>2
  <2>5. CASE i > n
    <3>1. PICK j \in Int : j = i - n - 1
      BY <1>5, <2>1
    <3>2. j \in 0 .. MXKEY - 1 /\ ~(j >= q) /\ n + 1 + j = i
      BY <1>1, <1>5, <2>1, <2>5, <3>1
    <3>3. b.ent[j] = IF i < L THEN x.ent[i]
                     ELSE IF i = L THEN e ELSE y.ent[i - L - 1]
      BY <1>4, <1>10, <3>2 DEF Spread
    <3> QED  BY <1>5, <1>10, <2>1, <2>2, <2>5, <3>1, <3>3
  <2> QED  BY <1>5, <2>1, <2>3, <2>4, <2>5
<1>15. Joined(v, a, g, b)
  BY <1>13, <1>14 DEF Joined
<1> QED  BY <1>8, <1>9, <1>10, <1>11, <1>15

(* balbk1 keeps the shape.                                                 *)
LEMMA BalancePair ==
  ASSUME KeysBounded, IInv, TInv, ~spoiled, pc = "balance",
         NEW l, NEW r, NEW s, Balance(l, r, s),
         s \in 0 .. Blk(Top.blk).nkeys - 1,
         l = Blk(Top.blk).lnk[s], r = Blk(Top.blk).lnk[s + 1],
         Uneven(Blk(l).nkeys, Blk(r).nkeys), lf.blk \in {l, r}, Sound(blocks')
  PROVE  TInv'
<1>1. /\ Sound(blocks) /\ FileOK(blocks, super) /\ blocks \in [Link -> Block]
  BY StateWitness DEF Sound
<1>2. PICK w : /\ TreeInv(w) /\ Tree(blocks, w) /\ PathOK(blocks, w, stk, lf)
               /\ w.h[ROOT] \in Nat /\ InteriorOK(blocks, w, lf, pc)
  BY StateWitness
<1>3. w.h[lf.blk] = 0 /\ lf.key \in Key /\ lf.blk \in Child
  BY <1>2 DEF TreeInv, IInv, RoutineState
<1>4. PICK p : p = Top.blk
  OBVIOUS
<1>5. /\ p \in Used(blocks) /\ w.h[p] # 0 /\ Blk(p) = blocks[p]
      /\ s \in 0 .. blocks[p].nkeys - 1
      /\ l = blocks[p].lnk[s] /\ r = blocks[p].lnk[s + 1]
  BY <1>2, <1>3, <1>4, LeafAndParent
<1>6. /\ l \in Used(blocks) /\ r \in Used(blocks) /\ l # ROOT /\ r # ROOT
      /\ w.h[l] = w.h[p] - 1 /\ w.h[r] = w.h[p] - 1 /\ w.h[p] \in Nat
      /\ blocks[p].ent[s] \in Entry /\ p # l /\ p # r /\ l # r
  BY <1>1, <1>2, <1>5, Sisters
<1>7. w.h[l] = 0 /\ w.h[r] = 0
  BY <1>3, <1>6
<1>8. PICK x, y, e : x = blocks[l] /\ y = blocks[r] /\ e = blocks[p].ent[s]
  OBVIOUS
<1>9. /\ x \in Block /\ y \in Block /\ x.type = "inuse" /\ y.type = "inuse"
      /\ l \in Link /\ r \in Link /\ p \in Link /\ Blk(l) = x /\ Blk(r) = y
      /\ blocks[p] \in Block
  BY <1>1, <1>5, <1>6, <1>8, UsedBlock DEF Blk, Read
<1>10. /\ x.lnk = NoLinks /\ y.lnk = NoLinks
  BY <1>1, <1>2, <1>6, <1>7, <1>8, UsedWitness, SMTT(30) DEF NodeOK
<1>11. PICK v, a, b, g : /\ v = Row(x, e, y) /\ a = BalLeft(x, y, e)
                         /\ b = BalRight(x, y, e) /\ g = Separator(x, y)
  OBVIOUS
<1>12. /\ a \in Block /\ a.type = "inuse" /\ a.lnk = NoLinks
       /\ b \in Block /\ b.type = "inuse" /\ b.lnk = NoLinks
       /\ g \in Entry /\ Joined(v, x, e, y) /\ Joined(v, a, g, b)
  <2>1. e \in Entry /\ Uneven(x.nkeys, y.nkeys)
    BY <1>6, <1>8, <1>9
  <2>2. /\ a \in Block /\ a.type = x.type /\ a.lnk = x.lnk
        /\ b \in Block /\ b.type = y.type /\ b.lnk = y.lnk
        /\ g \in Entry /\ Joined(v, a, g, b)
    BY <1>9, <1>11, <2>1, EvenedLeaves
  <2> QED  BY <1>9, <1>10, <1>11, <2>2, RowJoined
<1>13. PICK B2 : B2 = blocks'
  OBVIOUS
<1>14. PICK q : q = RepKey(blocks[p], s, g, l, r)
  OBVIOUS
<1>15. q \in Block /\ q.nkeys = blocks[p].nkeys
  <2>1. q = Separate(blocks, p, s, g)
    BY <1>5, <1>14 DEF Separate
  <2>2. q.nkeys = blocks[p].nkeys
    BY <1>5, <1>9, <2>1, SeparateShape
  <2>3. /\ s \in 0 .. MXKEY - 1 /\ l \in ChildOrNull /\ r \in ChildOrNull
    BY <1>1, <1>5, <1>6, <1>9, BlockKeys, BlockConstants, UsedBlock
       DEF ChildOrNull
  <2> QED  BY <1>9, <1>12, <1>14, <2>2, <2>3, RepKeyBlock
<1>16. /\ B2 = [[[blocks EXCEPT ![p] = q] EXCEPT ![l] = a] EXCEPT ![r] = b]
       /\ super' = super /\ Reestablish
  BY <1>4, <1>5, <1>8, <1>9, <1>11, <1>13, <1>14 DEF Balance
<1>17. /\ B2 \in [Link -> Block] /\ B2[p] = q /\ B2[l] = a /\ B2[r] = b
       /\ \A c \in Link \ {p, l, r} : B2[c] = blocks[c]
  BY <1>1, <1>6, <1>9, <1>12, <1>15, <1>16
<1>18. PICK w2 : w2 = MoveWitness(w, KeyAt(blocks[p], s), g.key)
  OBVIOUS
<1>19. Tree(B2, w2) /\ Used(B2) = Used(blocks)
  BY <1>1, <1>2, <1>5, <1>7, <1>8, <1>12, <1>14, <1>17, <1>18, BalanceTree,
     SMTT(30)
<1>20. w2.h = w.h
  BY <1>18 DEF MoveWitness
<1>21. FileOK(B2, super)
  <2>1. /\ blocks[p].type # "free" /\ blocks[l].type # "free"
        /\ blocks[r].type # "free"
    BY <1>1, <1>5, <1>6, UsedBlock
  <2>2. \A c \in Link : blocks[c].type = "free" => B2[c] = blocks[c]
    BY <1>17, <2>1
  <2>3. Used(B2) \subseteq Used(blocks)
    BY <1>19
  <2> QED  BY <1>1, <2>2, <2>3, SameFile
<1>22. InteriorOK(B2, w2, lf', "idle")
  <2>1. ASSUME NEW c \in Used(B2), w2.h[c] # 0 PROVE B2[c].nkeys # 0
    <3>1. c \in Used(blocks) /\ w.h[c] # 0 /\ c # l /\ c # r /\ c \in Link
      BY <1>1, <1>7, <1>19, <1>20, <2>1, UsedBlock
    <3>2. blocks[c].nkeys # 0
      BY <1>2, <3>1 DEF InteriorOK
    <3> QED  BY <1>15, <1>17, <3>1, <3>2
  <2> QED  BY <2>1 DEF InteriorOK
<1>23. pc # "idle"
  OBVIOUS
<1>24. /\ FileOK(blocks', super') /\ Tree(blocks', w2)
       /\ InteriorOK(blocks', w2, lf', "idle")
  BY <1>13, <1>16, <1>19, <1>21, <1>22
<1> QED  BY <1>3, <1>16, <1>23, <1>24, AgainTree

(* BalanceRight keeps the shape.                                           *)
LEMMA TBalanceRight ==
  ASSUME KeysBounded, IInv, TInv, BalanceRight, ~spoiled
  PROVE  TInv'
<1>1. PICK r, s : r = Blk(Top.blk).lnk[Top.pos + 1] /\ s = Top.pos
  OBVIOUS
<1>2. /\ pc = "balance" /\ Balance(lf.blk, r, s) /\ s < Blk(Top.blk).nkeys
      /\ Uneven(Blk(lf.blk).nkeys, Blk(r).nkeys)
  BY <1>1 DEF BalanceRight, CanBalanceRight, Node
<1>3. PICK w : Tree(blocks, w) /\ PathOK(blocks, w, stk, lf)
  BY StateWitness
<1>4. lf.blk \in Child
  BY <1>2 DEF IInv, RoutineState
<1>5. /\ s \in 0 .. Blk(Top.blk).nkeys /\ Blk(Top.blk).nkeys \in Nat
      /\ lf.blk = Blk(Top.blk).lnk[s]
  BY <1>1, <1>3, <1>4, LeafAndParent
<1>6. s \in 0 .. Blk(Top.blk).nkeys - 1
  BY <1>2, <1>5
<1>7. PICK l : l = lf.blk
  OBVIOUS
<1>8. /\ Balance(l, r, s) /\ lf.blk \in {l, r} /\ l = Blk(Top.blk).lnk[s]
      /\ r = Blk(Top.blk).lnk[s + 1] /\ Uneven(Blk(l).nkeys, Blk(r).nkeys)
  BY <1>1, <1>2, <1>5, <1>7
<1>9. Sound(blocks')
  BY BalanceRightInv, SoundNext
<1> QED  BY <1>2, <1>6, <1>8, <1>9, BalancePair

(* BalanceLeft keeps the shape.                                            *)
LEMMA TBalanceLeft ==
  ASSUME KeysBounded, IInv, TInv, BalanceLeft, ~spoiled
  PROVE  TInv'
<1>1. PICK l, s : l = Blk(Top.blk).lnk[Top.pos - 1] /\ s = Top.pos - 1
  OBVIOUS
<1>2. /\ pc = "balance" /\ Balance(l, lf.blk, s) /\ Top.pos > 0
      /\ Uneven(Blk(lf.blk).nkeys, Blk(l).nkeys)
  BY <1>1 DEF BalanceLeft, CanBalanceLeft, Node
<1>3. PICK w : Tree(blocks, w) /\ PathOK(blocks, w, stk, lf)
  BY StateWitness
<1>4. lf.blk \in Child
  BY <1>2 DEF IInv, RoutineState
<1>5. /\ Top.pos \in 0 .. Blk(Top.blk).nkeys /\ Blk(Top.blk).nkeys \in Nat
      /\ lf.blk = Blk(Top.blk).lnk[Top.pos]
  BY <1>3, <1>4, LeafAndParent
<1>6. s \in 0 .. Blk(Top.blk).nkeys - 1 /\ s + 1 = Top.pos
  BY <1>1, <1>2, <1>5
<1>7. PICK r : r = lf.blk
  OBVIOUS
<1>8. Uneven(Blk(l).nkeys, Blk(r).nkeys)
  <2>1. Blk(l).nkeys \in Int /\ Blk(r).nkeys \in Int
    BY <1>1, <1>2, <1>7, SisterFacts DEF Node
  <2> QED  BY <1>2, <1>7, <2>1, UnevenSym
<1>9. /\ Balance(l, r, s) /\ lf.blk \in {l, r} /\ l = Blk(Top.blk).lnk[s]
      /\ r = Blk(Top.blk).lnk[s + 1]
  BY <1>1, <1>2, <1>5, <1>6, <1>7
<1>10. Sound(blocks')
  BY BalanceLeftInv, SoundNext
<1> QED  BY <1>2, <1>6, <1>8, <1>9, <1>10, BalancePair

----------------------------------------------------------------------------
(* bdemte.                                                                 *)

(* The state of a demotion of an empty block.                              *)
LEMMA DemoteState ==
  ASSUME IInv, TInv, ~spoiled, pc = "demote", Node.nkeys = 0
  PROVE  /\ Sound(blocks) /\ SuperOK(super) /\ FileOK(blocks, super)
         /\ blocks \in [Link -> Block] /\ Node = blocks[lf.blk]
         /\ lf.blk \in Used(blocks) /\ lf.key \in Key
         /\ Node.type = "root" <=> lf.blk = ROOT
         /\ \E w : /\ Tree(blocks, w) /\ PathOK(blocks, w, stk, lf)
                   /\ w.h[lf.blk] # 0 /\ cblk = blocks[lf.blk].lnk[0]
                   /\ InteriorOK(blocks, w, lf, "demote")
                   /\ \A a \in Used(blocks) : w.h[a] # 0 /\ a # lf.blk =>
                        blocks[a].nkeys # 0
                   /\ cblk \in Used(blocks) \ {ROOT}
                   /\ w.h[cblk] = w.h[lf.blk] - 1 /\ w.h[lf.blk] \in Nat
<1>1. /\ Sound(blocks) /\ SuperOK(super) /\ FileOK(blocks, super)
      /\ blocks \in [Link -> Block]
  BY StateWitness DEF Sound
<1>2. PICK w : /\ TreeInv(w) /\ Tree(blocks, w) /\ PathOK(blocks, w, stk, lf)
               /\ w.h[ROOT] \in Nat /\ InteriorOK(blocks, w, lf, pc)
  BY StateWitness
<1>3. lf.blk # ZNULL /\ Node = blocks[lf.blk]
  BY NodeFacts DEF IInv, RoutineState
<1>4. lf.blk \in Used(blocks)
  BY <1>2, <1>3 DEF PathOK
<1>5. DemoteOK(blocks, w, lf, cblk) /\ lf.key \in Key
  BY <1>2 DEF TreeInv
<1>6. w.h[lf.blk] # 0 /\ cblk = blocks[lf.blk].lnk[0]
  BY <1>3, <1>5 DEF DemoteOK
<1>7. Node.type = "root" <=> lf.blk = ROOT
  BY <1>1, <1>3, <1>4, UsedBlock
<1>8. \A a \in Used(blocks) : w.h[a] # 0 /\ a # lf.blk => blocks[a].nkeys # 0
  BY <1>2 DEF InteriorOK
<1>9. /\ cblk \in Used(blocks) \ {ROOT}
      /\ w.h[cblk] = w.h[lf.blk] - 1 /\ w.h[lf.blk] \in Nat
  <2>1. NodeOK(blocks, w, lf.blk) /\ w.h[lf.blk] \in Nat
    BY <1>1, <1>2, <1>4, UsedWitness
  <2>2. 0 \in 0 .. blocks[lf.blk].nkeys
    BY <1>1, <1>4, UsedBlock
  <2>3. Kid(blocks, w, cblk, w.h[lf.blk] - 1,
            From(blocks[lf.blk], w.lo[lf.blk], 0),
            To(blocks[lf.blk], w.hi[lf.blk], 0))
    BY <1>6, <2>1, <2>2 DEF NodeOK
  <2> QED  BY <2>1, <2>3 DEF Kid
<1> QED
  BY <1>1, <1>2, <1>3, <1>4, <1>5, <1>6, <1>7, <1>8, <1>9

(* All the keys and links of a block, copied to another.                   *)
Copied(x, y) == CopyKeys(x, y, 0, y.nkeys)

(* The copy has the keys and links, and the type of its new place.         *)
LEMMA CopyAll ==
  ASSUME NEW x \in Block, NEW y \in Block
  PROVE  LET m == Copied(x, y)
         IN  /\ m \in Block /\ m.type = x.type /\ m.nkeys = y.nkeys
             /\ \A i \in 0 .. y.nkeys - 1 : m.ent[i] = y.ent[i]
             /\ \A i \in 0 .. y.nkeys : m.lnk[i] = y.lnk[i]
             /\ y.lnk = NoLinks => m.lnk = NoLinks
<1>1. PICK f \in Nat, k \in Nat : f = 0 /\ k = y.nkeys
  BY BlockKeys
<1>2. PICK m : m = CopyKeys(x, y, f, k)
  OBVIOUS
<1>3. f + k <= y.nkeys
  BY <1>1
<1>4. /\ m \in Block /\ m.type = x.type /\ m.nkeys = k
      /\ \A i \in 0 .. k - 1 : m.ent[i] = y.ent[f + i]
      /\ \A i \in 0 .. k : m.lnk[i] = y.lnk[f + i]
      /\ y.lnk = NoLinks => m.lnk = NoLinks
  BY <1>2, <1>3, CopyView
<1>5. \A i \in Int : f + i = i
  BY <1>1
<1>6. /\ \A i \in 0 .. k - 1 : m.ent[i] = y.ent[i]
      /\ \A i \in 0 .. k : m.lnk[i] = y.lnk[i]
  BY <1>4, <1>5
<1>7. Copied(x, y) = m
  BY <1>1, <1>2 DEF Copied
<1> QED  BY <1>1, <1>4, <1>6, <1>7

(* An empty root takes over the keys of its only child.                    *)
LEMMA TDemoteRoot ==
  ASSUME KeysBounded, IInv, TInv, DemoteRoot, ~spoiled
  PROVE  TInv'
<1>1. /\ pc = "demote" /\ Node.nkeys = 0 /\ Node.type = "root"
      /\ super' = FreeSuper(super, cblk) /\ Reestablish
      /\ blocks' = FreeBlock(super,
           [blocks EXCEPT
              ![lf.blk] = CopyKeys(@, Blk(cblk), 0, Blk(cblk).nkeys)],
           cblk)
  BY DEF DemoteRoot
<1>2. /\ Sound(blocks) /\ SuperOK(super) /\ FileOK(blocks, super)
      /\ blocks \in [Link -> Block] /\ Node = blocks[lf.blk]
      /\ lf.blk \in Used(blocks) /\ lf.key \in Key /\ lf.blk = ROOT
  BY <1>1, DemoteState
<1>3. PICK w : /\ Tree(blocks, w)
               /\ w.h[lf.blk] # 0 /\ cblk = blocks[lf.blk].lnk[0]
               /\ \A a \in Used(blocks) : w.h[a] # 0 /\ a # lf.blk =>
                    blocks[a].nkeys # 0
               /\ cblk \in Used(blocks) \ {ROOT}
  BY <1>1, DemoteState
<1>4. PICK c, x, y : c = cblk /\ x = blocks[ROOT] /\ y = blocks[c]
  OBVIOUS
<1>5. /\ c \in Used(blocks) /\ c # ROOT /\ c \in Child /\ c \in Link
      /\ x \in Block /\ x.type = "root" /\ y \in Block /\ ROOT \in Link
      /\ Blk(cblk) = y /\ x.nkeys = 0 /\ y.nkeys \in Nat
  BY <1>1, <1>2, <1>3, <1>4, UsedBlock DEF Blk, Read
<1>6. PICK m : m = Copied(x, y)
  OBVIOUS
<1>7. /\ m \in Block /\ m.type = "root" /\ m.nkeys = y.nkeys
      /\ \A i \in 0 .. y.nkeys - 1 : m.ent[i] = y.ent[i]
      /\ \A i \in 0 .. y.nkeys : m.lnk[i] = y.lnk[i]
      /\ y.lnk = NoLinks => m.lnk = NoLinks
  <2>1. x \in Block /\ y \in Block /\ x.type = "root"
    BY <1>5
  <2>2. /\ m \in Block /\ m.type = x.type /\ m.nkeys = y.nkeys
        /\ \A i \in 0 .. y.nkeys - 1 : m.ent[i] = y.ent[i]
        /\ \A i \in 0 .. y.nkeys : m.lnk[i] = y.lnk[i]
        /\ y.lnk = NoLinks => m.lnk = NoLinks
    BY <1>6, <2>1, CopyAll
  <2> QED  BY <2>1, <2>2
<1>8. PICK B1, B2, g : /\ B1 = [blocks EXCEPT ![ROOT] = m] /\ B2 = blocks'
                       /\ g = FreshBlock("free", super.freep)
  OBVIOUS
<1>9. B2 = FreeBlock(super, B1, c) /\ B2 = [B1 EXCEPT ![c] = g]
  BY <1>1, <1>2, <1>4, <1>5, <1>6, <1>8 DEF FreeBlock, Copied
<1>10. g \in Block /\ g.type = "free"
  BY <1>2, <1>8, FreshIsBlock DEF FreshBlock, SuperOK, BlockType
<1>11. /\ B1 \in [Link -> Block] /\ B2 \in [Link -> Block]
       /\ B2[ROOT] = m /\ B2[c] = g
       /\ \A a \in Link \ {ROOT, c} : B2[a] = blocks[a]
       /\ \A a \in Link : a # ROOT => B1[a] = blocks[a]
  BY <1>2, <1>5, <1>7, <1>8, <1>9, <1>10, ZenonT(40)
<1>12. PICK w2 : w2 = ShrinkWitness(w, c)
  OBVIOUS
<1>13. Tree(B2, w2) /\ Used(B2) = Used(blocks) \ {c}
  <2>1. /\ w.h[ROOT] # 0 /\ blocks[ROOT].nkeys = 0
        /\ c = blocks[ROOT].lnk[0]
    BY <1>2, <1>3, <1>4, <1>5
  <2>2. /\ B2[ROOT].type = "root" /\ B2[ROOT].nkeys = blocks[c].nkeys
        /\ \A i \in 0 .. blocks[c].nkeys - 1 :
             B2[ROOT].ent[i] = blocks[c].ent[i]
        /\ \A i \in 0 .. blocks[c].nkeys : B2[ROOT].lnk[i] = blocks[c].lnk[i]
        /\ blocks[c].lnk = NoLinks => B2[ROOT].lnk = NoLinks
        /\ B2[c].type = "free"
    BY <1>4, <1>7, <1>10, <1>11
  <2> QED  BY <1>2, <1>3, <1>11, <1>12, <2>1, <2>2, ShrinkTree, SMTT(30)
<1>14. FileOK(B2, super')
  <2>1. \A a \in Link : blocks[a].type = "free" => B1[a] = blocks[a]
    BY <1>4, <1>5, <1>11
  <2>2. Used(B2) \subseteq Used(blocks)
    BY <1>13
  <2>3. FileOK(B2, FreeSuper(super, c))
    BY <1>2, <1>5, <1>9, <1>11, <2>1, <2>2, FreeFile
  <2> QED  BY <1>1, <1>4, <2>3
<1>15. InteriorOK(B2, w2, lf', "idle")
  <2>1. ASSUME NEW a \in Used(B2), w2.h[a] # 0 PROVE B2[a].nkeys # 0
    <3>1. a \in Used(blocks) /\ a # c /\ a \in Link
      BY <1>2, <1>13, <2>1, UsedBlock
    <3>2. w2.h = [w.h EXCEPT ![ROOT] = w.h[c]] /\ w.h \in [TreeBlk -> Nat]
      BY <1>3, <1>12 DEF ShrinkWitness, Tree, Witness
    <3>3. CASE a = ROOT
      <4>1. w2.h[ROOT] = w.h[c]
        BY <3>2 DEF TreeBlk
      <4>2. y.nkeys # 0
        BY <1>2, <1>3, <1>4, <1>5, <2>1, <3>3, <4>1
      <4> QED  BY <1>7, <1>11, <3>3, <4>2
    <3>4. CASE a # ROOT
      <4>1. w.h[a] # 0
        BY <2>1, <3>2, <3>4
      <4> QED  BY <1>2, <1>3, <1>11, <3>1, <3>4, <4>1
    <3> QED  BY <3>3, <3>4
  <2> QED  BY <2>1 DEF InteriorOK
<1>16. Sound(blocks')
  BY DemoteRootInv, SoundNext
<1>17. /\ FileOK(blocks', super') /\ Tree(blocks', w2)
       /\ InteriorOK(blocks', w2, lf', "idle") /\ pc # "idle"
  BY <1>1, <1>8, <1>13, <1>14, <1>15
<1> QED  BY <1>1, <1>2, <1>16, <1>17, AgainTree

(* The orphan to the right of its left sister.                             *)
LEMMA DemotedRight ==
  ASSUME NEW x \in Block, NEW y \in Block, y.nkeys = 0, NEW e \in Entry,
         ~Full(x), x.nkeys # 0, NEW c \in Child, c = y.lnk[0],
         NEW n, n = PutKey(x, e, ZNULL, c)
  PROVE  /\ n \in Block /\ n.type = x.type
         /\ Joined(n, x, e, y) /\ Linked(n, x, y)
<1>1. x.nkeys \in Nat /\ x.nkeys \in 0 .. x.nkeys /\ x.nkeys < MXKEY
  BY BlockKeys, BlockConstants DEF Full
<1>2. ZNULL \in ChildOrNull /\ c \in ChildOrNull /\ c # ZNULL
  BY BlockNumbers DEF ChildOrNull, Child, ZNULL
<1>3. x.nkeys = PutPos(x, e, ZNULL, c)
  BY <1>2 DEF PutPos
<1>4. /\ n \in Block /\ n.type = x.type /\ n.nkeys = x.nkeys + 1
      /\ \A i \in 0 .. x.nkeys :
           /\ i < x.nkeys => n.ent[i] = x.ent[i]
           /\ i = x.nkeys => n.ent[i] = e
      /\ n.lnk = PutLnk(x, x.nkeys, ZNULL, c)
  BY <1>1, <1>2, <1>3, PutEntries
<1>5. \A i \in 0 .. x.nkeys + 1 :
        /\ i <= x.nkeys => n.lnk[i] = x.lnk[i]
        /\ i = x.nkeys + 1 => n.lnk[i] = c
  <2>1. PICK L : L = PutLnk(x, x.nkeys, ZNULL, c)
    OBVIOUS
  <2>2. \A i \in 0 .. x.nkeys + 1 :
          /\ i <= x.nkeys => PutLnk(x, x.nkeys, ZNULL, c)[i] = x.lnk[i]
          /\ i = x.nkeys + 1 => PutLnk(x, x.nkeys, ZNULL, c)[i] = c
    BY <1>1, <1>2, PutLinksNode
  <2> QED  BY <1>4, <2>2
<1>6. Joined(n, x, e, y)
  BY <1>1, <1>4 DEF Joined
<1>7. ASSUME NEW i \in 0 .. n.nkeys
      PROVE  /\ i <= x.nkeys => n.lnk[i] = x.lnk[i]
             /\ i > x.nkeys => n.lnk[i] = y.lnk[i - x.nkeys - 1]
  <2>1. i \in 0 .. x.nkeys + 1
    BY <1>4
  <2>2. CASE i <= x.nkeys
    BY <1>1, <1>5, <2>1, <2>2
  <2>3. CASE i > x.nkeys
    <3>1. i = x.nkeys + 1 /\ i - x.nkeys - 1 = 0
      BY <1>1, <2>1, <2>3
    <3> QED  BY <1>1, <1>5, <2>1, <2>3, <3>1
  <2> QED  BY <1>1, <2>1, <2>2, <2>3
<1> QED  BY <1>4, <1>6, <1>7 DEF Linked

(* The orphan to the left of its right sister.                             *)
LEMMA DemotedLeft ==
  ASSUME NEW x \in Block, NEW y \in Block, x.nkeys = 0, NEW e \in Entry,
         ~Full(y), y.nkeys # 0, Sorted(y), NEW u \in Int, Within(y, e.key, u),
         NEW c \in Child, c = x.lnk[0],
         NEW n, n = PutKey(Copied(x, y), e, c, ZNULL)
  PROVE  /\ n \in Block /\ n.type = x.type
         /\ Joined(n, x, e, y) /\ Linked(n, x, y)
<1>1. y.nkeys \in Nat /\ y.nkeys < MXKEY
  BY BlockKeys, BlockConstants DEF Full
<1>2. ZNULL \in ChildOrNull /\ c \in ChildOrNull /\ c # ZNULL
  BY BlockNumbers DEF ChildOrNull, Child, ZNULL
<1>3. PICK z : z = Copied(x, y)
  OBVIOUS
<1>4. /\ z \in Block /\ z.type = x.type /\ z.nkeys = y.nkeys
      /\ \A i \in 0 .. y.nkeys - 1 : z.ent[i] = y.ent[i]
      /\ \A i \in 0 .. y.nkeys : z.lnk[i] = y.lnk[i]
  BY <1>3, CopyAll, SMTT(30)
<1>5. PICK k \in Int : k = e.key
  BY KeyConstants DEF Entry
<1>6. /\ \A i \in 0 .. z.nkeys - 1 : KeyAt(z, i) = KeyAt(y, i)
      /\ z.nkeys = y.nkeys
  BY <1>4 DEF KeyAt
<1>7. Sorted(z) /\ Within(z, k, u)
  BY <1>5, <1>6 DEF Sorted, Within
<1>8. Gap(z, k) = 0
  <2>1. k <= To(z, u, 0)
    BY <1>1, <1>4, <1>5, <1>7, BlockKeys DEF To, Within
  <2>2. 0 \in 0 .. z.nkeys
    BY <1>1, <1>4
  <2> QED  BY <1>4, <1>7, <2>1, <2>2, GapOf
<1>9. 0 = PutPos(z, e, c, ZNULL) /\ ~Full(z) /\ 0 \in 0 .. z.nkeys
  BY <1>1, <1>4, <1>5, <1>8 DEF PutPos, Full
<1>10. /\ n \in Block /\ n.type = z.type /\ n.nkeys = z.nkeys + 1
       /\ \A i \in 0 .. z.nkeys :
            /\ i = 0 => n.ent[i] = e
            /\ i > 0 => n.ent[i] = z.ent[i - 1]
       /\ n.lnk = PutLnk(z, 0, c, ZNULL)
  BY <1>2, <1>3, <1>4, <1>9, PutEntries
<1>11. \A i \in 0 .. z.nkeys + 1 :
         /\ i = 0 => n.lnk[i] = c
         /\ i # 0 => n.lnk[i] = z.lnk[i - 1]
  <2>1. z.nkeys < MXKEY /\ z.nkeys # 0
    BY <1>1, <1>4
  <2>2. \A i \in 0 .. z.nkeys + 1 :
          /\ i = 0 => PutLnk(z, 0, c, ZNULL)[i] = c
          /\ i # 0 => PutLnk(z, 0, c, ZNULL)[i] = z.lnk[i - 1]
    BY <1>2, <1>4, <1>9, <2>1, PutLinksNode
  <2> QED  BY <1>10, <2>2
<1>12. Joined(n, x, e, y)
  <2>1. n.nkeys = x.nkeys + y.nkeys + 1
    BY <1>1, <1>4, <1>10
  <2>2. ASSUME NEW i \in 0 .. n.nkeys - 1
        PROVE  /\ i < x.nkeys => n.ent[i] = x.ent[i]
               /\ i = x.nkeys => n.ent[i] = e
               /\ i > x.nkeys => n.ent[i] = y.ent[i - x.nkeys - 1]
    <3>1. i \in 0 .. z.nkeys
      BY <1>1, <1>4, <1>10
    <3>2. CASE i = 0
      BY <1>10, <3>1, <3>2
    <3>3. CASE i # 0
      <4>1. PICK j \in 0 .. y.nkeys - 1 : j = i - 1
        BY <1>1, <1>4, <3>1, <3>3
      <4>2. n.ent[i] = y.ent[j] /\ i - x.nkeys - 1 = j
        BY <1>4, <1>10, <3>1, <3>3, <4>1
      <4> QED  BY <3>1, <3>3, <4>2
    <3> QED  BY <3>2, <3>3
  <2> QED  BY <2>1, <2>2 DEF Joined
<1>13. ASSUME NEW i \in 0 .. n.nkeys
       PROVE  /\ i <= x.nkeys => n.lnk[i] = x.lnk[i]
              /\ i > x.nkeys => n.lnk[i] = y.lnk[i - x.nkeys - 1]
  <2>1. i \in 0 .. z.nkeys + 1
    BY <1>10
  <2>2. CASE i = 0
    BY <1>11, <2>1, <2>2
  <2>3. CASE i # 0
    <3>1. PICK j \in 0 .. y.nkeys : j = i - 1
      BY <1>1, <1>4, <2>1, <2>3
    <3>2. n.lnk[i] = y.lnk[j] /\ i - x.nkeys - 1 = j
      BY <1>4, <1>11, <2>1, <2>3, <3>1
    <3> QED  BY <2>1, <2>3, <3>2
  <2> QED  BY <2>2, <2>3
<1> QED  BY <1>4, <1>10, <1>12, <1>13 DEF Linked

----------------------------------------------------------------------------
(* bdemte with an empty block below the root.                              *)
LEMMA TDemote ==
  ASSUME IInv, TInv, Demote, ~spoiled
  PROVE  TInv'
<1>1. CASE DemPos >= Grand.nkeys
  <2>1. GiveUp("QDEMSE")
    BY <1>1 DEF Demote
  <2> QED  BY <2>1, GiveUpTree
<1>2. CASE ~(DemPos >= Grand.nkeys)
  <2>1. /\ Demoting /\ (DemPos < Grand.nkeys => ~Full(Target))
        /\ blocks' = Merge(Cut, super, Link1, Grand.ent[DemPos])
        /\ super' = FreeSuper(super, Link2) /\ cblk' = Link1 /\ ToGrand
    BY <1>2 DEF Demote
  <2>2. pc = "demote" /\ Node.nkeys = 0 /\ Node.type # "root"
    BY <2>1 DEF Demoting
  <2>3. /\ Sound(blocks) /\ SuperOK(super) /\ FileOK(blocks, super)
        /\ blocks \in [Link -> Block] /\ Node = blocks[lf.blk]
        /\ lf.blk \in Used(blocks) /\ lf.key \in Key /\ lf.blk # ROOT
    BY <2>2, DemoteState
  <2>4. PICK w : /\ Tree(blocks, w) /\ PathOK(blocks, w, stk, lf)
                 /\ w.h[lf.blk] # 0 /\ cblk = blocks[lf.blk].lnk[0]
                 /\ InteriorOK(blocks, w, lf, "demote")
                 /\ \A a \in Used(blocks) : w.h[a] # 0 /\ a # lf.blk =>
                      blocks[a].nkeys # 0
                 /\ cblk \in Used(blocks) \ {ROOT}
    BY <2>2, DemoteState
  <2>5. PICK p, s, l, r, e : /\ p = Top.blk /\ s = DemPos /\ l = Link1
                             /\ r = Link2 /\ e = Grand.ent[DemPos]
    OBVIOUS
  <2>6. lf.blk \in Child /\ cblk \in Child
    BY <2>3, <2>4, UsedBlock
  <2>7. /\ p \in Used(blocks) /\ w.h[p] # 0 /\ Grand = blocks[p]
        /\ Top.pos \in 0 .. blocks[p].nkeys /\ blocks[p].nkeys \in Nat
        /\ blocks[p].lnk[Top.pos] = lf.blk
        /\ w.h[p] = w.h[lf.blk] + 1
    BY <2>4, <2>5, <2>6, LeafAndParent DEF Grand
  <2>8. /\ s \in 0 .. blocks[p].nkeys - 1
        /\ OnRight => s + 1 = Top.pos
        /\ ~OnRight => s = Top.pos
    BY <1>2, <2>5, <2>7 DEF DemPos, OnRight
  <2>9. l = blocks[p].lnk[s] /\ r = blocks[p].lnk[s + 1] /\ e = blocks[p].ent[s]
    BY <2>5, <2>7 DEF Link1, Link2
  <2>10. OnRight => r = lf.blk
    BY <2>7, <2>8, <2>9
  <2>11. ~OnRight => l = lf.blk
    BY <2>7, <2>8, <2>9
  <2>12. Beside(blocks, w, p, s, l, r)
    BY <2>7, <2>8, <2>9 DEF Beside
  <2>13. /\ l \in Used(blocks) \ {ROOT} /\ r \in Used(blocks) \ {ROOT}
         /\ l # r /\ p # l /\ p # r
         /\ w.h[p] \in Nat /\ w.h[l] = w.h[p] - 1 /\ w.h[r] = w.h[p] - 1
         /\ w.hi[l] = e.key /\ w.lo[r] = e.key /\ e \in Entry
    <3>1. /\ l \in Used(blocks) \ {ROOT} /\ r \in Used(blocks) \ {ROOT}
          /\ l # r /\ p # l /\ p # r
          /\ w.h[p] \in Nat /\ w.h[l] = w.h[p] - 1 /\ w.h[r] = w.h[p] - 1
          /\ w.hi[l] = KeyAt(blocks[p], s) /\ w.lo[r] = KeyAt(blocks[p], s)
          /\ blocks[p].ent[s] \in Entry
      BY <2>3, <2>4, <2>7, <2>8, <2>9, Sisters
    <3> QED  BY <2>9, <3>1 DEF KeyAt
  <2>14. w.h[l] # 0 /\ w.h[r] # 0
    BY <2>4, <2>7, <2>10, <2>11, <2>13
  <2>15. PICK x, y : x = blocks[l] /\ y = blocks[r]
    OBVIOUS
  <2>16. /\ x \in Block /\ y \in Block /\ x.type = "inuse"
         /\ l \in Link /\ r \in Link /\ p \in Link /\ l # ZNULL /\ r # ZNULL
         /\ blocks[p] \in Block
    BY <2>3, <2>7, <2>13, <2>15, UsedBlock
  <2>17. PICK q : q = RemKey(blocks[p], s)
    OBVIOUS
  <2>18. q \in Block /\ Cut = [blocks EXCEPT ![p] = q]
    BY <2>5, <2>8, <2>16, <2>17, RemoveView DEF Cut
  <2>19. Cut[l] = x /\ Cut[r] = y /\ Read(Cut, r) = y /\ Read(Cut, l) = x
    BY <2>3, <2>13, <2>15, <2>16, <2>18 DEF Read
  <2>20. ~Full(Target)
    BY <1>2, <2>1, <2>5, <2>7, <2>8
  <2>21. PICK n : n = IF OnRight THEN PutKey(x, e, ZNULL, cblk)
                      ELSE PutKey(Copied(x, y), e, cblk, ZNULL)
    OBVIOUS
  <2>22. /\ n \in Block /\ n.type = x.type
         /\ Joined(n, x, e, y) /\ Linked(n, x, y)
    <3>1. CASE OnRight
      <4>1. y.nkeys = 0 /\ cblk = y.lnk[0] /\ n = PutKey(x, e, ZNULL, cblk)
        BY <2>2, <2>3, <2>4, <2>10, <2>15, <2>21, <3>1
      <4>2. ~Full(x)
        BY <2>5, <2>19, <2>20, <3>1 DEF Target, Sister
      <4>3. x.nkeys # 0
        BY <2>4, <2>10, <2>13, <2>14, <2>15, <3>1
      <4>4. PICK c : c = cblk
        OBVIOUS
      <4>5. c \in Child /\ c = y.lnk[0] /\ n = PutKey(x, e, ZNULL, c)
        BY <2>6, <4>1, <4>4
      <4> QED  BY <2>13, <2>16, <4>1, <4>2, <4>3, <4>5, DemotedRight
    <3>2. CASE ~OnRight
      <4>1. /\ x.nkeys = 0 /\ cblk = x.lnk[0]
            /\ n = PutKey(Copied(x, y), e, cblk, ZNULL)
        BY <2>2, <2>3, <2>4, <2>11, <2>15, <2>21, <3>2
      <4>2. ~Full(y)
        BY <2>5, <2>19, <2>20, <3>2 DEF Target, Sister
      <4>3. y.nkeys # 0
        BY <2>4, <2>11, <2>13, <2>14, <2>15, <3>2
      <4>4. PICK u \in Int : u = w.hi[r] /\ Sorted(y) /\ Within(y, e.key, u)
        BY <2>3, <2>4, <2>13, <2>15, UsedWitness DEF NodeOK
      <4>5. PICK c : c = cblk
        OBVIOUS
      <4>6. /\ c \in Child /\ c = x.lnk[0]
            /\ n = PutKey(Copied(x, y), e, c, ZNULL)
        BY <2>6, <4>1, <4>5
      <4> QED
        BY <2>13, <2>16, <4>1, <4>2, <4>3, <4>4, <4>6, DemotedLeft
    <3> QED  BY <3>1, <3>2
  <2>23. MergedBlock(blocks, w, p, s, l, r, n)
    BY <2>9, <2>14, <2>15, <2>16, <2>22 DEF MergedBlock
  <2>24. MergeStep(p, s, l, r, n)
    <3>1. PICK B1 : B1 = [Cut EXCEPT ![l] = n]
      OBVIOUS
    <3>2. blocks' = FreeBlock(super, B1, r)
      <4>1. n = IF OnRight THEN PutKey(Cut[l], e, ZNULL, cblk)
                ELSE PutKey(CopyKeys(Cut[l], Read(Cut, r), 0,
                                     Read(Cut, r).nkeys), e, cblk, ZNULL)
        BY <2>19, <2>21 DEF Copied
      <4>2. Merge(Cut, super, l, e) = FreeBlock(super, B1, r)
        BY <2>5, <3>1, <4>1 DEF Merge
      <4> QED  BY <2>1, <2>5, <4>2
    <3>3. Merged(blocks, B1, p, s, l, r, n)
      <4>1. B1 = [[blocks EXCEPT ![p] = q] EXCEPT ![l] = n]
        BY <2>18, <3>1
      <4>2. /\ B1 \in [Link -> Block] /\ B1[p] = q /\ B1[l] = n
            /\ \A a \in Link \ {p, l, r} : B1[a] = blocks[a]
        BY <2>3, <2>13, <2>16, <2>18, <2>22, <4>1
      <4> QED  BY <2>17, <4>2 DEF Merged
    <3>4. /\ lf' = At(p, s) /\ stk' = Rest /\ pc' = "demote"
          /\ cblk' = l /\ super' = FreeSuper(super, r)
      BY <2>1, <2>2, <2>5 DEF ToGrand
    <3> QED  BY <2>5, <3>2, <3>3, <3>4 DEF MergeStep
  <2>25. lf.blk \in {l, r}
    BY <2>10, <2>11
  <2> QED
    BY <2>3, <2>4, <2>12, <2>23, <2>24, <2>25, MergeStepTree
<1> QED  BY <1>1, <1>2

(* Every step of a call.                                                   *)
LEMMA TStep ==
  ASSUME KeysBounded, RoomToSplit, IInv, TInv, Step, ~spoiled
  PROVE  TInv'
<1>1. CASE FindStep
  BY <1>1, TSearchBlock, TSplitRoot, TSplitChild DEF FindStep
<1>2. CASE InsertKey \/ UpdateKey
  BY <1>2, TInsertKey, TUpdateKey
<1>3. CASE DeleteKey \/ Descend \/ ReplaceKey
  BY <1>3, TDeleteKey, TDescend, TReplaceKey
<1>4. CASE JoinRight \/ JoinLeft \/ NoJoin
  BY <1>4, TJoinRight, TJoinLeft, TNoJoin
<1>5. CASE BalanceRight \/ BalanceLeft \/ NoBalance
  BY <1>5, TBalanceRight, TBalanceLeft, TNoBalance
<1>6. CASE DemoteDone \/ DemoteRoot \/ Demote
  BY <1>6, TDemoteDone, TDemoteRoot, TDemote
<1>7. CASE DemoteFull
  <2>1. spoiled' = TRUE
    BY <1>7 DEF DemoteFull
  <2> QED  BY <2>1 DEF TInv
<1> QED
  BY <1>1, <1>2, <1>3, <1>4, <1>5, <1>6, <1>7 DEF Step, DeleteStep

(* What a call has spoiled stays so.                                       *)
LEMMA SpoiledStays ==
  ASSUME Next, spoiled
  PROVE  spoiled'
<1>1. CASE Invoke
  BY <1>1 DEF Invoke, Bfndky, Bdelky, Binsky, Bupdky, CallByKey,
              BdelkyCurrent, BupdkyCurrent, Call
<1>2. CASE FindStep
  BY <1>2 DEF FindStep, SearchBlock, SplitRoot, SplitChild, NoSpace, GiveUp
<1>3. CASE InsertKey \/ UpdateKey \/ DeleteKey \/ Descend \/ ReplaceKey
  BY <1>3 DEF InsertKey, UpdateKey, DeleteKey, Descend, ReplaceKey,
              AfterRemoval, GiveUp
<1>4. CASE JoinRight \/ JoinLeft \/ NoJoin
  BY <1>4 DEF JoinRight, JoinLeft, NoJoin, Join, GiveUp
<1>5. CASE BalanceRight \/ BalanceLeft \/ NoBalance
  BY <1>5 DEF BalanceRight, BalanceLeft, NoBalance, Balance
<1>6. CASE DemoteDone \/ DemoteRoot \/ Demote \/ DemoteFull
  BY <1>6 DEF DemoteDone, DemoteRoot, Demote, DemoteFull, GiveUp
<1> QED
  BY <1>1, <1>2, <1>3, <1>4, <1>5, <1>6 DEF Next, Step, DeleteStep

(* Every step.                                                             *)
LEMMA TNext ==
  ASSUME KeysBounded, RoomToSplit, IInv, TInv, Next
  PROVE  TInv'
<1>1. CASE Invoke
  BY <1>1, TInvoke
<1>2. CASE Step /\ ~spoiled
  BY <1>2, TStep
<1>3. CASE Step /\ spoiled
  BY <1>3, SpoiledStays DEF TInv
<1> QED  BY <1>1, <1>2, <1>3 DEF Next

(* A stutter.                                                              *)
LEMMA TStutter ==
  ASSUME TInv, UNCHANGED vars
  PROVE  TInv'
BY DEF TInv, TreeInv, vars

(* The shape of the tree is inductive.                                     *)
THEOREM TreeInductive ==
  ASSUME KeysBounded, RoomToSplit
  PROVE  Spec => [](IInv /\ TInv)
<1>1. Init => IInv /\ TInv
  BY InitInv, TInit
<1>2. IInv /\ TInv /\ [Next]_vars => IInv' /\ TInv'
  BY StepInv, TNext, TStutter
<1> QED  BY <1>1, <1>2, PTL DEF Spec

----------------------------------------------------------------------------
(* Induction and iteration.                                                *)

(* A set of naturals has a least member.                                   *)
LEMMA LeastNatural ==
  ASSUME NEW S \in SUBSET Nat, S # {}
  PROVE  \E n \in S : \A m \in S : n <= m
<1>1. PICK R : R = {ss \in Nat \X Nat : ss[1] < ss[2]}
  OBVIOUS
<1>2. IsWellFoundedOn(R, Nat)
  BY <1>1, NatLessThanWellFounded DEF OpToRel
<1>3. PICK n \in S : \A m \in S : <<m, n>> \notin R
  BY <1>2, WFMin
<1>4. ASSUME NEW m \in S, m < n PROVE <<m, n>> \in R
  BY <1>1, <1>4
<1>5. n \in Nat /\ \A m \in S : m \in Nat /\ ~(m < n)
  BY <1>3, <1>4
<1>6. \A m \in S : n <= m
  BY <1>5
<1> QED  BY <1>6

(* Induction over the members of a set.                                    *)
LEMMA SetInduction ==
  ASSUME NEW S, 0 \in S, \A n \in Nat : n \in S => n + 1 \in S
  PROVE  Nat \subseteq S
<1> SUFFICES ASSUME Nat \ S # {} PROVE FALSE
  OBVIOUS
<1>1. PICK n \in Nat \ S : \A m \in Nat \ S : n <= m
  BY LeastNatural
<1>2. n # 0 /\ n - 1 \in Nat /\ n - 1 \in S
  BY <1>1
<1> QED  BY <1>1, <1>2

(* f iterates g from s, up to N.                                           *)
Iterates(f, g, s, N) ==
  f[0] = s /\ \A d \in 1 .. N : f[d] = g[f[d - 1]]

(* Iteration is well defined, up to any N.                                 *)
LEMMA IterationExists ==
  ASSUME NEW S, NEW s \in S, NEW g \in [S -> S], NEW N \in Nat
  PROVE  \E f \in [0 .. N -> S] : Iterates(f, g, s, N)
<1> DEFINE D == {n \in Nat : \E f \in [0 .. n -> S] : Iterates(f, g, s, n)}
<1>1. 0 \in D
  <2>1. PICK f : f = [d \in 0 .. 0 |-> s]
    OBVIOUS
  <2>2. f \in [0 .. 0 -> S] /\ Iterates(f, g, s, 0)
    BY <2>1 DEF Iterates
  <2> QED  BY <2>2
<1>2. ASSUME NEW n \in Nat, n \in D PROVE n + 1 \in D
  <2>1. PICK f \in [0 .. n -> S] : Iterates(f, g, s, n)
    BY <1>2
  <2>2. PICK e : e = [d \in 0 .. n + 1 |-> IF d = n + 1 THEN g[f[n]] ELSE f[d]]
    OBVIOUS
  <2>3. e \in [0 .. n + 1 -> S]
    BY <2>1, <2>2
  <2>4. Iterates(e, g, s, n + 1)
    BY <2>1, <2>2 DEF Iterates
  <2> QED  BY <2>3, <2>4
<1> HIDE DEF D
<1>3. Nat \subseteq D
  BY <1>1, <1>2, SetInduction
<1> QED  BY <1>3 DEF D

----------------------------------------------------------------------------
(* The stack.                                                              *)

(* The height of the tree.                                                 *)
LEMMA RootHeight ==
  ASSUME NEW B, NEW w, Tree(B, w)
  PROVE  w.h[ROOT] \in Nat
  BY DEF Tree, Witness, TreeBlk

(* StackIsPath follows from the invariant: the frames of the stack.        *)
LEMMA PathStands ==
  ASSUME IInv, TInv
  PROVE  StackIsPath
<1> SUFFICES ASSUME ~spoiled PROVE StackIsPath
  BY DEF StackIsPath
<1>1. PICK w : TreeInv(w)
  BY DEF TInv
<1>2. /\ Tree(blocks, w) /\ PathOK(blocks, w, stk, lf)
      /\ pc \in {"find", "refind"} => FindOK(blocks, w, stk, lf, cblk)
  BY <1>1 DEF TreeInv
<1>3. lf.blk = ZNULL <=> stk = <<>>
  BY EmptyStack
<1>4. stk \in Seq(Frame) /\ Len(stk) \in Nat
  BY EmptyStack
<1>5. PICK path : path = Append(stk, [blk |-> lf.blk, pos |-> lf.pos])
  OBVIOUS
<1>6. /\ Len(path) = Len(stk) + 1
      /\ path[Len(stk) + 1] = [blk |-> lf.blk, pos |-> lf.pos]
      /\ \A i \in 1 .. Len(stk) : path[i] = stk[i]
  BY <1>4, <1>5
<1>7. \A b \in Used(blocks) : w.h[b] = w.h[ROOT] => b = ROOT
  <2> TAKE b \in Used(blocks)
  <2>1. Sound(blocks)
    BY DEF IInv, TypeOK, RootIsRoot, Sound
  <2>2. w.h[b] \in Nat /\ w.h[ROOT] \in Nat /\ NodeOK(blocks, w, b)
    BY <1>2, <2>1, UsedWitness
  <2> QED  BY <2>2 DEF NodeOK
<1>8. ASSUME NEW n \in 2 .. Len(path)
      PROVE  path[n].blk = IF n = 2 THEN ROOT
                           ELSE blocks[path[n - 1].blk].lnk[path[n - 1].pos]
  <2>1. stk # <<>> /\ Len(stk) >= 1
    BY <1>4, <1>6, <1>8
  <2>2. lf.blk \in Used(blocks) /\ w.h[lf.blk] = w.h[ROOT] - (Len(stk) - 1)
    BY <1>2, <1>3, <2>1 DEF PathOK
  <2>3. w.h[ROOT] \in Nat
    BY <1>2, RootHeight
  <2>4. CASE n = 2
    <3>1. CASE Len(stk) = 1
      <4>1. path[2].blk = lf.blk
        BY <1>6, <3>1
      <4>2. w.h[lf.blk] = w.h[ROOT]
        BY <2>2, <2>3, <3>1
      <4> QED  BY <1>7, <2>2, <2>4, <4>1, <4>2
    <3>2. CASE Len(stk) # 1
      <4>1. 2 \in 2 .. Len(stk) /\ path[2] = stk[2]
        <5>1. PICK m \in Nat : m = Len(stk)
          BY <1>4
        <5>2. m >= 2
          BY <2>1, <3>2, <5>1
        <5>3. 2 \in 1 .. m /\ 2 \in 2 .. m
          BY <5>2
        <5> QED  BY <1>6, <5>1, <5>3
      <4>2. stk[2].blk \in Used(blocks) /\ w.h[stk[2].blk] = w.h[ROOT] - (2 - 2)
        BY <1>2, <4>1 DEF PathOK
      <4>3. w.h[stk[2].blk] = w.h[ROOT]
        BY <2>3, <4>2
      <4> QED  BY <1>7, <2>4, <4>1, <4>2, <4>3
    <3> QED  BY <3>1, <3>2
  <2>5. CASE n # 2
    <3>1. PICK m \in 2 .. Len(stk) : m = n - 1
      BY <1>4, <1>6, <2>5
    <3>2. blocks[stk[m].blk].lnk[stk[m].pos] =
            IF m = Len(stk) THEN lf.blk ELSE stk[m + 1].blk
      BY <1>2 DEF PathOK
    <3>3. path[n - 1] = stk[m] /\ n = m + 1
      BY <1>4, <1>6, <3>1
    <3>4. CASE m = Len(stk)
      <4>1. path[n].blk = lf.blk
        BY <1>6, <3>3, <3>4
      <4>2. blocks[path[n - 1].blk].lnk[path[n - 1].pos] = lf.blk
        BY <3>2, <3>3, <3>4
      <4> QED  BY <2>5, <4>1, <4>2
    <3>5. CASE m # Len(stk)
      <4>1. path[n] = stk[m + 1]
        BY <1>4, <1>6, <3>3, <3>5
      <4>2. blocks[path[n - 1].blk].lnk[path[n - 1].pos] = path[n].blk
        BY <3>2, <3>3, <3>5, <4>1
      <4> QED  BY <2>5, <4>2
    <3> QED  BY <3>4, <3>5
  <2> QED  BY <2>4, <2>5
<1>9. pc \in {"find", "refind"} =>
        cblk = IF lf.blk = ZNULL THEN ROOT ELSE blocks[lf.blk].lnk[lf.pos]
  BY <1>2 DEF FindOK
<1> QED  BY <1>5, <1>8, <1>9 DEF StackIsPath

----------------------------------------------------------------------------
(* The levels of the tree.                                                 *)

(* The recursion of Level, and where it stays.                             *)
LEMMA LevelEquations ==
  ASSUME NEW T, ROOT \in T, \A b \in T : Children(b) \subseteq T
  PROVE  /\ Level \in [0 .. MaxDepth -> SUBSET T] /\ Level[0] = {ROOT}
         /\ \A d \in 1 .. MaxDepth :
              Level[d] = UNION {Children(b) : b \in Level[d - 1]}
<1> DEFINE S == SUBSET T
           g == [s \in S |-> UNION {Children(b) : b \in s}]
           E(f) == [d \in 0 .. MaxDepth |->
                      IF d = 0 THEN {ROOT}
                      ELSE UNION {Children(b) : b \in f[d - 1]}]
<1>1. g \in [S -> S] /\ {ROOT} \in S
  OBVIOUS
<1>2. MaxDepth \in Nat
  BY BlockConstants DEF MaxDepth
<1> HIDE DEF S, g
<1>3. PICK f \in [0 .. MaxDepth -> S] : Iterates(f, g, {ROOT}, MaxDepth)
  BY <1>1, <1>2, IterationExists
<1>4. ASSUME NEW d \in 0 .. MaxDepth
      PROVE  f[d] = IF d = 0 THEN {ROOT}
                    ELSE UNION {Children(b) : b \in f[d - 1]}
  <2>1. d = 0 => f[d] = {ROOT}
    BY <1>3 DEF Iterates
  <2>2. CASE d # 0
    <3>1. d \in 1 .. MaxDepth /\ d - 1 \in 0 .. MaxDepth
      BY <1>2, <2>2
    <3>2. f[d] = g[f[d - 1]] /\ f[d - 1] \in S
      BY <1>3, <3>1 DEF Iterates
    <3> QED  BY <2>2, <3>2 DEF g
  <2> QED  BY <2>1, <2>2
<1>5. f = E(f)
  BY <1>3, <1>4
<1>6. Level = CHOOSE h : h = E(h)
  BY DEF Level
<1> HIDE DEF E
<1>7. Level = E(Level)
  BY <1>5, <1>6
<1> USE DEF E
<1>8. /\ Level[0] = {ROOT} /\ DOMAIN Level = 0 .. MaxDepth
      /\ \A d \in 1 .. MaxDepth :
           Level[d] = UNION {Children(b) : b \in Level[d - 1]}
  BY <1>2, <1>7
<1> HIDE DEF E
<1> DEFINE D == {d \in Nat : d <= MaxDepth => Level[d] \in SUBSET T}
<1>9. 0 \in D
  BY <1>8
<1>10. ASSUME NEW d \in Nat, d \in D PROVE d + 1 \in D
  <2> SUFFICES ASSUME d + 1 <= MaxDepth PROVE Level[d + 1] \in SUBSET T
    OBVIOUS
  <2>1. d + 1 \in 1 .. MaxDepth /\ Level[d] \in SUBSET T /\ d + 1 - 1 = d
    BY <1>2, <1>10
  <2>2. Level[d + 1] = UNION {Children(b) : b \in Level[d]}
    BY <1>8, <2>1
  <2> QED  BY <2>1, <2>2
<1> HIDE DEF D
<1>11. Nat \subseteq D
  BY <1>9, <1>10, SetInduction
<1>12. \A d \in 0 .. MaxDepth : Level[d] \in SUBSET T
  BY <1>2, <1>11 DEF D
<1>13. Level = [d \in 0 .. MaxDepth |-> Level[d]]
  BY <1>7 DEF E
<1> QED  BY <1>8, <1>12, <1>13

(* The children of a block of the tree: one level lower, none of a leaf,   *)
(* one more than there are keys of an interior block.                      *)
LEMMA ChildrenOf ==
  ASSUME NEW w, Sound(blocks), Tree(blocks, w), NEW b \in Used(blocks)
  PROVE  /\ Children(b) \subseteq Used(blocks)
         /\ \A c \in Children(b) : w.h[c] = w.h[b] - 1
         /\ w.h[b] = 0 => Children(b) = {}
         /\ w.h[b] # 0 =>
              /\ Children(b) = {blocks[b].lnk[i] : i \in 0 .. blocks[b].nkeys}
              /\ blocks[b].lnk[0] \in Children(b)
<1>1. /\ w.h[b] \in Nat /\ NodeOK(blocks, w, b)
      /\ blocks[b] \in Block /\ blocks[b].nkeys \in 0 .. MXKEY
      /\ blocks[b].nkeys \in Nat
  BY UsedBlock, UsedWitness
<1>2. CASE w.h[b] = 0
  <2>1. \A i \in 0 .. blocks[b].nkeys : blocks[b].lnk[i] = ZNULL
    BY <1>1, <1>2, BlockConstants DEF NodeOK, NoLinks
  <2>2. Children(b) = {}
    BY <2>1 DEF Children
  <2> QED  BY <1>2, <2>2
<1>3. CASE w.h[b] # 0
  <2>1. \A i \in 0 .. blocks[b].nkeys :
          /\ blocks[b].lnk[i] \in Used(blocks) \ {ROOT}
          /\ w.h[blocks[b].lnk[i]] = w.h[b] - 1
    BY <1>1, <1>3 DEF NodeOK, Kid
  <2>2. \A c \in Used(blocks) : c # ZNULL
    BY UsedBlock
  <2>3. Children(b) = {blocks[b].lnk[i] : i \in 0 .. blocks[b].nkeys}
    BY <2>1, <2>2 DEF Children
  <2>4. 0 \in 0 .. blocks[b].nkeys
    BY <1>1
  <2> QED  BY <1>3, <2>1, <2>3, <2>4
<1> QED  BY <1>2, <1>3

(* A level is a set of blocks of one height.                               *)
LEMMA Levels ==
  ASSUME NEW w, Sound(blocks), Tree(blocks, w)
  PROVE  /\ Reached \subseteq Used(blocks)
         /\ \A d \in 0 .. MaxDepth : \A b \in Level[d] :
              b \in Used(blocks) /\ w.h[b] = w.h[ROOT] - d
<1>1. /\ ROOT \in Used(blocks)
      /\ \A b \in Used(blocks) : Children(b) \subseteq Used(blocks)
  BY ChildrenOf DEF Used
<1>2. /\ Level \in [0 .. MaxDepth -> SUBSET Used(blocks)] /\ Level[0] = {ROOT}
      /\ \A d \in 1 .. MaxDepth :
           Level[d] = UNION {Children(b) : b \in Level[d - 1]}
  BY <1>1, LevelEquations
<1>3. MaxDepth \in Nat /\ w.h[ROOT] \in Nat
  BY BlockConstants, RootHeight DEF MaxDepth
<1> DEFINE D == {d \in Nat : d <= MaxDepth =>
                   \A b \in Level[d] : w.h[b] = w.h[ROOT] - d}
<1>4. 0 \in D
  BY <1>2, <1>3
<1>5. ASSUME NEW d \in Nat, d \in D PROVE d + 1 \in D
  <2> SUFFICES ASSUME d + 1 <= MaxDepth, NEW c \in Level[d + 1]
               PROVE  w.h[c] = w.h[ROOT] - (d + 1)
    OBVIOUS
  <2>1. d + 1 \in 1 .. MaxDepth /\ d + 1 - 1 = d /\ d \in 0 .. MaxDepth
    BY <1>3
  <2>2. PICK b \in Level[d] : c \in Children(b)
    BY <1>2, <2>1
  <2>3. b \in Used(blocks) /\ w.h[b] = w.h[ROOT] - d
    BY <1>2, <1>5, <2>1, <2>2
  <2>4. w.h[c] = w.h[b] - 1
    BY <2>2, <2>3, ChildrenOf
  <2> QED  BY <1>3, <2>3, <2>4
<1> HIDE DEF D
<1>6. Nat \subseteq D
  BY <1>4, <1>5, SetInduction
<1>7. \A d \in 0 .. MaxDepth : \A b \in Level[d] :
        b \in Used(blocks) /\ w.h[b] = w.h[ROOT] - d
  BY <1>2, <1>3, <1>6 DEF D
<1> QED  BY <1>7 DEF Reached

----------------------------------------------------------------------------
(* The free list.                                                          *)

(* A free list in the sense of FreeIs is no longer than the file.          *)
LEMMA FreeCount ==
  ASSUME NEW B, NEW s, NEW f, FreeIs(B, s, f)
  PROVE  /\ s.nfree \in Nat /\ s.nfree <= MAXBLK
         /\ Cardinality({f[i] : i \in 1 .. s.nfree}) = s.nfree
<1> DEFINE F == {f[i] : i \in 1 .. s.nfree}
<1>1. /\ s.nfree \in Nat /\ f \in [1 .. s.nfree -> Child]
      /\ \A i, j \in 1 .. s.nfree : f[i] = f[j] => i = j
  BY DEF FreeIs
<1>2. f \in Bijection(1 .. s.nfree, F)
  <2>1. f \in [1 .. s.nfree -> F]
    BY <1>1
  <2>2. f \in Injection(1 .. s.nfree, F)
    BY <1>1, <2>1 DEF Injection, IsInjective
  <2>3. f \in Surjection(1 .. s.nfree, F)
    BY <2>1 DEF Surjection
  <2> QED  BY <2>2, <2>3 DEF Bijection
<1>3. ExistsBijection(1 .. s.nfree, F)
  BY <1>2 DEF ExistsBijection
<1>4. Cardinality(F) = s.nfree
  BY <1>1, <1>3, FS_CountingElements
<1>5. F \subseteq 0 .. MAXBLK
  BY <1>1, BlockConstants DEF Child
<1>6. MAXBLK \in Nat
  BY BlockConstants
<1> HIDE DEF F
<1>7. F \in SUBSET Nat /\ \A b \in F : b <= MAXBLK - 1
  BY <1>1, <1>6 DEF Child, F
<1>8. PICK m \in Nat : m = MAXBLK - 1
  BY BlockConstants
<1>9. Cardinality(F) <= m + 1
  BY <1>7, <1>8, FS_BoundedSetOfNaturals
<1> QED  BY <1>1, <1>4, <1>6, <1>8, <1>9 DEF F

(* FreeList is that list.                                                  *)
LEMMA FreeListIs ==
  ASSUME NEW f, FreeIs(blocks, super, f), blocks \in [Link -> Block]
  PROVE  FreeList = {f[i] : i \in 1 .. super.nfree}
<1> DEFINE S == ChildOrNull
           g == [b \in S |-> Read(blocks, b).nxt]
           E(h) == [n \in 0 .. MAXBLK |->
                      IF n = 0 THEN super.freep ELSE Read(blocks, h[n - 1]).nxt]
           N == super.nfree
           P(n) == IF n < N THEN f[n + 1] ELSE ZNULL
           L == CHOOSE h : h = E(h)
<1>1. /\ N \in Nat /\ f \in [1 .. N -> Child] /\ N <= MAXBLK
      /\ super.freep = IF N = 0 THEN ZNULL ELSE f[1]
      /\ \A i \in 1 .. N : blocks[f[i]].nxt = IF i = N THEN ZNULL ELSE f[i + 1]
  <2>1. N \in Nat /\ N <= MAXBLK
    BY FreeCount
  <2> QED  BY <2>1 DEF FreeIs
<1>2. super.freep \in S
  BY <1>1 DEF ChildOrNull
<1>3. \A b \in S : Read(blocks, b).nxt \in S
  <2> TAKE b \in S
  <2>1. b \in TreeBlk \cup {ZNULL}
    BY DEF TreeBlk, ChildOrNull
  <2> QED  BY <2>1, ReadBlock, BlockFacts
<1>4. g \in [S -> S] /\ MAXBLK \in Nat
  BY <1>3, BlockConstants
<1> HIDE DEF S, g
<1>5. PICK h \in [0 .. MAXBLK -> S] : Iterates(h, g, super.freep, MAXBLK)
  BY <1>2, <1>4, IterationExists
<1>6. ASSUME NEW n \in 0 .. MAXBLK
      PROVE  h[n] = IF n = 0 THEN super.freep ELSE Read(blocks, h[n - 1]).nxt
  <2>1. n = 0 => h[n] = super.freep
    BY <1>5 DEF Iterates
  <2>2. CASE n # 0
    <3>1. n \in 1 .. MAXBLK /\ n - 1 \in 0 .. MAXBLK
      BY <1>4, <2>2
    <3>2. h[n] = g[h[n - 1]] /\ h[n - 1] \in S
      BY <1>5, <3>1 DEF Iterates
    <3> QED  BY <2>2, <3>2 DEF g
  <2> QED  BY <2>1, <2>2
<1>7. h = E(h)
  BY <1>5, <1>6
<1> HIDE DEF E
<1>8. L = E(L)
  BY <1>7
<1>9. FreeList = {L[n] : n \in 0 .. MAXBLK} \ {ZNULL}
  BY DEF FreeList, E
<1> HIDE DEF L
<1>10. \A n \in 0 .. MAXBLK :
         L[n] = IF n = 0 THEN super.freep ELSE Read(blocks, L[n - 1]).nxt
  BY <1>8 DEF E
<1> HIDE DEF N
<1> DEFINE D == {n \in Nat : n <= MAXBLK => L[n] = P(n)}
<1>11. 0 \in D
  BY <1>1, <1>4, <1>10
<1>12. ASSUME NEW n \in Nat, n \in D PROVE n + 1 \in D
  <2> SUFFICES ASSUME n + 1 <= MAXBLK PROVE L[n + 1] = P(n + 1)
    OBVIOUS
  <2>1. n + 1 \in 0 .. MAXBLK /\ n <= MAXBLK /\ n + 1 # 0 /\ n + 1 - 1 = n
    BY <1>4
  <2>2. L[n + 1] = Read(blocks, L[n]).nxt /\ L[n] = P(n)
    BY <1>10, <1>12, <2>1
  <2>3. CASE n < N
    <3>1. n + 1 \in 1 .. N /\ L[n] = f[n + 1] /\ f[n + 1] \in Child
      BY <1>1, <2>2, <2>3
    <3>2. f[n + 1] # ZNULL
      BY <3>1, BlockNumbers DEF Child, ZNULL
    <3>3. Read(blocks, f[n + 1]).nxt =
            IF n + 1 = N THEN ZNULL ELSE f[n + 1 + 1]
      BY <1>1, <3>1, <3>2 DEF Read
    <3> QED  BY <1>1, <2>2, <3>1, <3>3
  <2>4. CASE ~(n < N)
    <3>1. L[n] = ZNULL
      BY <2>2, <2>4
    <3>2. Read(blocks, ZNULL).nxt = ZNULL
      BY DEF Read, NoBlock, FreshBlock
    <3>3. ~(n + 1 < N)
      BY <1>1, <2>4
    <3> QED  BY <2>2, <3>1, <3>2, <3>3
  <2> QED  BY <2>3, <2>4
<1> HIDE DEF D
<1>13. Nat \subseteq D
  BY <1>11, <1>12, SetInduction
<1>14. \A n \in 0 .. MAXBLK : L[n] = P(n)
  BY <1>4, <1>13 DEF D
<1>15. \A i \in 1 .. N : f[i] \in Child /\ f[i] # ZNULL
  BY <1>1 DEF Child, ZNULL
<1>16. FreeList = {f[i] : i \in 1 .. N}
  <2>1. ASSUME NEW b \in FreeList PROVE \E i \in 1 .. N : b = f[i]
    <3>1. PICK n \in 0 .. MAXBLK : b = P(n) /\ b # ZNULL
      BY <1>9, <1>14
    <3>2. n < N /\ n + 1 \in 1 .. N /\ b = f[n + 1]
      BY <1>1, <3>1
    <3> QED  BY <3>2
  <2>2. ASSUME NEW i \in 1 .. N PROVE f[i] \in FreeList
    <3>1. i - 1 \in 0 .. MAXBLK /\ P(i - 1) = f[i]
      BY <1>1, <1>4
    <3> QED  BY <1>9, <1>14, <1>15, <3>1
  <2> QED  BY <2>1, <2>2
<1> QED  BY <1>16 DEF N

(* FreeListSound follows from the invariant.                               *)
LEMMA FreeStands ==
  ASSUME IInv, TInv
  PROVE  FreeListSound
<1> SUFFICES ASSUME ~spoiled PROVE FreeListSound
  BY DEF FreeListSound
<1>1. PICK w : Tree(blocks, w)
  BY DEF TInv, TreeInv
<1>2. PICK f : FreeIs(blocks, super, f)
  BY DEF TInv, FileOK
<1>3. Sound(blocks) /\ blocks \in [Link -> Block]
  BY DEF IInv, TypeOK, RootIsRoot, Sound
<1>4. \A b \in Used(blocks) : b < super.blkmx
  BY DEF TInv, FileOK
<1>5. FreeList = {f[i] : i \in 1 .. super.nfree}
  BY <1>2, <1>3, FreeListIs
<1>6. Cardinality(FreeList) = super.nfree
  BY <1>2, <1>5, FreeCount
<1>7. \A b \in FreeList : blocks[b].type = "free" /\ b < super.blkmx
  BY <1>2, <1>5 DEF FreeIs
<1>8. \A b \in Reached : b \in Used(blocks)
  BY <1>1, <1>3, Levels
<1>9. \A b \in Used(blocks) : blocks[b].type \in {"root", "inuse"}
  BY <1>3, UsedBlock
<1> QED  BY <1>4, <1>6, <1>7, <1>8, <1>9 DEF FreeListSound

----------------------------------------------------------------------------
(* The search.                                                             *)

(* Below a block of height n there is one of every smaller height, so no   *)
(* block is higher than the file has blocks.                               *)
LEMMA HeightBound ==
  ASSUME NEW w, Sound(blocks), Tree(blocks, w)
  PROVE  w.h[ROOT] \in Nat /\ w.h[ROOT] < MAXBLK
<1> DEFINE H == w.h[ROOT]
           D == {d \in Nat : d <= H => \E b \in Used(blocks) : w.h[b] = H - d}
<1>1. H \in Nat
  BY RootHeight
<1>2. 0 \in D
  BY <1>1 DEF Used
<1>3. ASSUME NEW d \in Nat, d \in D PROVE d + 1 \in D
  <2> SUFFICES ASSUME d + 1 <= H
               PROVE  \E b \in Used(blocks) : w.h[b] = H - (d + 1)
    OBVIOUS
  <2>1. PICK b \in Used(blocks) : w.h[b] = H - d
    BY <1>1, <1>3
  <2>2. w.h[b] # 0
    BY <1>1, <2>1
  <2>3. PICK c : c \in Children(b)
    BY <2>2, ChildrenOf
  <2>4. c \in Used(blocks) /\ w.h[c] = w.h[b] - 1
    BY <2>3, ChildrenOf
  <2> QED  BY <1>1, <2>1, <2>4
<1> HIDE DEF D
<1>4. Nat \subseteq D
  BY <1>2, <1>3, SetInduction
<1>5. \A n \in 0 .. H : \E b \in Used(blocks) : w.h[b] = n
  <2> TAKE n \in 0 .. H
  <2>1. H - n \in Nat /\ H - n <= H /\ H - (H - n) = n
    BY <1>1
  <2> QED  BY <1>4, <2>1 DEF D
<1> DEFINE f == [n \in 0 .. H |-> CHOOSE b \in Used(blocks) : w.h[b] = n]
<1>6. \A n \in 0 .. H : f[n] \in Used(blocks) /\ w.h[f[n]] = n
  BY <1>5
<1> HIDE DEF H
<1>7. f \in [0 .. H -> Link]
  <2>1. \A n \in 0 .. H : f[n] \in Link
    BY <1>6, UsedBlock
  <2> QED  BY <2>1
<1> HIDE DEF f
<1>8. IsFiniteSet(0 .. H) /\ Cardinality(0 .. H) = H + 1
  BY <1>1, FS_Interval
<1>9. IsFiniteSet(Link) /\ Cardinality(Link) = MAXBLK
  BY BlockConstants, UpTo DEF Link
<1>10. ~(Cardinality(Link) < Cardinality(0 .. H))
  <2> SUFFICES ASSUME Cardinality(Link) < Cardinality(0 .. H) PROVE FALSE
    OBVIOUS
  <2>1. \E x, y \in 0 .. H : x # y /\ f[x] = f[y]
    BY <1>7, <1>8, <1>9, FS_PigeonHole
  <2> QED  BY <1>6, <2>1
<1> QED  BY <1>1, <1>8, <1>9, <1>10, BlockConstants DEF H

(* One turn of the search for key k at a block.                            *)
Onward(k, at) ==
  LET b == blocks[at]
      c == IF b.nkeys = 0 THEN ZNULL ELSE b.lnk[Gap(b, k)]
  IN  IF Hit(b, k) \/ c = ZNULL THEN at ELSE c

(* The blocks of a search for k that stays in T.                           *)
Searches(P, k, T) ==
  /\ P \in [0 .. MAXBLK -> T] /\ Home(k) = P[MAXBLK] /\ P[0] = ROOT
  /\ \A d \in 1 .. MAXBLK : P[d] = Onward(k, P[d - 1])

(* Home(k) is where a search for k from the root has come after as many    *)
(* turns as there can be levels.                                           *)
LEMMA HomeIterates ==
  ASSUME NEW k, NEW T, ROOT \in T, \A b \in T : Onward(k, b) \in T
  PROVE  \E P : Searches(P, k, T)
<1> DEFINE g == [b \in T |-> Onward(k, b)]
           E(f) == [d \in 0 .. MAXBLK |->
                      IF d = 0 THEN ROOT ELSE Onward(k, f[d - 1])]
           P == CHOOSE h : h = E(h)
<1>1. g \in [T -> T] /\ MAXBLK \in Nat
  BY BlockConstants
<1> HIDE DEF g
<1>2. PICK f \in [0 .. MAXBLK -> T] : Iterates(f, g, ROOT, MAXBLK)
  BY <1>1, IterationExists
<1>3. ASSUME NEW d \in 0 .. MAXBLK
      PROVE  f[d] = IF d = 0 THEN ROOT ELSE Onward(k, f[d - 1])
  <2>1. d = 0 => f[d] = ROOT
    BY <1>2 DEF Iterates
  <2>2. CASE d # 0
    <3>1. d \in 1 .. MAXBLK /\ d - 1 \in 0 .. MAXBLK
      BY <1>1, <2>2
    <3>2. f[d] = g[f[d - 1]] /\ f[d - 1] \in T
      BY <1>2, <3>1 DEF Iterates
    <3> QED  BY <2>2, <3>2 DEF g
  <2> QED  BY <2>1, <2>2
<1>4. f = E(f)
  BY <1>2, <1>3
<1>5. Home(k) = P[MAXBLK]
  BY DEF Home, Onward
<1> HIDE DEF E
<1>6. P = E(P)
  BY <1>4
<1> HIDE DEF P
<1>7. /\ P = [d \in 0 .. MAXBLK |-> P[d]] /\ P[0] = ROOT
      /\ \A d \in 1 .. MAXBLK : P[d] = Onward(k, P[d - 1])
  BY <1>1, <1>6, SMTT(30) DEF E
<1> DEFINE D == {d \in Nat : d <= MAXBLK => P[d] \in T}
<1>8. 0 \in D
  BY <1>7
<1>9. ASSUME NEW d \in Nat, d \in D PROVE d + 1 \in D
  <2> SUFFICES ASSUME d + 1 <= MAXBLK PROVE P[d + 1] \in T
    OBVIOUS
  <2>1. d + 1 \in 1 .. MAXBLK /\ P[d] \in T /\ d + 1 - 1 = d
    BY <1>1, <1>9
  <2>2. PICK e \in 1 .. MAXBLK : e = d + 1 /\ e - 1 = d
    BY <2>1
  <2>3. P[e] = Onward(k, P[e - 1])
    BY <1>7
  <2>4. Onward(k, P[d]) \in T
    BY <2>1
  <2> QED  BY <2>2, <2>3, <2>4
<1> HIDE DEF D
<1>10. Nat \subseteq D
  BY <1>8, <1>9, SetInduction
<1>11. P \in [0 .. MAXBLK -> T]
  BY <1>1, <1>7, <1>10 DEF D
<1> QED  BY <1>5, <1>7, <1>11 DEF Searches

(* The search for a key of block b comes to b, and does not leave it.      *)
LEMMA SearchTurn ==
  ASSUME NEW w, Sound(blocks), Tree(blocks, w), KeysBounded,
         \A a \in Used(blocks) : w.h[a] # 0 => blocks[a].nkeys # 0,
         NEW b \in Used(blocks), NEW i \in 0 .. blocks[b].nkeys - 1,
         NEW k, k = KeyAt(blocks[b], i),
         NEW a \in Used(blocks), Spans(w, a, k), w.h[b] <= w.h[a]
  PROVE  /\ a = b => Onward(k, a) = a
         /\ w.h[a] = w.h[b] => a = b
         /\ w.h[b] < w.h[a] =>
              /\ Onward(k, a) \in Used(blocks) /\ Spans(w, Onward(k, a), k)
              /\ w.h[Onward(k, a)] = w.h[a] - 1
<1>1. /\ w.h[a] \in Nat /\ w.lo[a] \in Int /\ w.hi[a] \in Int
      /\ NodeOK(blocks, w, a) /\ blocks[a] \in Block
      /\ w.h[b] \in Nat /\ w.lo[b] \in Int /\ w.hi[b] \in Int
      /\ NodeOK(blocks, w, b) /\ blocks[b] \in Block /\ k \in Int
  BY UsedWitness, UsedBlock
<1>2. Sorted(blocks[a]) /\ Within(blocks[a], w.lo[a], w.hi[a])
  BY <1>1 DEF NodeOK
<1>3. Spans(w, b, k)
  BY <1>1 DEF NodeOK, Within, Spans
<1>4. /\ Hit(blocks[a], k) <=>
           \E j \in 0 .. blocks[a].nkeys - 1 : KeyAt(blocks[a], j) = k
      /\ ~Hit(blocks[a], k) =>
           /\ From(blocks[a], w.lo[a], Gap(blocks[a], k)) < k
           /\ k < To(blocks[a], w.hi[a], Gap(blocks[a], k))
  BY <1>1, <1>2, GapFences DEF Spans
<1>5. a = b => Onward(k, a) = a
  BY <1>4 DEF Onward
<1>6. w.h[a] = w.h[b] => a = b
  BY <1>1, <1>3 DEF Tree, Apart, Spans
<1>7. CASE w.h[b] < w.h[a]
  <2>1. \A j \in 0 .. blocks[a].nkeys - 1 : Clear(w, b, KeyAt(blocks[a], j))
    BY <1>7 DEF Tree, Apart
  <2>2. ~Clear(w, b, k)
    BY <1>1, <1>3 DEF Clear, Spans
  <2>3. ~Hit(blocks[a], k)
    BY <1>4, <2>1, <2>2
  <2>4. PICK g : g = Gap(blocks[a], k)
    OBVIOUS
  <2>5. g \in 0 .. blocks[a].nkeys
    <3>1. Gap(blocks[a], k) \in 0 .. blocks[a].nkeys
      BY <1>1, <1>2, GapSeparates
    <3> QED  BY <2>4, <3>1
  <2>6. w.h[a] # 0 /\ blocks[a].nkeys # 0
    BY <1>1, <1>7
  <2>7. Kid(blocks, w, blocks[a].lnk[g], w.h[a] - 1,
            From(blocks[a], w.lo[a], g), To(blocks[a], w.hi[a], g))
    BY <1>1, <2>5, <2>6 DEF NodeOK
  <2>8. PICK c : c = blocks[a].lnk[g]
    OBVIOUS
  <2>9. /\ c \in Used(blocks) /\ w.h[c] = w.h[a] - 1 /\ Spans(w, c, k)
    BY <1>4, <2>3, <2>4, <2>7, <2>8 DEF Kid, Spans
  <2>10. c # ZNULL
    BY <2>9, UsedBlock
  <2>11. Onward(k, a) = c
    BY <2>3, <2>4, <2>6, <2>8, <2>10 DEF Onward
  <2> QED  BY <1>1, <1>5, <1>7, <2>9, <2>11
<1> QED  BY <1>1, <1>5, <1>6, <1>7

(* The search for a key of block b ends in b.                              *)
LEMMA SearchEnds ==
  ASSUME NEW w, Sound(blocks), Tree(blocks, w), KeysBounded,
         \A a \in Used(blocks) : w.h[a] # 0 => blocks[a].nkeys # 0,
         NEW b \in Used(blocks), NEW i \in 0 .. blocks[b].nkeys - 1,
         NEW k, k = KeyAt(blocks[b], i)
  PROVE  Home(k) = b
<1> DEFINE T == {a \in Used(blocks) : Spans(w, a, k) /\ w.h[b] <= w.h[a]}
           H == w.h[ROOT]
<1>1. /\ w.h[b] \in Nat /\ H \in Nat /\ w.h[b] <= H /\ H < MAXBLK
      /\ MAXBLK \in Nat
  BY UsedWitness, HeightBound, BlockConstants
<1>2. /\ ROOT \in Used(blocks) /\ w.lo[ROOT] = Low /\ w.hi[ROOT] = High
      /\ k \in Key
  BY UsedBlock DEF Tree, Used
<1>3. ROOT \in T
  BY <1>1, <1>2, EndsOfKeys DEF Spans
<1>4. ASSUME NEW a \in T PROVE Onward(k, a) \in T
  <2>1. w.h[a] \in Nat
    BY UsedWitness
  <2>2. CASE w.h[b] < w.h[a]
    BY <1>1, <1>4, <2>1, <2>2, SearchTurn
  <2>3. CASE w.h[b] = w.h[a]
    BY <1>1, <1>4, <2>1, <2>3, SearchTurn
  <2> QED  BY <1>1, <1>4, <2>1, <2>2, <2>3
<1> HIDE DEF T, H
<1>5. PICK P \in [0 .. MAXBLK -> T] :
        /\ Home(k) = P[MAXBLK] /\ P[0] = ROOT
        /\ \A d \in 1 .. MAXBLK : P[d] = Onward(k, P[d - 1])
  <2>1. \E P : Searches(P, k, T)
    BY <1>3, <1>4, HomeIterates
  <2> QED  BY <2>1 DEF Searches
<1> DEFINE D == {d \in Nat : d <= MAXBLK =>
                   w.h[P[d]] = IF d <= H - w.h[b] THEN H - d ELSE w.h[b]}
<1>6. 0 \in D
  BY <1>1, <1>5 DEF H
<1>7. ASSUME NEW d \in Nat, d \in D PROVE d + 1 \in D
  <2> USE DEF D
  <2> SUFFICES ASSUME d + 1 <= MAXBLK
               PROVE  w.h[P[d + 1]] = IF d + 1 <= H - w.h[b]
                                      THEN H - (d + 1) ELSE w.h[b]
    OBVIOUS
  <2>1. PICK a : a = P[d]
    OBVIOUS
  <2>2. /\ d \in 0 .. MAXBLK /\ d + 1 \in 1 .. MAXBLK /\ d + 1 - 1 = d
        /\ d <= MAXBLK
    BY <1>1
  <2>3. a \in T /\ P[d + 1] = Onward(k, a)
    BY <1>5, <2>1, <2>2
  <2>4. w.h[a] = IF d <= H - w.h[b] THEN H - d ELSE w.h[b]
    BY <1>7, <2>1, <2>2
  <2>5. a \in Used(blocks) /\ Spans(w, a, k) /\ w.h[b] <= w.h[a]
    BY <2>3 DEF T
  <2>6. /\ a = b => Onward(k, a) = a
        /\ w.h[a] = w.h[b] => a = b
        /\ w.h[b] < w.h[a] => w.h[Onward(k, a)] = w.h[a] - 1
    BY <2>5, SearchTurn
  <2>7. CASE w.h[b] < w.h[a]
    BY <1>1, <2>3, <2>4, <2>6, <2>7
  <2>8. CASE w.h[b] = w.h[a]
    BY <1>1, <2>3, <2>4, <2>6, <2>8
  <2> QED  BY <1>1, <2>4, <2>5, <2>7, <2>8
<1> HIDE DEF D
<1>8. Nat \subseteq D
  BY <1>6, <1>7, SetInduction
<1>9. w.h[P[MAXBLK]] = w.h[b]
  BY <1>1, <1>8 DEF D
<1>10. P[MAXBLK] \in T
  BY <1>1, <1>5
<1>11. P[MAXBLK] = b
  <2>1. PICK a : a = P[MAXBLK]
    OBVIOUS
  <2>2. a \in Used(blocks) /\ Spans(w, a, k) /\ w.h[b] <= w.h[a]
    BY <1>10, <2>1 DEF T
  <2>3. w.h[a] = w.h[b]
    BY <1>9, <2>1
  <2> QED  BY <2>1, <2>2, <2>3, SearchTurn
<1> QED  BY <1>5, <1>11

(* SearchTree follows from the invariant.                                  *)
LEMMA SearchStands ==
  ASSUME KeysBounded, IInv, TInv
  PROVE  SearchTree
<1> SUFFICES ASSUME ~spoiled, pc # "demote",
                    NEW b \in Reached, NEW i \in 0 .. blocks[b].nkeys - 1,
                    NEW k, k = blocks[b].ent[i].key
             PROVE  /\ b = Home(k) /\ Gap(blocks[b], k) = i
                    /\ \A c \in Reached \ {b} : \A e \in EntsOf(c) : e.key # k
  BY DEF SearchTree
<1>1. PICK w : Tree(blocks, w) /\ InteriorOK(blocks, w, lf, pc)
  BY DEF TInv, TreeInv
<1>2. Sound(blocks)
  BY DEF IInv, TypeOK, RootIsRoot, Sound
<1>3. Reached \subseteq Used(blocks) /\ b \in Used(blocks)
  BY <1>1, <1>2, Levels
<1>4. \A a \in Used(blocks) : w.h[a] # 0 => blocks[a].nkeys # 0
  BY <1>1 DEF InteriorOK
<1>5. k = KeyAt(blocks[b], i)
  BY DEF KeyAt
<1>6. Home(k) = b
  BY <1>1, <1>2, <1>3, <1>4, <1>5, SearchEnds
<1>7. /\ blocks[b] \in Block /\ k \in Int /\ Sorted(blocks[b])
      /\ w.lo[b] \in Int /\ w.hi[b] \in Int
      /\ Within(blocks[b], w.lo[b], w.hi[b])
  BY <1>1, <1>2, <1>3, <1>5, UsedBlock, UsedWitness DEF NodeOK
<1>8. Gap(blocks[b], k) = i
  <2>1. /\ \A j \in 0 .. blocks[b].nkeys - 1 : KeyAt(blocks[b], j) \in Int
        /\ blocks[b].nkeys \in Nat
    BY <1>7, BlockKeys
  <2>2. /\ Gap(blocks[b], k) \in 0 .. blocks[b].nkeys
        /\ \A j \in 0 .. blocks[b].nkeys - 1 :
             (j < Gap(blocks[b], k)) <=> (KeyAt(blocks[b], j) < k)
    BY <1>7, GapSeparates
  <2>3. \A j \in 0 .. blocks[b].nkeys - 1 :
          (j < i) <=> (KeyAt(blocks[b], j) < k)
    BY <1>5, <1>7, <2>1 DEF Sorted
  <2> QED  BY <2>1, <2>2, <2>3
<1>9. ASSUME NEW c \in Reached \ {b}, NEW j \in 0 .. blocks[c].nkeys - 1
      PROVE  KeyAt(blocks[c], j) # k
  <2>1. PICK v : v = KeyAt(blocks[c], j)
    OBVIOUS
  <2>2. Home(v) = c
    BY <1>1, <1>2, <1>3, <1>4, <2>1, SearchEnds
  <2> QED  BY <1>6, <2>1, <2>2
<1>10. \A c \in Reached \ {b} : \A e \in EntsOf(c) : e.key # k
  BY <1>9 DEF EntsOf, KeyAt
<1> QED  BY <1>6, <1>8, <1>10

----------------------------------------------------------------------------
(* No leaf stays empty.                                                    *)

(* The sizes for which a leaf that lost its last key is joined or gets     *)
(* keys of its sister.                                                     *)
Roomy == \/ MXKEY = 3 /\ THRES = 0
         \/ MXKEY >= 4 /\ THRES < MXKEY - MXKEY \div 2

(* Store B has no empty block below a root, but for the block of the last  *)
(* find f while routine p is about to deal with it.                        *)
NoEmpty(B, p, f) ==
  \A b \in Child : B[b].type = "inuse" /\ B[b].nkeys = 0 =>
    p \in {"join", "balance", "demote"} /\ b = f.blk

LInv ==
  ~spoiled =>
    /\ NoEmpty(blocks, pc, lf)
    /\ pc = "balance" => ~CanJoinRight /\ ~CanJoinLeft

(* What a step must show of the blocks it writes.                          *)
LEMMA EmptyStep ==
  ASSUME LInv, ~spoiled, pc' # "balance", NEW W,
         \A a \in Child \ W : blocks'[a] = blocks[a],
         \A a \in Child \cap W :
           blocks'[a].type = "inuse" /\ blocks'[a].nkeys = 0 =>
             pc' \in {"join", "balance", "demote"} /\ a = lf'.blk,
         pc \in {"join", "balance", "demote"} =>
           lf.blk \in W \/ lf.blk \notin Child \/ blocks[lf.blk].nkeys # 0
  PROVE  LInv'
<1>1. NoEmpty(blocks, pc, lf)
  BY DEF LInv
<1>2. NoEmpty(blocks', pc', lf')
  BY <1>1 DEF NoEmpty
<1> QED  BY <1>2 DEF LInv

(* The same of a step that writes no block.                                *)
LEMMA EmptySame ==
  ASSUME LInv, ~spoiled, pc' # "balance", blocks' = blocks,
         pc \in {"join", "balance", "demote"} =>
           lf.blk \notin Child \/ blocks[lf.blk].nkeys # 0
  PROVE  LInv'
<1>1. NoEmpty(blocks, pc, lf)
  BY DEF LInv
<1>2. NoEmpty(blocks', pc', lf')
  BY <1>1 DEF NoEmpty
<1> QED  BY <1>2 DEF LInv

(* Init: the root may be empty.                                            *)
LEMMA LInit ==
  ASSUME Init
  PROVE  LInv
  BY BlockNumbers DEF Init, LInv, NoEmpty, FreshBlock, ROOT, Child, Link

(* A call starts: no leaf is empty.                                        *)
LEMMA LInvoke ==
  ASSUME LInv, Invoke
  PROVE  LInv'
<1>1. /\ ~spoiled /\ pc = "idle" /\ blocks' = blocks
      /\ pc' \in {"find", "delete", "update"}
  BY DEF Invoke, Bfndky, Bdelky, Binsky, Bupdky, CallByKey, BdelkyCurrent,
         BupdkyCurrent, Call, tree
<1> QED  BY <1>1, EmptySame

(* SearchBlock writes no block.                                            *)
LEMMA LSearchBlock ==
  ASSUME LInv, ~spoiled, SearchBlock
  PROVE  LInv'
<1>1. pc \in {"find", "refind"} /\ blocks' = blocks
  BY DEF SearchBlock, tree
<1>2. pc' \in {"idle", "find", "refind", "insert", "update", "delete"}
  BY <1>1 DEF SearchBlock, Found, NotFound, Return, GoOn
<1> QED  BY <1>1, <1>2, EmptySame

(* A key put in a block leaves it with one.                                *)
LEMMA PutCount ==
  ASSUME NEW b \in Block, NEW e, NEW l, NEW r
  PROVE  PutKey(b, e, l, r).nkeys \in Nat /\ PutKey(b, e, l, r).nkeys # 0
<1>1. b.nkeys \in Nat /\ MXKEY \in Nat /\ MXKEY # 0
  BY BlockFacts, BlockConstants
<1>2. b = [type |-> b.type, nkeys |-> b.nkeys, nxt |-> b.nxt,
           ent |-> b.ent, lnk |-> b.lnk]
  BY BlockFacts
<1>3. CASE Full(b)
  BY <1>1, <1>3 DEF PutKey, Full
<1>4. CASE ~Full(b)
  <2>1. PutKey(b, e, l, r).nkeys = b.nkeys + 1
    BY <1>2, <1>4 DEF PutKey
  <2> QED  BY <1>1, <2>1
<1> QED  BY <1>3, <1>4

(* SplitRoot leaves keys in both halves.                                   *)
LEMMA LSplitRoot ==
  ASSUME RoomToSplit, IInv, LInv, ~spoiled, SplitRoot
  PROVE  LInv'
<1>1. /\ pc \in {"find", "refind"} /\ blocks \in [Link -> Block]
      /\ Child \subseteq Link
  BY BlockNumbers DEF SplitRoot, IInv, TypeOK
<1>2. CASE blocks' = blocks /\ pc' # "balance"
  BY <1>1, <1>2, EmptySame
<1>3. CASE ~(blocks' = blocks /\ pc' # "balance")
  <2>1. PICK r, b1, b2, new : /\ r = Blk(ROOT) /\ b1 = GetFree(super, blocks)
                              /\ b2 = GetFree(Taken(super, blocks), blocks)
                              /\ new = FreshBlock("inuse", ZNULL)
    OBVIOUS
  <2>2. /\ pc' = pc
        /\ blocks' = [blocks EXCEPT
             ![b1] = CopyKeys(new, r, 0, Sp),
             ![b2] = CopyKeys(new, r, Sp + 1, Sp2),
             ![ROOT] = [RepKey(CopyKeys(r, r, 0, 0), 0, r.ent[Sp], b1, b2)
                          EXCEPT !.nkeys = 1]]
    BY <1>3, <2>1 DEF SplitRoot, NoSpace, Return
  <2>3. PICK x, y, z : /\ x = CopyKeys(new, r, 0, Sp)
                       /\ y = CopyKeys(new, r, Sp + 1, Sp2)
                       /\ z =
                            [RepKey(CopyKeys(r, r, 0, 0), 0, r.ent[Sp], b1, b2)
                                 EXCEPT !.nkeys = 1]
    OBVIOUS
  <2>4. x.nkeys = Sp /\ y.nkeys = Sp2
    BY <2>1, <2>3 DEF CopyKeys, FreshBlock
  <2>5. Sp # 0 /\ Sp2 # 0
    BY SplitRoom
  <2>6. PICK W : W = {b1, b2, ROOT}
    OBVIOUS
  <2>7. blocks' = [blocks EXCEPT ![b1] = x, ![b2] = y, ![ROOT] = z]
    BY <2>2, <2>3
  <2>8. \A a \in Child \ W : blocks'[a] = blocks[a]
    BY <1>1, <2>6, <2>7
  <2>9. \A a \in Child \cap W : blocks'[a].nkeys # 0
    <3>1. ROOT \notin Child
      BY DEF ROOT, Child
    <3> QED  BY <1>1, <2>4, <2>5, <2>6, <2>7, <3>1
  <2> QED  BY <1>1, <2>2, <2>8, <2>9, EmptyStep
<1> QED  BY <1>2, <1>3

(* SplitChild leaves keys in both halves.                                  *)
LEMMA LSplitChild ==
  ASSUME RoomToSplit, IInv, LInv, ~spoiled, SplitChild
  PROVE  LInv'
<1>1. /\ pc \in {"find", "refind"} /\ blocks \in [Link -> Block]
      /\ Child \subseteq Link
  BY BlockNumbers DEF SplitChild, IInv, TypeOK
<1>2. CASE blocks' = blocks /\ pc' # "balance"
  BY <1>1, <1>2, EmptySame
<1>3. CASE ~(blocks' = blocks /\ pc' # "balance")
  <2>1. PICK b, p, new : b = cblk /\ p = lf.blk /\ new = GetFree(super, blocks)
    OBVIOUS
  <2>2. pc' = pc /\ blocks' = Split(blocks, b, new, p)
    BY <1>3, <2>1 DEF SplitChild, NoSpace, GiveUp, Return, tree
  <2>3. PICK f, x, y, z :
          /\ f = Read(blocks, b) /\ y = CopyKeys(f, f, 0, Sp)
          /\ x = CopyKeys(FreshBlock("inuse", ZNULL), f, Sp + 1, Sp2)
          /\ z = PutKey(blocks[p], f.ent[Sp], b, new)
    OBVIOUS
  <2>4. f \in Block
    <3>1. b \in TreeBlk \cup {ZNULL}
      BY <2>1 DEF IInv, TypeOK
    <3> QED  BY <1>1, <2>3, <3>1, ReadBlock
  <2>5. x.nkeys = Sp2 /\ y.nkeys = Sp
    <3>1. f = [type |-> f.type, nkeys |-> f.nkeys, nxt |-> f.nxt,
               ent |-> f.ent, lnk |-> f.lnk]
      BY <2>4, BlockFacts
    <3> QED  BY <2>3, <3>1 DEF CopyKeys, FreshBlock
  <2>6. Sp # 0 /\ Sp2 # 0
    BY SplitRoom
  <2>7. p \in Link => z.nkeys # 0
    BY <1>1, <2>3, PutCount
  <2>8. PICK W : W = {new, b, p}
    OBVIOUS
  <2>9. blocks' = [blocks EXCEPT ![new] = x, ![b] = y, ![p] = z]
    BY <2>2, <2>3 DEF Split
  <2>10. \A a \in Child \ W : blocks'[a] = blocks[a]
    BY <1>1, <2>8, <2>9
  <2>11. \A a \in Child \cap W : blocks'[a].nkeys # 0
    BY <1>1, <2>5, <2>6, <2>7, <2>8, <2>9
  <2> QED  BY <1>1, <2>2, <2>10, <2>11, EmptyStep
<1> QED  BY <1>2, <1>3

(* InsertKey leaves a key.                                                 *)
LEMMA LInsertKey ==
  ASSUME IInv, LInv, ~spoiled, InsertKey
  PROVE  LInv'
<1>1. /\ pc = "insert" /\ blocks \in [Link -> Block] /\ Child \subseteq Link
      /\ pc' = "idle"
  BY BlockNumbers DEF InsertKey, GiveUp, Return, IInv, TypeOK
<1>2. CASE blocks' = blocks
  BY <1>1, <1>2, EmptySame
<1>3. CASE blocks' # blocks
  <2>1. PICK b, x : /\ b = lf.blk
                    /\ x = PutKey(blocks[b], [key |-> op.key, val |-> op.val],
                                  ZNULL, ZNULL)
    OBVIOUS
  <2>2. blocks' = [blocks EXCEPT ![b] = x]
    BY <1>3, <2>1 DEF InsertKey, GiveUp, tree
  <2>3. b \in Link => x.nkeys # 0
    BY <1>1, <2>1, PutCount
  <2>4. PICK W : W = {b}
    OBVIOUS
  <2>5. \A a \in Child \ W : blocks'[a] = blocks[a]
    BY <1>1, <2>2, <2>4
  <2>6. \A a \in Child \cap W : blocks'[a].nkeys # 0
    BY <1>1, <2>2, <2>3, <2>4
  <2> QED  BY <1>1, <2>5, <2>6, EmptyStep
<1> QED  BY <1>2, <1>3

(* UpdateKey takes no key away.                                            *)
LEMMA LUpdateKey ==
  ASSUME IInv, LInv, ~spoiled, UpdateKey
  PROVE  LInv'
<1>1. /\ pc = "update" /\ blocks \in [Link -> Block] /\ Child \subseteq Link
      /\ pc' = "idle"
  BY BlockNumbers DEF UpdateKey, Return, IInv, TypeOK
<1>2. CASE blocks' = blocks
  BY <1>1, <1>2, EmptySame
<1>3. CASE blocks' # blocks
  <2>1. PICK b, x : b = lf.blk /\ x = ModVal(blocks[b], lf.pos, op.val)
    OBVIOUS
  <2>2. blocks' = [blocks EXCEPT ![b] = x]
    BY <1>3, <2>1 DEF UpdateKey
  <2>3. b \in Link => x.nkeys = blocks[b].nkeys /\ x.type = blocks[b].type
    <3> SUFFICES ASSUME b \in Link
                 PROVE  x.nkeys = blocks[b].nkeys /\ x.type = blocks[b].type
      OBVIOUS
    <3>1. PICK y : y = blocks[b]
      OBVIOUS
    <3>2. y = [type |-> y.type, nkeys |-> y.nkeys, nxt |-> y.nxt,
               ent |-> y.ent, lnk |-> y.lnk]
      BY <1>1, <3>1, BlockFacts
    <3>3. x.nkeys = y.nkeys /\ x.type = y.type
      BY <2>1, <3>1, <3>2 DEF ModVal
    <3> QED  BY <3>1, <3>3
  <2>4. PICK W : W = {b}
    OBVIOUS
  <2>5. \A a \in Child \ W : blocks'[a] = blocks[a]
    BY <1>1, <2>2, <2>4
  <2>6. NoEmpty(blocks, pc, lf)
    BY DEF LInv
  <2>7. \A a \in Child \cap W :
           ~(blocks'[a].type = "inuse" /\ blocks'[a].nkeys = 0)
    BY <1>1, <2>2, <2>3, <2>4, <2>6 DEF NoEmpty
  <2> QED  BY <1>1, <2>5, <2>7, EmptyStep
<1> QED  BY <1>2, <1>3

(* DeleteKey empties the leaf of the last find at most, and goes on to     *)
(* join it.                                                                *)
LEMMA LDeleteKey ==
  ASSUME IInv, LInv, ~spoiled, DeleteKey
  PROVE  LInv'
<1>1. pc = "delete" /\ blocks \in [Link -> Block] /\ Child \subseteq Link
  BY BlockNumbers DEF DeleteKey, IInv, TypeOK
<1>2. CASE blocks' = blocks /\ pc' # "balance"
  BY <1>1, <1>2, EmptySame
<1>3. CASE ~(blocks' = blocks /\ pc' # "balance")
  <2>1. PICK b, x : b = lf.blk /\ x = RemKey(blocks[b], lf.pos)
    OBVIOUS
  <2>2. blocks' = [blocks EXCEPT ![b] = x] /\ AfterRemoval(lf.pos)
    BY <1>3, <2>1 DEF DeleteKey, Return, tree
  <2>3. PICK W : W = {b}
    OBVIOUS
  <2>4. \A a \in Child \ W : blocks'[a] = blocks[a]
    BY <1>1, <2>2, <2>3
  <2>5. CASE Node.type = "root"
    <3>1. pc' \in {"refind", "idle"}
      BY <2>2, <2>5 DEF AfterRemoval, Reestablish, StartFind, Return
    <3>2. b \in Child => blocks'[b].type = "root"
      <4> SUFFICES ASSUME b \in Child PROVE blocks'[b].type = "root"
        OBVIOUS
      <4>1. b \in Link /\ b # ZNULL /\ blocks[b].type = "root"
        BY <1>1, <2>1, <2>5, NodeFacts DEF Child, ZNULL
      <4>2. PICK y : y = blocks[b]
        OBVIOUS
      <4>3. y = [type |-> y.type, nkeys |-> y.nkeys, nxt |-> y.nxt,
                 ent |-> y.ent, lnk |-> y.lnk]
        BY <1>1, <4>1, <4>2, BlockFacts
      <4>4. x.type = y.type
        BY <2>1, <4>2, <4>3 DEF RemKey
      <4> QED  BY <1>1, <2>2, <4>1, <4>2, <4>4
    <3>3. \A a \in Child \cap W : blocks'[a].type # "inuse"
      BY <2>3, <3>2
    <3> QED  BY <1>1, <2>4, <3>1, <3>3, EmptyStep
  <2>6. CASE Node.type # "root"
    <3>1. pc' = "join" /\ lf' = At(b, lf.pos)
      BY <2>1, <2>2, <2>6 DEF AfterRemoval
    <3>2. lf'.blk = b
      BY <3>1 DEF At, IInv, TypeOK
    <3>3. \A a \in Child \cap W : a = lf'.blk
      BY <2>3, <3>2
    <3> QED  BY <1>1, <2>4, <3>1, <3>3, EmptyStep
  <2> QED  BY <2>5, <2>6
<1> QED  BY <1>2, <1>3

(* Descend writes no block.                                                *)
LEMMA LDescend ==
  ASSUME LInv, ~spoiled, Descend
  PROVE  LInv'
<1>1. pc = "descend" /\ blocks' = blocks /\ pc' = pc
  BY DEF Descend, tree
<1> QED  BY <1>1, EmptySame

(* ReplaceKey empties the leaf of the last find at most, and goes on to    *)
(* join it.                                                                *)
LEMMA LReplaceKey ==
  ASSUME IInv, LInv, ~spoiled, ReplaceKey
  PROVE  LInv'
<1>1. pc = "descend" /\ blocks \in [Link -> Block] /\ Child \subseteq Link
  BY BlockNumbers DEF ReplaceKey, IInv, TypeOK
<1>2. CASE blocks' = blocks /\ pc' # "balance"
  BY <1>1, <1>2, EmptySame
<1>3. CASE ~(blocks' = blocks /\ pc' # "balance")
  <2>1. PICK b, t, s, e, last, x, y, l, r :
          /\ b = lf.blk /\ t = tgt.blk /\ s = tgt.pos /\ last = lf.pos - 1
          /\ e = Node.ent[last] /\ x = RemKey(Node, last)
          /\ l = Blk(tgt.blk).lnk[tgt.pos] /\ r = Blk(tgt.blk).lnk[tgt.pos + 1]
          /\ y = RepKey(blocks[t], s, e, l, r)
    OBVIOUS
  <2>2. /\ blocks' = [blocks EXCEPT ![t] = y, ![b] = x]
        /\ AfterRemoval(last)
    BY <1>3, <2>1 DEF ReplaceKey, GiveUp, Return, tree
  <2>3. PICK W : W = {t, b}
    OBVIOUS
  <2>4. \A a \in Child \ W : blocks'[a] = blocks[a]
    BY <1>1, <2>2, <2>3
  <2>5. NoEmpty(blocks, pc, lf)
    BY DEF LInv
  <2>6. t \in Link => y.nkeys = blocks[t].nkeys /\ y.type = blocks[t].type
    <3> SUFFICES ASSUME t \in Link
                 PROVE  y.nkeys = blocks[t].nkeys /\ y.type = blocks[t].type
      OBVIOUS
    <3>1. PICK z : z = blocks[t]
      OBVIOUS
    <3>2. z = [type |-> z.type, nkeys |-> z.nkeys, nxt |-> z.nxt,
               ent |-> z.ent, lnk |-> z.lnk]
      BY <1>1, <3>1, BlockFacts
    <3>3. y.nkeys = z.nkeys /\ y.type = z.type
      BY <2>1, <3>1, <3>2 DEF RepKey
    <3> QED  BY <3>1, <3>3
  <2>7. t \in Child /\ t # b =>
          ~(blocks'[t].type = "inuse" /\ blocks'[t].nkeys = 0)
    BY <1>1, <2>2, <2>5, <2>6 DEF NoEmpty
  <2>8. CASE Node.type = "root"
    <3>1. pc' \in {"refind", "idle"}
      BY <2>2, <2>8 DEF AfterRemoval, Reestablish, StartFind, Return
    <3>2. b \in Child => blocks'[b].type = "root"
      <4> SUFFICES ASSUME b \in Child PROVE blocks'[b].type = "root"
        OBVIOUS
      <4>1. Node \in Block
        BY NodeFacts
      <4>2. PICK z : z = Node
        OBVIOUS
      <4>3. z = [type |-> z.type, nkeys |-> z.nkeys, nxt |-> z.nxt,
                 ent |-> z.ent, lnk |-> z.lnk]
        BY <4>1, <4>2, BlockFacts
      <4>4. x.type = z.type
        BY <2>1, <4>2, <4>3 DEF RemKey
      <4> QED  BY <1>1, <2>2, <2>8, <4>2, <4>4
    <3>3. \A a \in Child \cap W :
            ~(blocks'[a].type = "inuse" /\ blocks'[a].nkeys = 0)
      BY <2>3, <2>7, <3>2
    <3> QED  BY <1>1, <2>4, <3>1, <3>3, EmptyStep
  <2>9. CASE Node.type # "root"
    <3>1. pc' = "join" /\ lf' = At(b, last)
      BY <2>1, <2>2, <2>9 DEF AfterRemoval
    <3>2. lf'.blk = b
      BY <3>1 DEF At, IInv, TypeOK
    <3>3. \A a \in Child \cap W :
            blocks'[a].type = "inuse" /\ blocks'[a].nkeys = 0 => a = lf'.blk
      BY <2>3, <2>7, <3>2
    <3> QED  BY <1>1, <2>4, <3>1, <3>3, EmptyStep
  <2> QED  BY <2>8, <2>9
<1> QED  BY <1>2, <1>3

(* bjoin leaves at most the parent empty, for bdemte.                      *)
LEMMA LJoin ==
  ASSUME IInv, LInv, ~spoiled, NEW l, NEW r, NEW s, Join(l, r, s),
         lf.blk \in {l, r}, l \in TreeBlk \cup {ZNULL},
         r \in TreeBlk \cup {ZNULL}
  PROVE  LInv'
<1>1. blocks \in [Link -> Block] /\ Child \subseteq Link
  BY BlockNumbers DEF IInv, TypeOK
<1>2. PICK p, e, q, x, B1 :
        /\ p = Top.blk /\ e = Blk(p).ent[s] /\ q = RemKey(blocks[p], s)
        /\ x = AppendKeys(PutKey(Blk(l), e, ZNULL, ZNULL), Blk(r))
        /\ B1 = [blocks EXCEPT ![p] = q, ![l] = x]
  OBVIOUS
<1>3. /\ blocks' = [B1 EXCEPT ![r] = FreshBlock("free", super.freep)]
      /\ lf' = At(p, s) /\ pc' = "demote"
  BY <1>2 DEF Join, FreeBlock
<1>4. lf'.blk = p
  BY <1>3 DEF At, IInv, TypeOK
<1>5. x.nkeys # 0
  <2>1. Blk(l) \in Block /\ Blk(r) \in Block
    BY <1>1, ReadBlock DEF Blk
  <2>2. PICK y, z : y = PutKey(Blk(l), e, ZNULL, ZNULL) /\ z = Blk(r)
    OBVIOUS
  <2>3. y.nkeys \in Nat /\ y.nkeys # 0 /\ z.nkeys \in Nat
    BY <2>1, <2>2, PutCount, BlockFacts, BlockConstants
  <2>4. x.nkeys = y.nkeys + z.nkeys
    <3>1. PICK w : w = Blk(l)
      OBVIOUS
    <3>2. w = [type |-> w.type, nkeys |-> w.nkeys, nxt |-> w.nxt,
               ent |-> w.ent, lnk |-> w.lnk]
      BY <2>1, <3>1, BlockFacts
    <3>3. y = [type |-> y.type, nkeys |-> y.nkeys, nxt |-> y.nxt,
               ent |-> y.ent, lnk |-> y.lnk]
      <4>1. CASE Full(w)
        BY <2>2, <3>1, <3>2, <4>1 DEF PutKey
      <4>2. CASE ~Full(w)
        BY <2>2, <3>1, <3>2, <4>2 DEF PutKey
      <4> QED  BY <4>1, <4>2
    <3> QED  BY <1>2, <2>2, <3>3 DEF AppendKeys
  <2> QED  BY <2>3, <2>4
<1>6. PICK W : W = {p, l, r}
  OBVIOUS
<1>7. \A a \in Child \ W : blocks'[a] = blocks[a]
  BY <1>1, <1>2, <1>3, <1>6
<1>8. ASSUME NEW a \in Child \cap W
      PROVE  blocks'[a].type = "inuse" /\ blocks'[a].nkeys = 0 => a = lf'.blk
  <2>1. CASE a = r
    <3>1. blocks'[a] = FreshBlock("free", super.freep)
      BY <1>1, <1>2, <1>3, <2>1
    <3> QED  BY <3>1 DEF FreshBlock
  <2>2. CASE a = l /\ a # r
    <3>1. blocks'[a] = x
      BY <1>1, <1>2, <1>3, <2>2
    <3> QED  BY <1>5, <3>1
  <2>3. CASE a = p
    BY <1>4, <2>3
  <2> QED  BY <1>6, <2>1, <2>2, <2>3
<1> QED  BY <1>3, <1>6, <1>7, <1>8, EmptyStep

(* JoinRight and JoinLeft.                                                 *)
LEMMA LJoins ==
  ASSUME IInv, LInv, ~spoiled, JoinRight \/ JoinLeft
  PROVE  LInv'
<1>1. pc = "join"
  BY DEF JoinRight, JoinLeft
<1>2. CASE JoinRight
  <2>1. PICK l, r, s : l = lf.blk /\ s = Top.pos
                       /\ r = Blk(Top.blk).lnk[Top.pos + 1]
    OBVIOUS
  <2>2. Join(l, r, s) /\ Top.pos < Blk(Top.blk).nkeys
    BY <1>2, <2>1 DEF JoinRight, CanJoinRight
  <2>3. l \in TreeBlk \cup {ZNULL} /\ r \in TreeBlk \cup {ZNULL}
    BY <1>1, <2>1, <2>2, SisterFacts DEF ChildOrNull, TreeBlk
  <2> QED  BY <2>1, <2>2, <2>3, LJoin
<1>3. CASE GiveUp("QJNSE")
  BY <1>3 DEF GiveUp, LInv
<1>4. CASE JoinLeft /\ ~GiveUp("QJNSE")
  <2>1. PICK l, r, s : r = lf.blk /\ s = Top.pos - 1
                       /\ l = Blk(Top.blk).lnk[Top.pos - 1]
    OBVIOUS
  <2>2. Join(l, r, s) /\ Top.pos > 0
    BY <1>4, <2>1 DEF JoinLeft, CanJoinLeft
  <2>3. l \in TreeBlk \cup {ZNULL} /\ r \in TreeBlk \cup {ZNULL}
    BY <1>1, <2>1, <2>2, SisterFacts DEF ChildOrNull, TreeBlk
  <2> QED  BY <2>1, <2>2, <2>3, LJoin
<1> QED  BY <1>2, <1>3, <1>4

(* NoJoin: neither sister could take the keys of the leaf.                 *)
LEMMA LNoJoin ==
  ASSUME IInv, LInv, ~spoiled, NoJoin
  PROVE  LInv'
<1>1. /\ pc = "join" /\ pc' = "balance" /\ blocks' = blocks /\ stk' = stk
      /\ ~CanJoinRight /\ ~CanJoinLeft /\ lf' = At(lf.blk, Top.pos)
  BY DEF NoJoin, tree
<1>2. lf'.blk = lf.blk
  BY <1>1 DEF At, IInv, TypeOK
<1>3. NoEmpty(blocks', pc', lf')
  BY <1>1, <1>2 DEF LInv, NoEmpty
<1>4. ~CanJoinRight' /\ ~CanJoinLeft'
  BY <1>1, <1>2 DEF CanJoinRight, CanJoinLeft, Top, Node, Blk
<1> QED  BY <1>3, <1>4 DEF LInv

(* A parent of a leaf has a key.                                           *)
LEMMA ParentKeys ==
  ASSUME IInv, TInv, ~spoiled, pc \in {"join", "balance"}
  PROVE  /\ lf.blk \in Child /\ Blk(Top.blk).nkeys \in Nat
         /\ Blk(Top.blk).nkeys # 0 /\ Top.pos \in 0 .. Blk(Top.blk).nkeys
         /\ Node.nkeys \in Nat /\ Node = blocks[lf.blk]
<1>1. PICK w : /\ Tree(blocks, w) /\ PathOK(blocks, w, stk, lf)
               /\ InteriorOK(blocks, w, lf, pc)
  BY StateWitness
<1>2. lf.blk \in Child
  BY DEF IInv, RoutineState
<1>3. /\ Top.blk \in Used(blocks) /\ w.h[Top.blk] # 0
      /\ Top.pos \in 0 .. blocks[Top.blk].nkeys
      /\ Blk(Top.blk) = blocks[Top.blk] /\ blocks[Top.blk].nkeys \in Nat
  BY <1>1, <1>2, LeafAndParent
<1>4. blocks[Top.blk].nkeys # 0
  BY <1>1, <1>3 DEF InteriorOK
<1>5. Node.nkeys \in Nat /\ Node = blocks[lf.blk]
  BY <1>2, NodeFacts, BlockFacts, BlockConstants DEF Child, ZNULL
<1> QED  BY <1>2, <1>3, <1>4, <1>5

(* The counts of two leaves after they were evened out.                    *)
LEMMA EvenedCounts ==
  ASSUME Roomy, NEW x \in Block, NEW y \in Block, NEW e,
         ~Joinable(x.nkeys, y.nkeys), Uneven(x.nkeys, y.nkeys)
  PROVE  BalLeft(x, y, e).nkeys # 0 /\ BalRight(x, y, e).nkeys # 0
<1>1. PICK n, m \in Nat : n = x.nkeys /\ m = y.nkeys
  BY BlockFacts, BlockConstants
<1>2. MXKEY \in Nat /\ THRES \in Nat
  BY BlockConstants
<1>3. ~(n + m < MXKEY - THRES) /\ Abs(n - m) > MXKEY \div 2
  BY <1>1 DEF Joinable, Uneven
<1>4. PICK k : k = Abs(n - m) \div 2 + 1
  OBVIOUS
<1>5. n < m => n + k # 0 /\ m - k # 0
  <2> SUFFICES ASSUME n < m PROVE n + k # 0 /\ m - k # 0
    OBVIOUS
  <2>1. PICK d \in Nat : d = m - n
    BY <1>1
  <2>2. Abs(n - m) = d
    BY <1>1, <2>1 DEF Abs
  <2>3. k = d \div 2 + 1 /\ d > MXKEY \div 2
    BY <1>3, <1>4, <2>2
  <2>4. CASE MXKEY = 3 /\ THRES = 0
    <3>1. d >= 2 /\ n + m >= 3
      BY <1>1, <1>3, <2>3, <2>4
    <3>2. n = 0 => d >= 3
      BY <2>1, <3>1
    <3> QED  BY <1>1, <2>1, <2>3, <3>1, <3>2
  <2>5. CASE MXKEY >= 4
    <3>1. d >= 3
      BY <1>2, <2>3, <2>5
    <3> QED  BY <1>1, <2>1, <2>3, <3>1
  <2> QED  BY <2>4, <2>5 DEF Roomy
<1>6. ~(n < m) => n - k # 0 /\ m + k # 0
  <2> SUFFICES ASSUME ~(n < m) PROVE n - k # 0 /\ m + k # 0
    OBVIOUS
  <2>1. PICK d \in Nat : d = n - m
    BY <1>1
  <2>2. Abs(n - m) = d
    BY <1>1, <2>1 DEF Abs
  <2>3. k = d \div 2 + 1 /\ d > MXKEY \div 2
    BY <1>3, <1>4, <2>2
  <2>4. CASE MXKEY = 3 /\ THRES = 0
    <3>1. d >= 2 /\ n + m >= 3
      BY <1>1, <1>3, <2>3, <2>4
    <3>2. m = 0 => d >= 3
      BY <2>1, <3>1
    <3> QED  BY <1>1, <2>1, <2>3, <3>1, <3>2
  <2>5. CASE MXKEY >= 4
    <3>1. d >= 3
      BY <1>2, <2>3, <2>5
    <3> QED  BY <1>1, <2>1, <2>3, <3>1
  <2> QED  BY <2>4, <2>5 DEF Roomy
<1>7. /\ x = [type |-> x.type, nkeys |-> x.nkeys, nxt |-> x.nxt,
              ent |-> x.ent, lnk |-> x.lnk]
      /\ y = [type |-> y.type, nkeys |-> y.nkeys, nxt |-> y.nxt,
              ent |-> y.ent, lnk |-> y.lnk]
  BY BlockFacts
<1>8. Moved(x, y) + 1 = k
  BY <1>1, <1>4 DEF Moved
<1>9. /\ BalLeft(x, y, e).nkeys = IF n < m THEN n + k ELSE n - k
      /\ BalRight(x, y, e).nkeys = IF n < m THEN m - k ELSE m + k
  BY <1>1, <1>7, <1>8 DEF BalLeft, BalRight
<1> QED  BY <1>5, <1>6, <1>9

(* How a deletion ends.                                                    *)
LEMMA AgainStarts ==
  ASSUME Reestablish
  PROVE  pc' \in {"refind", "idle"}
  BY DEF Reestablish, Return, StartFind

(* balbk1 leaves no leaf and no parent empty.                              *)
LEMMA LBalance ==
  ASSUME IInv, TInv, LInv, Roomy, ~spoiled, pc = "balance",
         NEW l \in TreeBlk \cup {ZNULL}, NEW r \in TreeBlk \cup {ZNULL}, NEW s,
         Balance(l, r, s), lf.blk \in {l, r},
         ~Joinable(Blk(l).nkeys, Blk(r).nkeys),
         Uneven(Blk(l).nkeys, Blk(r).nkeys)
  PROVE  LInv'
<1>1. blocks \in [Link -> Block] /\ Child \subseteq Link
  BY BlockNumbers DEF IInv, TypeOK
<1>2. PICK p, e, q, x, y :
        /\ p = Top.blk /\ e = Blk(p).ent[s]
        /\ q = RepKey(blocks[p], s, Separator(Blk(l), Blk(r)), l, r)
        /\ x = BalLeft(Blk(l), Blk(r), e) /\ y = BalRight(Blk(l), Blk(r), e)
  OBVIOUS
<1>3. blocks' = [blocks EXCEPT ![p] = q, ![l] = x, ![r] = y] /\ Reestablish
  BY <1>2 DEF Balance
<1>4. x.nkeys # 0 /\ y.nkeys # 0
  <2>1. PICK a, b \in Block : a = Blk(l) /\ b = Blk(r)
    BY <1>1, ReadBlock DEF Blk
  <2>2. ~Joinable(a.nkeys, b.nkeys) /\ Uneven(a.nkeys, b.nkeys)
    BY <2>1
  <2>3. BalLeft(a, b, e).nkeys # 0 /\ BalRight(a, b, e).nkeys # 0
    BY <2>2, EvenedCounts
  <2> QED  BY <1>2, <2>1, <2>3
<1>5. p \in Child => q.nkeys # 0
  <2> SUFFICES ASSUME p \in Child PROVE q.nkeys # 0
    OBVIOUS
  <2>1. PICK z : z = blocks[p]
    OBVIOUS
  <2>2. z.nkeys # 0
    BY <1>2, <2>1, ParentKeys, SisterFacts
  <2>3. z = [type |-> z.type, nkeys |-> z.nkeys, nxt |-> z.nxt,
             ent |-> z.ent, lnk |-> z.lnk]
    BY <1>1, <2>1, BlockFacts
  <2>4. q.nkeys = z.nkeys
    BY <1>2, <2>1, <2>3 DEF RepKey
  <2> QED  BY <2>2, <2>4
<1>6. PICK W : W = {p, l, r}
  OBVIOUS
<1>7. \A a \in Child \ W : blocks'[a] = blocks[a]
  BY <1>1, <1>3, <1>6
<1>8. ASSUME NEW a \in Child \cap W PROVE blocks'[a].nkeys # 0
  <2>1. CASE a = r
    BY <1>1, <1>3, <1>4, <2>1
  <2>2. CASE a = l /\ a # r
    BY <1>1, <1>3, <1>4, <2>2
  <2>3. CASE a = p /\ a # l /\ a # r
    BY <1>1, <1>3, <1>5, <2>3
  <2> QED  BY <1>6, <2>1, <2>2, <2>3
<1>9. pc' \in {"refind", "idle"}
  BY <1>3, AgainStarts
<1>10. lf.blk \in W
  BY <1>6
<1> QED  BY <1>7, <1>8, <1>9, <1>10, EmptyStep

(* BalanceRight and BalanceLeft.                                           *)
LEMMA LBalances ==
  ASSUME IInv, TInv, LInv, Roomy, ~spoiled, BalanceRight \/ BalanceLeft
  PROVE  LInv'
<1>1. pc = "balance"
  BY DEF BalanceRight, BalanceLeft
<1>2. ~CanJoinRight /\ ~CanJoinLeft
  BY <1>1 DEF LInv
<1>3. CASE BalanceRight
  <2>1. PICK l, r, s : l = lf.blk /\ s = Top.pos
                       /\ r = Blk(Top.blk).lnk[Top.pos + 1]
    OBVIOUS
  <2>2. /\ Balance(l, r, s) /\ Top.pos < Blk(Top.blk).nkeys
        /\ Uneven(Blk(l).nkeys, Blk(r).nkeys)
    BY <1>3, <2>1 DEF BalanceRight, CanBalanceRight, Node
  <2>3. ~Joinable(Blk(l).nkeys, Blk(r).nkeys)
    BY <1>2, <2>1, <2>2 DEF CanJoinRight, Node
  <2>4. l \in TreeBlk \cup {ZNULL} /\ r \in TreeBlk \cup {ZNULL}
    BY <1>1, <2>1, <2>2, SisterFacts DEF ChildOrNull, TreeBlk
  <2> QED  BY <1>1, <2>1, <2>2, <2>3, <2>4, LBalance
<1>4. CASE BalanceLeft
  <2>1. PICK l, r, s : r = lf.blk /\ s = Top.pos - 1
                       /\ l = Blk(Top.blk).lnk[Top.pos - 1]
    OBVIOUS
  <2>2. /\ Balance(l, r, s) /\ Top.pos > 0
        /\ Uneven(Blk(r).nkeys, Blk(l).nkeys)
    BY <1>4, <2>1 DEF BalanceLeft, CanBalanceLeft, Node
  <2>3. ~Joinable(Blk(r).nkeys, Blk(l).nkeys)
    BY <1>2, <2>1, <2>2 DEF CanJoinLeft, Node
  <2>4. PICK n, m \in Int : n = Blk(l).nkeys /\ m = Blk(r).nkeys
    BY <1>1, <2>1, <2>2, SisterFacts DEF Node
  <2>5. ~Joinable(n, m)
    BY <2>3, <2>4 DEF Joinable
  <2>6. Uneven(n, m)
    BY <2>2, <2>4, UnevenSym
  <2>7. l \in TreeBlk \cup {ZNULL} /\ r \in TreeBlk \cup {ZNULL}
    BY <1>1, <2>1, <2>2, SisterFacts DEF ChildOrNull, TreeBlk
  <2> QED  BY <1>1, <2>1, <2>2, <2>4, <2>5, <2>6, <2>7, LBalance
<1> QED  BY <1>3, <1>4

(* An empty leaf was joined, or gets keys of its sister.                   *)
LEMMA LNoBalance ==
  ASSUME IInv, TInv, LInv, Roomy, ~spoiled, NoBalance
  PROVE  LInv'
<1>1. /\ pc = "balance" /\ ~CanBalanceRight /\ ~CanBalanceLeft
      /\ blocks' = blocks /\ Reestablish
  BY DEF NoBalance, tree
<1>2. ~CanJoinRight /\ ~CanJoinLeft
  BY <1>1 DEF LInv
<1>3. MXKEY \in Nat /\ THRES \in Nat
  BY BlockConstants
<1>4. ASSUME NEW m \in Int, ~Joinable(0, m), ~Uneven(0, m) PROVE FALSE
  <2>1. m >= MXKEY - THRES
    BY <1>3, <1>4 DEF Joinable
  <2>2. m >= 0
    BY <1>3, <2>1 DEF Roomy
  <2>3. Abs(0 - m) = m
    BY <2>2 DEF Abs
  <2>4. ~(m > MXKEY \div 2)
    BY <1>4, <2>3 DEF Uneven
  <2> QED  BY <1>3, <2>1, <2>4 DEF Roomy
<1>5. Node.nkeys # 0
  <2> SUFFICES ASSUME Node.nkeys = 0 PROVE FALSE
    OBVIOUS
  <2>1. /\ Blk(Top.blk).nkeys \in Nat /\ Blk(Top.blk).nkeys # 0
        /\ Top.pos \in 0 .. Blk(Top.blk).nkeys
    BY <1>1, ParentKeys
  <2>2. CASE Top.pos < Blk(Top.blk).nkeys
    <3>1. PICK m \in Int : m = Blk(Blk(Top.blk).lnk[Top.pos + 1]).nkeys
      BY <1>1, <2>2, SisterFacts
    <3>2. ~Joinable(0, m) /\ ~Uneven(0, m)
      BY <1>1, <1>2, <2>2, <3>1 DEF CanJoinRight, CanBalanceRight
    <3> QED  BY <1>4, <3>2
  <2>3. CASE ~(Top.pos < Blk(Top.blk).nkeys)
    <3>1. Top.pos > 0
      BY <2>1, <2>3
    <3>2. PICK m \in Int : m = Blk(Blk(Top.blk).lnk[Top.pos - 1]).nkeys
      BY <1>1, <3>1, SisterFacts
    <3>3. ~Joinable(0, m) /\ ~Uneven(0, m)
      BY <1>1, <1>2, <3>1, <3>2 DEF CanJoinLeft, CanBalanceLeft
    <3> QED  BY <1>4, <3>3
  <2> QED  BY <2>2, <2>3
<1>6. blocks[lf.blk].nkeys # 0
  BY <1>1, <1>5, ParentKeys
<1>7. pc' \in {"refind", "idle"}
  BY <1>1, AgainStarts
<1> QED  BY <1>1, <1>6, <1>7, EmptySame

(* DemoteDone: the block has a key.                                        *)
LEMMA LDemoteDone ==
  ASSUME IInv, LInv, ~spoiled, DemoteDone
  PROVE  LInv'
<1>1. pc = "demote" /\ Node.nkeys # 0 /\ Reestablish /\ blocks' = blocks
  BY DEF DemoteDone, tree
<1>2. lf.blk \in Child => blocks[lf.blk].nkeys # 0
  BY <1>1, NodeFacts, BlockNumbers DEF Child, ZNULL
<1>3. pc' \in {"refind", "idle"}
  BY <1>1, AgainStarts
<1> QED  BY <1>1, <1>2, <1>3, EmptySame

(* DemoteRoot: the root may be empty.                                      *)
LEMMA LDemoteRoot ==
  ASSUME IInv, TInv, LInv, ~spoiled, DemoteRoot
  PROVE  LInv'
<1>1. pc = "demote" /\ Node.nkeys = 0 /\ Node.type = "root" /\ Reestablish
  BY DEF DemoteRoot
<1>2. /\ lf.blk = ROOT /\ blocks \in [Link -> Block] /\ cblk \in Used(blocks)
  BY <1>1, DemoteState
<1>3. ROOT \notin Child /\ Child \subseteq Link
  BY BlockNumbers DEF ROOT, Child
<1>4. PICK B1 : B1 = [blocks EXCEPT ![lf.blk] =
                        CopyKeys(@, Blk(cblk), 0, Blk(cblk).nkeys)]
  OBVIOUS
<1>5. blocks' = [B1 EXCEPT ![cblk] = FreshBlock("free", super.freep)]
  BY <1>4 DEF DemoteRoot, FreeBlock
<1>6. PICK W : W = {ROOT, cblk}
  OBVIOUS
<1>7. \A a \in Child \ W : blocks'[a] = blocks[a]
  BY <1>2, <1>3, <1>4, <1>5, <1>6
<1>8. ASSUME NEW a \in Child \cap W PROVE blocks'[a].type # "inuse"
  <2>1. a = cblk
    BY <1>3, <1>6
  <2>2. blocks'[a] = FreshBlock("free", super.freep)
    BY <1>2, <1>3, <1>4, <1>5, <2>1
  <2> QED  BY <2>2 DEF FreshBlock
<1>9. pc' \in {"refind", "idle"}
  BY <1>1, AgainStarts
<1> QED  BY <1>2, <1>3, <1>7, <1>8, <1>9, EmptyStep

(* bdemte leaves at most the grandparent empty, for its next turn.         *)
LEMMA LDemote ==
  ASSUME IInv, TInv, LInv, ~spoiled, Demote
  PROVE  LInv'
<1>1. CASE DemPos >= Grand.nkeys
  <2>1. spoiled'
    BY <1>1 DEF Demote, GiveUp
  <2> QED  BY <2>1 DEF LInv
<1>2. CASE ~(DemPos >= Grand.nkeys)
  <2>1. /\ Demoting /\ blocks' = Merge(Cut, super, Link1, Grand.ent[DemPos])
        /\ ToGrand
    BY <1>2 DEF Demote
  <2>2. pc = "demote" /\ Node.nkeys = 0 /\ Node.type # "root" /\ pc' = "demote"
    BY <2>1 DEF Demoting, ToGrand
  <2>3. /\ Sound(blocks) /\ blocks \in [Link -> Block] /\ Node = blocks[lf.blk]
        /\ lf.blk \in Used(blocks) /\ lf.blk # ROOT
    BY <2>2, DemoteState
  <2>4. PICK w : /\ Tree(blocks, w) /\ PathOK(blocks, w, stk, lf)
    BY <2>2, DemoteState
  <2>5. PICK p, s, l, r, e : /\ p = Top.blk /\ s = DemPos /\ l = Link1
                             /\ r = Link2 /\ e = Grand.ent[DemPos]
    OBVIOUS
  <2>6. lf.blk \in Child
    BY <2>3, UsedBlock
  <2>7. /\ p \in Used(blocks) /\ w.h[p] # 0 /\ Grand = blocks[p]
        /\ Top.pos \in 0 .. blocks[p].nkeys /\ blocks[p].nkeys \in Nat
        /\ blocks[p].lnk[Top.pos] = lf.blk
    BY <2>4, <2>5, <2>6, LeafAndParent DEF Grand
  <2>8. /\ s \in 0 .. blocks[p].nkeys - 1
        /\ OnRight => s + 1 = Top.pos
        /\ ~OnRight => s = Top.pos
    BY <1>2, <2>5, <2>7 DEF DemPos, OnRight
  <2>9. l = blocks[p].lnk[s] /\ r = blocks[p].lnk[s + 1]
    BY <2>5, <2>7 DEF Link1, Link2
  <2>10. lf.blk \in {l, r}
    BY <2>7, <2>8, <2>9
  <2>11. /\ l \in Used(blocks) \ {ROOT} /\ r \in Used(blocks) \ {ROOT}
         /\ l # r /\ p # l /\ p # r
    BY <2>3, <2>4, <2>7, <2>8, <2>9, Sisters
  <2>12. PICK x, y \in Block : x = blocks[l] /\ y = blocks[r]
    BY <2>3, <2>11, UsedBlock
  <2>13. /\ l \in Link /\ r \in Link /\ p \in Link /\ l # ZNULL /\ r # ZNULL
         /\ blocks[p] \in Block
    BY <2>3, <2>7, <2>11, UsedBlock
  <2>14. PICK q : q = RemKey(blocks[p], s)
    OBVIOUS
  <2>15. q \in Block /\ Cut = [blocks EXCEPT ![p] = q]
    BY <2>5, <2>8, <2>13, <2>14, RemoveView DEF Cut
  <2>16. Cut[l] = x /\ Cut[r] = y /\ Read(Cut, r) = y /\ Read(Cut, l) = x
    BY <2>3, <2>11, <2>12, <2>13, <2>15 DEF Read
  <2>17. PICK n : n = IF OnRight THEN PutKey(x, e, ZNULL, cblk)
                      ELSE PutKey(Copied(x, y), e, cblk, ZNULL)
    OBVIOUS
  <2>18. n.nkeys # 0
    <3>1. CASE OnRight
      BY <2>12, <2>17, <3>1, PutCount
    <3>2. CASE ~OnRight
      <4>1. PICK m : m = Copied(x, y)
        OBVIOUS
      <4>2. m \in Block
        BY <4>1, CopyAll
      <4>3. PutKey(m, e, cblk, ZNULL).nkeys # 0
        BY <4>2, PutCount
      <4> QED  BY <2>17, <3>2, <4>1, <4>3
    <3> QED  BY <3>1, <3>2
  <2>19. PICK B1 : B1 = [Cut EXCEPT ![l] = n]
    OBVIOUS
  <2>20. blocks' = [B1 EXCEPT ![r] = FreshBlock("free", super.freep)]
    <3>1. n = IF OnRight THEN PutKey(Cut[l], e, ZNULL, cblk)
              ELSE PutKey(CopyKeys(Cut[l], Read(Cut, r), 0,
                                   Read(Cut, r).nkeys), e, cblk, ZNULL)
      BY <2>16, <2>17 DEF Copied
    <3>2. Merge(Cut, super, l, e) = FreeBlock(super, B1, r)
      BY <2>5, <2>19, <3>1 DEF Merge
    <3> QED  BY <2>1, <2>5, <3>2 DEF FreeBlock
  <2>21. PICK W : W = {p, l, r}
    OBVIOUS
  <2>22. Child \subseteq Link
    BY BlockNumbers
  <2>23. \A a \in Child \ W : blocks'[a] = blocks[a]
    BY <2>3, <2>15, <2>19, <2>20, <2>21, <2>22
  <2>24. lf'.blk = p
    BY <2>1, <2>5 DEF ToGrand, At, IInv, TypeOK
  <2>25. ASSUME NEW a \in Child \cap W
         PROVE  blocks'[a].type = "inuse" /\ blocks'[a].nkeys = 0 => a = lf'.blk
    <3>1. CASE a = r
      <4>1. blocks'[a] = FreshBlock("free", super.freep)
        BY <2>3, <2>13, <2>15, <2>19, <2>20, <3>1
      <4> QED  BY <4>1 DEF FreshBlock
    <3>2. CASE a = l
      <4>1. blocks'[a] = n
        BY <2>3, <2>11, <2>13, <2>15, <2>19, <2>20, <3>2
      <4> QED  BY <2>18, <4>1
    <3> QED  BY <2>21, <2>24, <3>1, <3>2
  <2>26. lf.blk \in W
    BY <2>10, <2>21
  <2> QED  BY <2>2, <2>23, <2>25, <2>26, EmptyStep
<1> QED  BY <1>1, <1>2

(* Such sizes leave keys on both sides of a split, too.                    *)
LEMMA RoomyRoom ==
  ASSUME Roomy
  PROVE  RoomToSplit
  BY BlockConstants DEF Roomy, RoomToSplit

(* Every step of a call.                                                   *)
LEMMA LStep ==
  ASSUME IInv, TInv, LInv, Roomy, Step, ~spoiled
  PROVE  LInv'
<1>1. CASE FindStep
  BY <1>1, LSearchBlock, LSplitRoot, LSplitChild, RoomyRoom
     DEF FindStep
<1>2. CASE InsertKey \/ UpdateKey
  BY <1>2, LInsertKey, LUpdateKey
<1>3. CASE DeleteKey \/ Descend \/ ReplaceKey
  BY <1>3, LDeleteKey, LDescend, LReplaceKey
<1>4. CASE JoinRight \/ JoinLeft \/ NoJoin
  BY <1>4, LJoins, LNoJoin
<1>5. CASE BalanceRight \/ BalanceLeft \/ NoBalance
  BY <1>5, LBalances, LNoBalance
<1>6. CASE DemoteDone \/ DemoteRoot \/ Demote
  BY <1>6, LDemoteDone, LDemoteRoot, LDemote
<1>7. CASE DemoteFull
  <2>1. spoiled' = TRUE
    BY <1>7 DEF DemoteFull
  <2> QED  BY <2>1 DEF LInv
<1> QED
  BY <1>1, <1>2, <1>3, <1>4, <1>5, <1>6, <1>7 DEF Step, DeleteStep

(* Every step.                                                             *)
LEMMA LNext ==
  ASSUME IInv, TInv, LInv, Roomy, Next
  PROVE  LInv'
<1>1. CASE Invoke
  BY <1>1, LInvoke
<1>2. CASE Step /\ ~spoiled
  BY <1>2, LStep
<1>3. CASE Step /\ spoiled
  BY <1>3, SpoiledStays DEF LInv, Next
<1> QED  BY <1>1, <1>2, <1>3 DEF Next

(* A stutter.                                                              *)
LEMMA LStutter ==
  ASSUME LInv, UNCHANGED vars
  PROVE  LInv'
BY DEF LInv, NoEmpty, CanJoinRight, CanJoinLeft, Top, Node, Blk, vars

(* No leaf stays empty: inductive with the shape of the tree.              *)
THEOREM LeavesInductive ==
  ASSUME KeysBounded, Roomy
  PROVE  Spec => [](IInv /\ TInv /\ LInv)
<1>1. Init => IInv /\ TInv /\ LInv
  BY InitInv, TInit, LInit
<1>2. IInv /\ TInv /\ LInv /\ [Next]_vars => IInv' /\ TInv' /\ LInv'
  BY StepInv, TNext, TStutter, LNext, LStutter, RoomyRoom
<1> QED  BY <1>1, <1>2, PTL DEF Spec

(* The children of an interior block are distinct.                         *)
LEMMA CountChildren ==
  ASSUME NEW w, Sound(blocks), Tree(blocks, w), NEW b \in Used(blocks)
  PROVE  /\ w.h[b] # 0 => Cardinality(Children(b)) = blocks[b].nkeys + 1
         /\ w.h[b] = 0 => Cardinality(Children(b)) = 0
         /\ Children(b) = {} <=> w.h[b] = 0
<1>1. /\ w.h[b] = 0 => Children(b) = {}
      /\ w.h[b] # 0 =>
           /\ Children(b) = {blocks[b].lnk[i] : i \in 0 .. blocks[b].nkeys}
           /\ blocks[b].lnk[0] \in Children(b)
  BY ChildrenOf
<1>2. CASE w.h[b] = 0
  BY <1>1, <1>2, FS_EmptySet
<1>3. CASE w.h[b] # 0
  <2>1. PICK n \in Nat : n = blocks[b].nkeys
    BY UsedBlock
  <2>2. PICK f : f = [i \in 0 .. n |-> blocks[b].lnk[i]]
    OBVIOUS
  <2>3. PICK C : C = Children(b)
    OBVIOUS
  <2>4. C = {f[i] : i \in 0 .. n}
    BY <1>1, <1>3, <2>1, <2>2, <2>3
  <2>5. \A i, j \in 0 .. n : f[i] = f[j] => i = j
    BY <1>3, <2>1, <2>2, OneParent
  <2>6. f \in Bijection(0 .. n, C)
    <3>1. f \in [0 .. n -> C]
      BY <2>2, <2>4
    <3>2. f \in Injection(0 .. n, C)
      BY <2>5, <3>1 DEF Injection, IsInjective
    <3>3. f \in Surjection(0 .. n, C)
      BY <2>4, <3>1 DEF Surjection
    <3> QED  BY <3>2, <3>3 DEF Bijection
  <2>7. IsFiniteSet(0 .. n) /\ Cardinality(0 .. n) = n + 1
    BY FS_Interval
  <2>8. Cardinality(C) = n + 1
    <3>1. ExistsBijection(0 .. n, C)
      BY <2>6 DEF ExistsBijection
    <3> QED  BY <2>7, <3>1, FS_Bijection
  <2> QED  BY <1>1, <1>3, <2>1, <2>3, <2>8
<1> QED  BY <1>2, <1>3

(* Balanced follows from the invariant.                                    *)
LEMMA BalancedStands ==
  ASSUME IInv, TInv, LInv
  PROVE  Balanced
<1> SUFFICES ASSUME ~spoiled, pc \notin {"join", "balance", "demote"}
             PROVE  /\ \A b \in Reached :
                         /\ b = ROOT \/ blocks[b].nkeys > 0
                         /\ Cardinality(Children(b)) \in
                              {0, blocks[b].nkeys + 1}
                    /\ \A d \in 0 .. MaxDepth : \A b, c \in Level[d] :
                         Children(b) = {} <=> Children(c) = {}
  BY DEF Balanced
<1>1. PICK w : Tree(blocks, w) /\ InteriorOK(blocks, w, lf, pc)
  BY DEF TInv, TreeInv
<1>2. Sound(blocks)
  BY DEF IInv, TypeOK, RootIsRoot, Sound
<1>3. ASSUME NEW b \in Reached
      PROVE  /\ b = ROOT \/ blocks[b].nkeys > 0
             /\ Cardinality(Children(b)) \in {0, blocks[b].nkeys + 1}
  <2>1. b \in Used(blocks)
    BY <1>1, <1>2, Levels
  <2>2. /\ w.h[b] # 0 => Cardinality(Children(b)) = blocks[b].nkeys + 1
        /\ w.h[b] = 0 => Cardinality(Children(b)) = 0
    BY <1>1, <1>2, <2>1, CountChildren
  <2>3. b # ROOT => blocks[b].nkeys # 0
    <3>1. NoEmpty(blocks, pc, lf)
      BY DEF LInv
    <3> QED  BY <1>2, <2>1, <3>1, UsedBlock DEF NoEmpty
  <2>4. blocks[b].nkeys \in Nat
    BY <1>2, <2>1, UsedBlock
  <2> QED  BY <2>2, <2>3, <2>4
<1>4. ASSUME NEW d \in 0 .. MaxDepth, NEW b \in Level[d], NEW c \in Level[d]
      PROVE  Children(b) = {} <=> Children(c) = {}
  <2>1. /\ b \in Used(blocks) /\ c \in Used(blocks) /\ w.h[b] = w.h[c]
    BY <1>1, <1>2, Levels
  <2> QED  BY <1>1, <1>2, <2>1, CountChildren
<1> QED  BY <1>3, <1>4

----------------------------------------------------------------------------
(* The errors of a broken structure.                                       *)

(* No error of that kind is on record while no call was spoiled.           *)
NoneYet == ~spoiled => err \notin Internal

(* What a step from a sound state must not do: a routine meets an          *)
(* inconsistency, or the call is spoiled but by a demotion whose sister is *)
(* full.                                                                   *)
SoundStep == err' \notin Internal /\ (spoiled' => DemoteFull)

(* The errors a call may return.                                           *)
LEMMA Harmless ==
  ASSUME NoneYet, ~spoiled, ~spoiled',
         err' \in {err, "OK", "QNOKEY", "QDUP", "QDELEX", "QDELER", "QLOCTB",
                   "QF2BIG", "QNOTFR"}
  PROVE  SoundStep
  BY DEF NoneYet, SoundStep, Internal

(* The last find of a call that is not at a leaf yet is at a block.        *)
LEMMA EFind ==
  ASSUME IInv, TInv, NoneYet, ~spoiled, FindStep
  PROVE  SoundStep
<1>1. CASE SearchBlock
  <2>1. err' \in {err, "OK", "QDUP", "QNOKEY"} /\ spoiled' = spoiled
    BY <1>1 DEF SearchBlock, Found, NotFound, Return, GoOn
  <2> QED  BY <2>1, Harmless
<1>2. CASE SplitRoot
  <2>1. err' \in {err, "QNOTFR", "QF2BIG"} /\ spoiled' = spoiled
    BY <1>2 DEF SplitRoot, NoSpace, Return, NoFree
  <2> QED  BY <2>1, Harmless
<1>3. CASE SplitChild
  <2>1. pc \in {"find", "refind"} /\ cblk # ROOT
    BY <1>3 DEF SplitChild
  <2>2. PICK w : FindOK(blocks, w, stk, lf, cblk)
    BY <2>1, FindState
  <2>3. lf.blk # ZNULL
    BY <2>1, <2>2 DEF FindOK
  <2>4. ~Full(blocks[lf.blk])
    BY <2>2, <2>3 DEF FindOK, Passed
  <2>5. ~Full(Node)
    BY <2>3, <2>4, NodeFacts
  <2>6. err' \in {err, "QNOTFR", "QF2BIG"} /\ spoiled' = spoiled
    BY <1>3, <2>5 DEF SplitChild, NoSpace, Return, NoFree
  <2> QED  BY <2>6, Harmless
<1> QED  BY <1>1, <1>2, <1>3 DEF FindStep

(* The steps that edit one block.                                          *)
LEMMA EEdit ==
  ASSUME IInv, TInv, LInv, NoneYet, ~spoiled,
         InsertKey \/ UpdateKey \/ DeleteKey \/ Descend
  PROVE  SoundStep
<1>1. CASE InsertKey
  <2>1. PICK w : InsertOK(blocks, w, lf, op.key)
    BY <1>1 DEF InsertKey, TInv, TreeInv
  <2>2. ~Full(Node)
    BY <2>1, NodeFacts DEF InsertOK
  <2>3. err' = "OK" /\ spoiled' = spoiled
    BY <1>1, <2>2 DEF InsertKey, Return
  <2> QED  BY <2>3, Harmless
<1>2. CASE UpdateKey
  <2>1. err' \in {"OK", "QLOCTB"} /\ spoiled' = spoiled
    BY <1>2 DEF UpdateKey, Return
  <2> QED  BY <2>1, Harmless
<1>3. CASE DeleteKey
  <2>1. err' \in {err, "QDELEX", "QDELER"} /\ spoiled' = spoiled
    BY <1>3 DEF DeleteKey, AfterRemoval, Reestablish, Return
  <2> QED  BY <2>1, Harmless
<1>4. CASE Descend
  <2>1. err' = err /\ spoiled' = spoiled
    BY <1>4 DEF Descend
  <2> QED  BY <2>1, Harmless
<1> QED  BY <1>1, <1>2, <1>3, <1>4

(* bleaf ends at the right end of a leaf that has a key.                   *)
LEMMA EReplace ==
  ASSUME IInv, TInv, LInv, NoneYet, ~spoiled, ReplaceKey
  PROVE  SoundStep
<1>1. pc = "descend" /\ AtLeaf
  BY DEF ReplaceKey
<1>2. PICK w : /\ Tree(blocks, w) /\ PathOK(blocks, w, stk, lf)
               /\ InteriorOK(blocks, w, lf, pc)
               /\ DescendOK(blocks, w, lf, tgt)
  BY <1>1 DEF TInv, TreeInv
<1>3. Sound(blocks)
  BY StateWitness
<1>4. lf.blk # ZNULL /\ Node = blocks[lf.blk]
  BY <1>1, NodeFacts DEF IInv, RoutineState
<1>5. lf.blk \in Used(blocks)
  BY <1>2, <1>4 DEF PathOK
<1>6. PICK n \in Nat : n = Node.nkeys /\ lf.pos \in 0 .. n
  BY <1>2, <1>3, <1>4, <1>5, UsedBlock DEF DescendOK
<1>7. lf.pos = n /\ n # 0
  <2>1. CASE tgt.blk = lf.blk /\ tgt.pos = lf.pos
    <3>1. w.h[lf.blk] # 0 /\ lf.pos \in 0 .. n - 1
      BY <1>2, <1>4, <1>6, <2>1 DEF DescendOK
    <3>2. NodeOK(blocks, w, lf.blk)
      BY <1>2, <1>3, <1>5, UsedWitness
    <3>3. Kid(blocks, w, blocks[lf.blk].lnk[lf.pos], w.h[lf.blk] - 1,
              From(blocks[lf.blk], w.lo[lf.blk], lf.pos),
              To(blocks[lf.blk], w.hi[lf.blk], lf.pos))
      BY <1>4, <1>6, <3>1, <3>2 DEF NodeOK
    <3>4. Node.lnk[lf.pos] # ZNULL
      BY <1>3, <1>4, <3>3, UsedBlock DEF Kid
    <3> QED  BY <1>1, <1>6, <3>1, <3>4 DEF AtLeaf
  <2>2. CASE w.h[lf.blk] < w.h[tgt.blk] /\ lf.pos = blocks[lf.blk].nkeys
    <3>1. lf.pos = n
      BY <1>4, <1>6, <2>2
    <3>2. CASE w.h[lf.blk] # 0
      <4>1. blocks[lf.blk].nkeys # 0
        BY <1>1, <1>2, <1>5, <3>2 DEF InteriorOK
      <4> QED  BY <1>4, <1>6, <3>1, <4>1
    <3>3. CASE w.h[lf.blk] = 0
      <4>1. tgt.blk \in Used(blocks)
        BY <1>2 DEF DescendOK
      <4>2. /\ w.h[tgt.blk] <= w.h[ROOT] /\ w.h[tgt.blk] \in Nat
            /\ w.h[ROOT] \in Nat
        BY <1>2, <1>3, <4>1, UsedWitness
      <4>3. lf.blk # ROOT
        BY <2>2, <3>3, <4>2
      <4>4. lf.blk \in Child /\ blocks[lf.blk].type = "inuse"
        BY <1>3, <1>5, <4>3, UsedBlock
      <4>5. blocks[lf.blk].nkeys # 0
        BY <1>1, <4>4 DEF LInv, NoEmpty
      <4> QED  BY <1>4, <1>6, <3>1, <4>5
    <3> QED  BY <3>2, <3>3
  <2> QED  BY <1>2, <2>1, <2>2 DEF DescendOK
<1>8. lf.pos - 1 \in 0 .. Node.nkeys - 1
  BY <1>6, <1>7
<1>9. err' = err /\ spoiled' = spoiled
  BY <1>8 DEF ReplaceKey, AfterRemoval, Reestablish, Return
<1> QED  BY <1>9, Harmless

(* The position on the stack is one of the parent.                         *)
LEMMA EJoin ==
  ASSUME IInv, TInv, NoneYet, ~spoiled,
         \/ JoinRight \/ JoinLeft \/ NoJoin
         \/ BalanceRight \/ BalanceLeft \/ NoBalance
  PROVE  SoundStep
<1>1. pc \in {"join", "balance"}
  BY DEF JoinRight, JoinLeft, NoJoin, BalanceRight, BalanceLeft, NoBalance
<1>2. Blk(Top.blk).nkeys \in Nat /\ Top.pos \in 0 .. Blk(Top.blk).nkeys
  BY <1>1, ParentKeys
<1>3. ~(Top.pos > Blk(Top.blk).nkeys)
  BY <1>2
<1>4. err' = err \/ err' = "OK"
  BY <1>3 DEF JoinRight, JoinLeft, NoJoin, BalanceRight, BalanceLeft,
              NoBalance, Join, Balance, Reestablish, Return
<1>5. spoiled' = spoiled
  BY <1>3 DEF JoinRight, JoinLeft, NoJoin, BalanceRight, BalanceLeft,
              NoBalance, Join, Balance
<1> QED  BY <1>4, <1>5, Harmless

(* The grandparent has the key to be demoted.                              *)
LEMMA EDemote ==
  ASSUME IInv, TInv, NoneYet, ~spoiled,
         DemoteDone \/ DemoteRoot \/ Demote \/ DemoteFull
  PROVE  SoundStep
<1>1. CASE DemoteDone \/ DemoteRoot
  <2>1. err' = err /\ spoiled' = spoiled
    BY <1>1 DEF DemoteDone, DemoteRoot, Reestablish, Return
  <2> QED  BY <2>1, Harmless
<1>2. CASE Demote
  <2>1. Demoting
    BY <1>2 DEF Demote
  <2>2. pc = "demote" /\ Node.nkeys = 0 /\ Node.type # "root"
    BY <2>1 DEF Demoting
  <2>3. PICK w : /\ Tree(blocks, w) /\ PathOK(blocks, w, stk, lf)
                 /\ w.h[lf.blk] \in Nat
                 /\ \A a \in Used(blocks) : w.h[a] # 0 /\ a # lf.blk =>
                      blocks[a].nkeys # 0
    BY <2>2, DemoteState
  <2>4. Sound(blocks) /\ lf.blk \in Used(blocks) /\ lf.blk # ROOT
    BY <2>2, DemoteState
  <2>5. lf.blk \in Child
    BY <2>4, UsedBlock
  <2>6. /\ Top.blk \in Used(blocks) /\ w.h[Top.blk] # 0
        /\ Top.pos \in 0 .. blocks[Top.blk].nkeys
        /\ Grand = blocks[Top.blk] /\ blocks[Top.blk].nkeys \in Nat
        /\ w.h[Top.blk] = w.h[lf.blk] + 1
    BY <2>3, <2>5, LeafAndParent DEF Grand
  <2>7. Top.blk # lf.blk
    BY <2>3, <2>6
  <2>8. blocks[Top.blk].nkeys # 0
    BY <2>3, <2>6, <2>7
  <2>9. ~(DemPos >= Grand.nkeys)
    BY <2>6, <2>8 DEF DemPos, OnRight
  <2>10. err' = err /\ spoiled' = spoiled
    BY <1>2, <2>9 DEF Demote
  <2> QED  BY <2>10, Harmless
<1>3. CASE DemoteFull
  <2>1. err' \in {err, "QNOTFR", "QF2BIG"}
    BY <1>3 DEF DemoteFull, NoFree
  <2> QED  BY <1>3, <2>1 DEF SoundStep, NoneYet, Internal
<1> QED  BY <1>1, <1>2, <1>3

(* Every step.                                                             *)
LEMMA ENext ==
  ASSUME IInv, TInv, LInv, NoneYet, ~spoiled, [Next]_vars
  PROVE  SoundStep
<1>1. CASE Invoke
  <2>1. err' = "OK" /\ spoiled' = spoiled
    BY <1>1 DEF Invoke, Bfndky, Bdelky, Binsky, Bupdky, CallByKey,
                BdelkyCurrent, BupdkyCurrent, Call
  <2> QED  BY <2>1, Harmless
<1>2. CASE UNCHANGED vars
  <2>1. err' = err /\ spoiled' = spoiled
    BY <1>2 DEF vars
  <2> QED  BY <2>1, Harmless
<1>3. CASE Step
  BY <1>3, EFind, EEdit, EReplace, EJoin, EDemote DEF Step, DeleteStep
<1> QED  BY <1>1, <1>2, <1>3 DEF Next

(* While the structure is as every call finds it, no routine meets what a  *)
(* sound tree rules out; only a demotion into a full sister spoils a call. *)
SoundUntilSpoiled == [][~spoiled => SoundStep]_vars

(* SoundUntilSpoiled.                                                      *)
THEOREM NothingBreaks ==
  ASSUME KeysBounded, Roomy
  PROVE  Spec => SoundUntilSpoiled
<1>1. Init => NoneYet
  BY DEF Init, NoneYet, Internal
<1>2. NoneYet /\ IInv /\ TInv /\ LInv /\ [Next]_vars => NoneYet'
  <2> SUFFICES ASSUME NoneYet, IInv, TInv, LInv, [Next]_vars, ~spoiled'
               PROVE  err' \notin Internal
    BY DEF NoneYet
  <2>1. ~spoiled
    BY SpoiledStays DEF vars
  <2> QED  BY <2>1, ENext DEF SoundStep
<1>3. IInv /\ TInv /\ LInv /\ NoneYet /\ [Next]_vars
        => [~spoiled => SoundStep]_vars
  BY ENext
<1>4. Spec => [](IInv /\ TInv /\ LInv)
  BY LeavesInductive
<1> QED  BY <1>1, <1>2, <1>3, <1>4, PTL DEF Spec, SoundUntilSpoiled

(* StackIsPath: the parents that splits, joins, balances and demotions     *)
(* pull from the stack are the parents.                                    *)
THEOREM ParentsAreParents ==
  ASSUME KeysBounded, RoomToSplit
  PROVE  Spec => []StackIsPath
  BY TreeInductive, PathStands, PTL

(* FreeListSound: bgtfre never hands out a block that bfndky can reach.    *)
THEOREM FreeBlocksAreFree ==
  ASSUME KeysBounded, RoomToSplit
  PROVE  Spec => []FreeListSound
  BY TreeInductive, FreeStands, PTL

(* SearchTree: the descent of bfndky finds every key of the tree, in the   *)
(* only block that holds it.                                               *)
THEOREM KeysAreFound ==
  ASSUME KeysBounded, RoomToSplit
  PROVE  Spec => []SearchTree
  BY TreeInductive, SearchStands, PTL

(* Balanced: the leaves are at one depth and no block below the root stays *)
(* empty.                                                                  *)
THEOREM TreeIsBalanced ==
  ASSUME KeysBounded, Roomy
  PROVE  Spec => []Balanced
  BY LeavesInductive, BalancedStands, PTL
=============================================================================
