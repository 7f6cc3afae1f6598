----------------------------- MODULE BTreeProofs -----------------------------
(***************************************************************************)
(* Type correctness, the soundness of the cursor and the absence of stack  *)
(* underflow, for every block size, key set and file size.                 *)
(*                                                                         *)
(* The lemmas of the first part: the routines that edit one block keep it  *)
(* a block: its key count stays within the block, every live slot holds a  *)
(* key, and no slot is read or written outside its array.  Each names the  *)
(* condition under which the routine does so; the callers in BTree must    *)
(* establish it.                                                           *)
(***************************************************************************)
EXTENDS BTree, FiniteSetTheorems, TLAPS

(* What it is to be a block, field by field.                               *)
LEMMA BlockFacts ==
  ASSUME NEW b \in Block
  PROVE  /\ b.type \in BlockType
         /\ b.nkeys \in 0 .. MXKEY
         /\ b.nxt \in ChildOrNull
         /\ b.ent \in [0 .. MXKEY - 1 -> Entry \cup {NoEnt}]
         /\ b.lnk \in [0 .. MXKEY -> ChildOrNull]
         /\ \A i \in 0 .. b.nkeys - 1 : b.ent[i] \in Entry
         /\ b = [type |-> b.type, nkeys |-> b.nkeys, nxt |-> b.nxt,
                 ent |-> b.ent, lnk |-> b.lnk]
  BY DEF Block

(* A block with other keys and links.                                      *)
Edit(b, n, ent, lnk) == [b EXCEPT !.nkeys = n, !.ent = ent, !.lnk = lnk]

(* bsetbk makes a block without keys.                                      *)
LEMMA FreshIsBlock ==
  ASSUME NEW t \in BlockType, NEW x \in ChildOrNull
  PROVE  FreshBlock(t, x) \in Block /\ FreshBlock(t, x).type = t
  BY BlockConstants DEF FreshBlock, Block, NoEnts, NoLinks, ChildOrNull

(* The gap of a key is a position of the block or the one after its last.  *)
LEMMA GapInBlock ==
  ASSUME NEW b, b.nkeys \in Nat, NEW k
  PROVE  Gap(b, k) \in 0 .. b.nkeys
<1>1. /\ IsFiniteSet(0 .. b.nkeys - 1)
      /\ Cardinality(0 .. b.nkeys - 1) = b.nkeys
  <2>1. PICK m \in Int : m = b.nkeys - 1
    OBVIOUS
  <2>2. /\ IsFiniteSet(0 .. m)
        /\ Cardinality(0 .. m) = IF 0 > m THEN 0 ELSE m - 0 + 1
    BY FS_Interval
  <2> QED
    BY <2>1, <2>2
<1>2. Below(b, k) \subseteq 0 .. b.nkeys - 1
  BY DEF Below
<1>3. /\ IsFiniteSet(Below(b, k))
      /\ Cardinality(Below(b, k)) <= b.nkeys
  BY <1>1, <1>2, FS_Subset
<1>4. Cardinality(Below(b, k)) \in Nat
  BY <1>3, FS_CardinalityType
<1> QED
  BY <1>3, <1>4 DEF Gap

----------------------------------------------------------------------------
(* bputky keeps a block a block, and it adds at most one key.              *)
LEMMA PutKeyBlock ==
  ASSUME NEW b \in Block, NEW e \in Entry,
         NEW left \in ChildOrNull, NEW right \in ChildOrNull
  PROVE  /\ PutKey(b, e, left, right) \in Block
         /\ PutKey(b, e, left, right).type = b.type
         /\ PutKey(b, e, left, right).nkeys \in {b.nkeys, b.nkeys + 1}
<1>1. CASE Full(b)
  BY <1>1 DEF PutKey
<1>2. CASE ~Full(b)
  <2> DEFINE p   == IF b.nkeys = 0 THEN 0 ELSE PutPos(b, e, left, right)
             ent == PutEnt(b, p, e)
             lnk == PutLnk(b, p, left, right)
  <2>1. /\ b.nkeys \in 0 .. MXKEY - 1
        /\ b.ent \in [0 .. MXKEY - 1 -> Entry \cup {NoEnt}]
        /\ b.lnk \in [0 .. MXKEY -> ChildOrNull]
        /\ \A i \in 0 .. b.nkeys - 1 : b.ent[i] \in Entry
    BY <1>2, BlockFacts, BlockConstants DEF Full
  <2>2. p \in 0 .. b.nkeys
    <3>1. Gap(b, e.key) \in 0 .. b.nkeys
      BY <2>1, GapInBlock
    <3> QED
      BY <2>1, <3>1 DEF PutPos
  <2> HIDE DEF p
  <2>3. /\ ent \in [0 .. MXKEY - 1 -> Entry \cup {NoEnt}]
        /\ \A i \in 0 .. b.nkeys : ent[i] \in Entry
    BY <2>1, <2>2, BlockConstants DEF PutEnt
  <2>4. lnk \in [0 .. MXKEY -> ChildOrNull]
    <3>1. ShiftLnk(b, p) \in [0 .. MXKEY -> ChildOrNull]
      BY <2>1, <2>2, BlockConstants DEF ShiftLnk
    <3>2. NoLinks \in [0 .. MXKEY -> ChildOrNull]
      BY DEF NoLinks, ChildOrNull
    <3>3. ZNULL \in ChildOrNull
      BY DEF ChildOrNull
    <3> QED
      BY <3>1, <3>2, <3>3 DEF PutLnk
  <2>5. PutKey(b, e, left, right)
          = Edit(b, b.nkeys + 1, ent, lnk)
    BY <1>2 DEF PutKey, Edit, p
  <2> HIDE DEF ent, lnk
  <2>6. /\ b.nkeys + 1 \in 0 .. MXKEY
        /\ \A i \in 0 .. (b.nkeys + 1) - 1 : ent[i] \in Entry
    BY <2>1, <2>3, BlockConstants
  <2> QED
    BY <2>3, <2>4, <2>5, <2>6 DEF Edit, Block
<1> QED
  BY <1>1, <1>2

(* bremky of a live position keeps a block a block.                        *)
LEMMA RemKeyBlock ==
  ASSUME NEW b \in Block, NEW p \in 0 .. b.nkeys - 1
  PROVE  /\ RemKey(b, p) \in Block
         /\ RemKey(b, p).type = b.type
         /\ RemKey(b, p).nkeys = b.nkeys - 1
<1> DEFINE ent == [i \in 0 .. MXKEY - 1 |->
                     IF i < p THEN b.ent[i]
                     ELSE IF i + 1 < b.nkeys THEN b.ent[i + 1] ELSE NoEnt]
           lnk == [i \in 0 .. MXKEY |->
                     IF i <= p THEN b.lnk[i]
                     ELSE IF i + 1 <= b.nkeys THEN b.lnk[i + 1] ELSE ZNULL]
<1>1. /\ b.nkeys \in 1 .. MXKEY
      /\ b.ent \in [0 .. MXKEY - 1 -> Entry \cup {NoEnt}]
      /\ b.lnk \in [0 .. MXKEY -> ChildOrNull]
      /\ \A i \in 0 .. b.nkeys - 1 : b.ent[i] \in Entry
  BY BlockFacts, BlockConstants
<1>2. RemKey(b, p) = Edit(b, b.nkeys - 1, ent, lnk)
  BY DEF RemKey, Edit
<1>3. /\ ent \in [0 .. MXKEY - 1 -> Entry \cup {NoEnt}]
      /\ \A i \in 0 .. (b.nkeys - 1) - 1 : ent[i] \in Entry
  <2>1. ASSUME NEW i \in 0 .. MXKEY - 1, i + 1 < b.nkeys
        PROVE  b.ent[i] \in Entry /\ b.ent[i + 1] \in Entry
    <3>1. i \in 0 .. b.nkeys - 1 /\ i + 1 \in 0 .. b.nkeys - 1
      BY <1>1, <2>1, BlockConstants
    <3> QED  BY <1>1, <3>1
  <2>2. \A i \in 0 .. (b.nkeys - 1) - 1 : i \in 0 .. MXKEY - 1 /\ i + 1 < b.nkeys
    BY <1>1, BlockConstants
  <2> QED  BY <1>1, <2>1, <2>2
<1>4. lnk \in [0 .. MXKEY -> ChildOrNull]
  <2>1. ASSUME NEW i \in 0 .. MXKEY
        PROVE  (IF i <= p THEN b.lnk[i]
                ELSE IF i + 1 <= b.nkeys THEN b.lnk[i + 1] ELSE ZNULL)
                 \in ChildOrNull
    <3>1. b.lnk[i] \in ChildOrNull
      BY <1>1
    <3>2. i + 1 <= b.nkeys => b.lnk[i + 1] \in ChildOrNull
      BY <1>1, BlockConstants
    <3>3. ZNULL \in ChildOrNull
      BY DEF ChildOrNull
    <3> QED  BY <3>1, <3>2, <3>3
  <2> QED  BY <2>1
<1>5. b.nkeys - 1 \in 0 .. MXKEY
  BY <1>1, BlockConstants
<1> HIDE DEF ent, lnk
<1> QED
  BY <1>2, <1>3, <1>4, <1>5 DEF Edit, Block

(* brepky at a position of the array keeps a block a block.                *)
LEMMA RepKeyBlock ==
  ASSUME NEW b \in Block, NEW p \in 0 .. MXKEY - 1, NEW e \in Entry,
         NEW left \in ChildOrNull, NEW right \in ChildOrNull
  PROVE  /\ RepKey(b, p, e, left, right) \in Block
         /\ RepKey(b, p, e, left, right).type = b.type
         /\ RepKey(b, p, e, left, right).nkeys = b.nkeys
         /\ RepKey(b, p, e, left, right).ent[p] = e
<1> DEFINE ent == [b.ent EXCEPT ![p] = e]
           lnk == [b.lnk EXCEPT ![p] = left, ![p + 1] = right]
<1>1. RepKey(b, p, e, left, right)
        = Edit(b, b.nkeys, ent, lnk)
  BY DEF RepKey, Block, Edit
<1>2. /\ ent \in [0 .. MXKEY - 1 -> Entry \cup {NoEnt}]
      /\ ent[p] = e
      /\ \A i \in 0 .. b.nkeys - 1 : ent[i] \in Entry
  BY BlockFacts, BlockConstants
<1>3. lnk \in [0 .. MXKEY -> ChildOrNull]
  BY BlockFacts, BlockConstants
<1>4. b.nkeys \in 0 .. MXKEY
  BY BlockFacts
<1> HIDE DEF ent, lnk
<1> QED
  BY <1>1, <1>2, <1>3, <1>4 DEF Edit, Block

(* bmodky at a position of the array keeps a block a block, and its keys.  *)
LEMMA ModValBlock ==
  ASSUME NEW b \in Block, NEW p \in Nat, NEW v \in Val
  PROVE  /\ ModVal(b, p, v) \in Block
         /\ ModVal(b, p, v).type = b.type
         /\ ModVal(b, p, v).nkeys = b.nkeys
         /\ \A i \in 0 .. b.nkeys - 1 : ModVal(b, p, v).ent[i].key = b.ent[i].key
<1>1. CASE p >= b.nkeys
  BY <1>1, BlockFacts DEF ModVal
<1>2. CASE p < b.nkeys
  <2> DEFINE e   == [b.ent[p] EXCEPT !.val = v]
             ent == [b.ent EXCEPT ![p] = e]
  <2>1. /\ b.nkeys \in 0 .. MXKEY /\ b.nkeys \in Int
        /\ b.ent \in [0 .. MXKEY - 1 -> Entry \cup {NoEnt}]
        /\ b.lnk \in [0 .. MXKEY -> ChildOrNull]
        /\ \A i \in 0 .. b.nkeys - 1 : b.ent[i] \in Entry
        /\ p \in 0 .. b.nkeys - 1 /\ p \in 0 .. MXKEY - 1
    BY <1>2, BlockFacts, BlockConstants
  <2>2. e \in Entry /\ e.key = b.ent[p].key
    BY <2>1 DEF Entry
  <2>3. ModVal(b, p, v) = Edit(b, b.nkeys, ent, b.lnk)
    BY <1>2 DEF ModVal, Edit, Block
  <2> HIDE DEF e
  <2>4. /\ ent \in [0 .. MXKEY - 1 -> Entry \cup {NoEnt}]
        /\ \A i \in 0 .. b.nkeys - 1 : ent[i] \in Entry /\ ent[i].key = b.ent[i].key
    BY <2>1, <2>2
  <2> HIDE DEF ent
  <2> QED
    BY <2>1, <2>3, <2>4 DEF Edit, Block
<1> QED
  BY <1>1, <1>2, BlockFacts

(* bcpybk to an empty target copies live keys only.                        *)
LEMMA CopyKeysBlock ==
  ASSUME NEW b \in Block, NEW f \in Block, NEW fs \in Nat, NEW n \in Nat,
         fs + n <= f.nkeys
  PROVE  /\ CopyKeys(b, f, fs, n) \in Block
         /\ CopyKeys(b, f, fs, n).type = b.type
         /\ CopyKeys(b, f, fs, n).nkeys = n
<1> DEFINE ent == [i \in 0 .. MXKEY - 1 |-> IF i < n THEN f.ent[fs + i] ELSE NoEnt]
           lnk == [i \in 0 .. MXKEY |-> IF i <= n THEN f.lnk[fs + i] ELSE ZNULL]
<1>1. /\ f.nkeys \in 0 .. MXKEY /\ f.nkeys \in Int
      /\ f.ent \in [0 .. MXKEY - 1 -> Entry \cup {NoEnt}]
      /\ f.lnk \in [0 .. MXKEY -> ChildOrNull]
      /\ \A i \in 0 .. f.nkeys - 1 : f.ent[i] \in Entry
  BY BlockFacts, BlockConstants
<1>2. CopyKeys(b, f, fs, n) = Edit(b, n, ent, lnk)
  BY DEF CopyKeys, Edit
<1>3. /\ ent \in [0 .. MXKEY - 1 -> Entry \cup {NoEnt}]
      /\ \A i \in 0 .. n - 1 : ent[i] \in Entry
  <2>1. ASSUME NEW i \in 0 .. MXKEY - 1, i < n PROVE f.ent[fs + i] \in Entry
    <3>1. fs + i \in 0 .. f.nkeys - 1
      BY <1>1, <2>1, BlockConstants
    <3> QED  BY <1>1, <3>1
  <2>2. \A i \in 0 .. n - 1 : i \in 0 .. MXKEY - 1 /\ i < n
    BY <1>1, BlockConstants
  <2> QED  BY <2>1, <2>2
<1>4. lnk \in [0 .. MXKEY -> ChildOrNull]
  BY <1>1, BlockConstants DEF ChildOrNull
<1>5. n \in 0 .. MXKEY
  BY <1>1, BlockConstants
<1> HIDE DEF ent, lnk
<1> QED
  BY <1>2, <1>3, <1>4, <1>5 DEF Edit, Block

(* bcpybk to the end of a block with room for the keys keeps it a block.   *)
LEMMA AppendKeysBlock ==
  ASSUME NEW b \in Block, NEW f \in Block, b.nkeys + f.nkeys <= MXKEY
  PROVE  /\ AppendKeys(b, f) \in Block
         /\ AppendKeys(b, f).type = b.type
<1> DEFINE t == b.nkeys
           n == f.nkeys
           ent == [i \in 0 .. MXKEY - 1 |->
                     IF i < t THEN b.ent[i]
                     ELSE IF i < t + n THEN f.ent[i - t] ELSE NoEnt]
           lnk == [i \in 0 .. MXKEY |->
                     IF i = t + n THEN f.lnk[n]
                     ELSE IF i <= t THEN b.lnk[i]
                     ELSE IF i < t + n THEN f.lnk[i - t - 1] ELSE ZNULL]
<1>1. /\ t \in Nat /\ n \in Nat
      /\ b.ent \in [0 .. MXKEY - 1 -> Entry \cup {NoEnt}]
      /\ b.lnk \in [0 .. MXKEY -> ChildOrNull]
      /\ \A i \in 0 .. t - 1 : b.ent[i] \in Entry
      /\ f.ent \in [0 .. MXKEY - 1 -> Entry \cup {NoEnt}]
      /\ f.lnk \in [0 .. MXKEY -> ChildOrNull]
      /\ \A i \in 0 .. n - 1 : f.ent[i] \in Entry
  BY BlockFacts, BlockConstants
<1>2. AppendKeys(b, f) = Edit(b, t + n, ent, lnk)
  BY DEF AppendKeys, Edit
<1>3. /\ ent \in [0 .. MXKEY - 1 -> Entry \cup {NoEnt}]
      /\ \A i \in 0 .. (t + n) - 1 : ent[i] \in Entry
  <2>1. t + n <= MXKEY
    OBVIOUS
  <2> HIDE DEF t, n
  <2> QED
    BY <1>1, <2>1, BlockConstants
<1>4. lnk \in [0 .. MXKEY -> ChildOrNull]
  <2>1. t + n <= MXKEY
    OBVIOUS
  <2> HIDE DEF t, n
  <2>2. ASSUME NEW i \in 0 .. MXKEY
        PROVE  (IF i = t + n THEN f.lnk[n]
                ELSE IF i <= t THEN b.lnk[i]
                ELSE IF i < t + n THEN f.lnk[i - t - 1] ELSE ZNULL)
                 \in ChildOrNull
    <3>1. ZNULL \in ChildOrNull
      BY DEF ChildOrNull
    <3>2. f.lnk[n] \in ChildOrNull
      <4>1. n \in 0 .. MXKEY
        BY <1>1, <2>1, BlockConstants
      <4> QED
        BY <1>1, <4>1
    <3>3. b.lnk[i] \in ChildOrNull
      BY <1>1
    <3>4. CASE ~(i <= t) /\ i < t + n
      <4>1. i - t - 1 \in 0 .. MXKEY
        BY <1>1, <2>1, <3>4, BlockConstants
      <4>2. f.lnk[i - t - 1] \in ChildOrNull
        BY <1>1, <4>1
      <4> QED
        BY <3>2, <4>2, <3>4
    <3>5. CASE ~(~(i <= t) /\ i < t + n)
      BY <3>1, <3>2, <3>3, <3>5
    <3> QED
      BY <3>4, <3>5
  <2> QED
    BY <2>2
<1>5. t + n \in 0 .. MXKEY
  BY <1>1, BlockConstants
<1> HIDE DEF ent, lnk
<1> QED
  BY <1>2, <1>3, <1>4, <1>5 DEF Edit, Block

(* The halves of a full block and the key between them.                    *)
LEMMA SplitPoint ==
  /\ Sp \in Nat /\ Sp2 \in Nat
  /\ Sp + 1 + Sp2 = MXKEY
  BY BlockConstants DEF Sp, Sp2

----------------------------------------------------------------------------
(* The blocks a path from the root has at depth n: no block above the      *)
(* root, the root, and below it only blocks that can be linked to.         *)
Depth(n) == IF n = 0 THEN {ZNULL} ELSE IF n = 1 THEN {ROOT} ELSE Child

(* The stack and the last find form a path that starts at the root.        *)
StackShape ==
  /\ \A i \in 1 .. Len(stk) : stk[i].blk \in Depth(i - 1)
  /\ lf.blk \in Depth(Len(stk))

(* What each routine relies on when it starts.                             *)
RoutineState ==
  /\ pc \in {"find", "refind"} =>
       /\ cblk \in Depth(Len(stk) + 1)
       /\ [blk |-> lf.blk, pos |-> lf.pos] \in Frame
  /\ pc \in {"find", "refind", "insert"} => lf.exct = FALSE
  /\ pc = "descend" =>
       /\ lf.blk # ZNULL /\ lf.pos >= 0
       /\ tgt.blk # ZNULL /\ tgt.pos < MXKEY
  /\ pc \in {"join", "balance"} => lf.blk \in Child
  /\ pc = "balance" => Top.pos <= Blk(Top.blk).nkeys
  /\ pc = "demote" => lf.blk # ZNULL /\ cblk \in ChildOrNull

(* The arguments of the call under way, and that a call that met no        *)
(* inconsistency has recorded no error.                                    *)
CallState ==
  /\ op.name = "ins" => op.key \in Key /\ op.val \in Val
  /\ op.name = "upd" => op.val \in Val
  /\ pc = "insert" => op.name = "ins"
  /\ pc = "update" => op.name = "upd"
  /\ spoiled = TRUE => pc \in {"idle", "demote", "refind"}
  /\ pc # "idle" /\ spoiled = FALSE => err = "OK"

(* The root stays the only block of its type that is ever reached.         *)
RootIsRoot == blocks[ROOT].type = "root"

IInv ==
  /\ TypeOK /\ RootIsRoot /\ StackShape /\ RoutineState /\ CallState
  /\ CursorExact
----------------------------------------------------------------------------
(* The store of blocks, as an operator would like to find it.              *)
Sound(B) == B \in [Link -> Block] /\ B[ROOT].type = "root"

(* The block numbers: those of the tree are blocks of the file.            *)
LEMMA BlockNumbers ==
  /\ ROOT \in Link /\ ROOT \notin ChildOrNull /\ Child \subseteq Link
  /\ TreeBlk \subseteq Link /\ ZNULL \notin TreeBlk /\ ZNULL \notin Link
  /\ ZNULL \in ChildOrNull
  BY BlockConstants DEF ROOT, ChildOrNull, Child, Link, TreeBlk, ZNULL

(* A read returns a block, whatever is read.                               *)
LEMMA ReadBlock ==
  ASSUME NEW B \in [Link -> Block], NEW a \in TreeBlk \cup {ZNULL}
  PROVE  /\ Read(B, a) \in Block
         /\ a # ZNULL => Read(B, a) = B[a]
         /\ a = ZNULL => Read(B, a).nkeys = 0
<1>1. CASE a = ZNULL
  <2>1. NoBlock \in Block
    BY FreshIsBlock, BlockNumbers DEF NoBlock, BlockType
  <2>2. NoBlock.nkeys = 0
    BY DEF NoBlock, FreshBlock
  <2> QED
    BY <1>1, <2>1, <2>2 DEF Read
<1>2. CASE a # ZNULL
  BY <1>2, BlockNumbers DEF Read
<1> QED
  BY <1>1, <1>2

(* Writing a block keeps the store sound if the root keeps its type.       *)
LEMMA WriteBlock ==
  ASSUME NEW B, Sound(B), NEW a, NEW v,
         a \in Link => v \in Block,
         a = ROOT => v.type = "root"
  PROVE  /\ Sound([B EXCEPT ![a] = v])
         /\ a \in Link => [B EXCEPT ![a] = v][a] = v
         /\ \A c \in Link : c # a => [B EXCEPT ![a] = v][c] = B[c]
  BY BlockNumbers DEF Sound

(* bmkfre of a block that is not the root keeps the store sound.           *)
LEMMA FreeSound ==
  ASSUME NEW B, Sound(B), NEW s, s.freep \in ChildOrNull,
         NEW a \in ChildOrNull
  PROVE  Sound(FreeBlock(s, B, a))
<1>1. FreshBlock("free", s.freep) \in Block
  BY FreshIsBlock DEF BlockType
<1> QED
  BY <1>1, WriteBlock, BlockNumbers DEF FreeBlock

SuperOK(s) == s \in [blkmx : 2 .. MAXBLK, nfree : Int, freep : ChildOrNull,
                     limit : Limits]

(* bgtfre hands out a block that is not the superroot or the root, and     *)
(* never grows the file past its limit.                                    *)
LEMMA GetFreeSound ==
  ASSUME NEW B, Sound(B), NEW s, SuperOK(s)
  PROVE  /\ GetFree(s, B) \in ChildOrNull
         /\ GetFree(s, B) # ZNULL => SuperOK(Taken(s, B))
         /\ NoFree(s) \in Error
<1>1. CASE s.freep # ZNULL
  <2>1. s.freep \in Child /\ B[s.freep] \in Block
    BY <1>1, BlockNumbers DEF SuperOK, ChildOrNull, Sound
  <2>2. B[s.freep].nxt \in ChildOrNull
    BY <2>1, BlockFacts
  <2>3. GetFree(s, B) \in ChildOrNull
    BY <1>1, <2>1 DEF GetFree, ChildOrNull
  <2>4. SuperOK(Taken(s, B))
    <3>1. s.nfree \in Int /\ s.nfree - 1 \in Int
      BY DEF SuperOK
    <3> QED
      BY <1>1, <2>2, <3>1 DEF Taken, SuperOK
  <2> QED
    BY <2>3, <2>4 DEF NoFree, Error
<1>2. CASE s.freep = ZNULL
  <2>1. s.limit \in 2 .. MAXBLK /\ s.blkmx \in 2 .. MAXBLK
    BY CallConstants DEF SuperOK
  <2>2. GetFree(s, B) \in ChildOrNull
    BY <1>2, <2>1, BlockConstants DEF GetFree, ChildOrNull, Child
  <2>3. GetFree(s, B) # ZNULL => SuperOK(Taken(s, B))
    BY <1>2, <2>1, BlockConstants DEF GetFree, Taken, SuperOK
  <2> QED
    BY <2>2, <2>3 DEF NoFree, Error
<1> QED
  BY <1>1, <1>2

(* bmkfre keeps the superblock well-typed.                                 *)
LEMMA FreeSuperOK ==
  ASSUME NEW s, SuperOK(s), NEW a \in ChildOrNull
  PROVE  SuperOK(FreeSuper(s, a))
<1>1. s.nfree \in Int /\ s.nfree + 1 \in Int
  BY DEF SuperOK
<1> QED
  BY <1>1 DEF SuperOK, FreeSuper

(* bsptbk of a full child keeps the store sound.                           *)
LEMMA SplitSound ==
  ASSUME NEW B, Sound(B), NEW b \in Child, NEW new \in ChildOrNull,
         NEW p \in TreeBlk, Full(B[b])
  PROVE  Sound(Split(B, b, new, p))
<1> DEFINE f  == Read(B, b)
           e  == f.ent[Sp]
           n1 == CopyKeys(FreshBlock("inuse", ZNULL), f, Sp + 1, Sp2)
           n2 == CopyKeys(f, f, 0, Sp)
           n3 == PutKey(B[p], e, b, new)
           B1 == [B EXCEPT ![new] = n1]
           B2 == [B1 EXCEPT ![b] = n2]
           B3 == [B2 EXCEPT ![p] = n3]
<1>1. f \in Block /\ f = B[b] /\ f.nkeys = MXKEY
  BY ReadBlock, BlockNumbers DEF Sound, TreeBlk, Full
<1>2. e \in Entry
  BY <1>1, SplitPoint, BlockFacts, BlockConstants
<1>3. FreshBlock("inuse", ZNULL) \in Block
  BY FreshIsBlock, BlockNumbers DEF BlockType
<1>4. n1 \in Block
  <2>1. Sp + 1 \in Nat /\ Sp2 \in Nat /\ (Sp + 1) + Sp2 <= f.nkeys
    BY <1>1, SplitPoint, BlockConstants
  <2> QED
    BY <1>1, <1>3, <2>1, CopyKeysBlock
<1>5. n2 \in Block
  <2>1. Sp \in Nat /\ 0 + Sp <= f.nkeys
    BY <1>1, SplitPoint, BlockConstants
  <2> QED
    BY <1>1, <2>1, CopyKeysBlock
<1>6. n3 \in Block /\ (p = ROOT => n3.type = "root")
  <2>1. b \in ChildOrNull
    BY DEF ChildOrNull
  <2>2. B[p] \in Block /\ (p = ROOT => B[p].type = "root")
    BY BlockNumbers DEF Sound
  <2> HIDE DEF e
  <2> QED
    BY <1>2, <2>1, <2>2, PutKeyBlock
<1>7. Split(B, b, new, p) = B3
  BY DEF Split
<1> HIDE DEF n1, n2, n3, e
<1>8. Sound(B1)
  BY <1>4, WriteBlock, BlockNumbers
<1> HIDE DEF B1
<1>9. Sound(B2)
  BY <1>5, <1>8, WriteBlock, BlockNumbers DEF ChildOrNull
<1> HIDE DEF B2
<1>10. Sound(B3)
  BY <1>6, <1>9, WriteBlock
<1> QED
  BY <1>7, <1>10

(* The split of the root keeps the store sound: its new form has one key.  *)
LEMMA SplitRootSound ==
  ASSUME NEW B, Sound(B), NEW r \in Block, r = B[ROOT], Full(r),
         NEW b1 \in ChildOrNull, NEW b2 \in ChildOrNull
  PROVE  LET new == FreshBlock("inuse", ZNULL)
         IN  Sound([B EXCEPT
               ![b1] = CopyKeys(new, r, 0, Sp),
               ![b2] = CopyKeys(new, r, Sp + 1, Sp2),
               ![ROOT] = [RepKey(CopyKeys(r, r, 0, 0), 0, r.ent[Sp], b1, b2)
                            EXCEPT !.nkeys = 1]])
<1> DEFINE new == FreshBlock("inuse", ZNULL)
           e  == r.ent[Sp]
           n1 == CopyKeys(new, r, 0, Sp)
           n2 == CopyKeys(new, r, Sp + 1, Sp2)
           c  == CopyKeys(r, r, 0, 0)
           d  == RepKey(c, 0, e, b1, b2)
           n3 == [d EXCEPT !.nkeys = 1]
           B1 == [B EXCEPT ![b1] = n1]
           B2 == [B1 EXCEPT ![b2] = n2]
           B3 == [B2 EXCEPT ![ROOT] = n3]
<1>1. r.nkeys = MXKEY /\ r.type = "root"
  BY DEF Full, Sound
<1>2. e \in Entry
  BY <1>1, SplitPoint, BlockFacts, BlockConstants
<1>3. new \in Block
  BY FreshIsBlock, BlockNumbers DEF BlockType
<1> HIDE DEF new
<1>4. n1 \in Block
  <2>1. Sp \in Nat /\ 0 + Sp <= r.nkeys
    BY <1>1, SplitPoint, BlockConstants
  <2> QED
    BY <1>3, <2>1, CopyKeysBlock
<1>5. n2 \in Block
  <2>1. Sp + 1 \in Nat /\ Sp2 \in Nat /\ (Sp + 1) + Sp2 <= r.nkeys
    BY <1>1, SplitPoint, BlockConstants
  <2> QED
    BY <1>3, <2>1, CopyKeysBlock
<1>6. c \in Block /\ c.type = "root" /\ c.nkeys = 0
  <2>1. 0 \in Nat /\ 0 + 0 <= r.nkeys
    BY <1>1, BlockConstants
  <2> QED
    BY <1>1, <2>1, CopyKeysBlock
<1> HIDE DEF c, e
<1>7. d \in Block /\ d.type = "root" /\ d.ent[0] = e
  <2>1. 0 \in 0 .. MXKEY - 1
    BY BlockConstants
  <2> QED
    BY <1>2, <1>6, <2>1, RepKeyBlock
<1> HIDE DEF d
<1>8. n3 \in Block /\ n3.type = "root"
  <2>1. 1 \in 0 .. MXKEY /\ (\A i \in 0 .. 1 - 1 : d.ent[i] \in Entry)
    BY <1>2, <1>7, BlockConstants
  <2>2. n3 \in [type  : BlockType, nkeys : 0 .. MXKEY, nxt : ChildOrNull,
                ent   : [0 .. MXKEY - 1 -> Entry \cup {NoEnt}],
                lnk   : [0 .. MXKEY -> ChildOrNull]]
    BY <1>7, <2>1 DEF Block
  <2>3. n3.nkeys = 1 /\ n3.ent = d.ent /\ n3.type = d.type
    BY <1>7 DEF Block
  <2> HIDE DEF n3
  <2> QED
    BY <1>7, <2>1, <2>2, <2>3 DEF Block
<1> HIDE DEF n1, n2, n3
<1>9. Sound(B1)
  BY <1>4, WriteBlock, BlockNumbers
<1> HIDE DEF B1
<1>10. Sound(B2)
  BY <1>5, <1>9, WriteBlock, BlockNumbers
<1> HIDE DEF B2
<1>11. Sound(B3)
  BY <1>8, <1>10, WriteBlock
<1> QED
  BY <1>11 DEF B3, B2, B1, n1, n2, n3, d, c, e, new

(* bjoin keeps the store sound: with at most MXKEY - THRES - 1 keys in the *)
(* two leaves, they and the separator fit in one block.                    *)
LEMMA JoinSound ==
  ASSUME NEW B, Sound(B), NEW p \in TreeBlk, NEW s \in 0 .. B[p].nkeys - 1,
         NEW l \in ChildOrNull, NEW r \in ChildOrNull,
         Joinable(Read(B, l).nkeys, Read(B, r).nkeys)
  PROVE  Sound([B EXCEPT
                  ![p] = RemKey(@, s),
                  ![l] = AppendKeys(PutKey(Read(B, l), B[p].ent[s], ZNULL, ZNULL),
                                    Read(B, r))])
<1> DEFINE e  == B[p].ent[s]
           L  == Read(B, l)
           R  == Read(B, r)
           n1 == RemKey(B[p], s)
           m  == PutKey(L, e, ZNULL, ZNULL)
           n2 == AppendKeys(m, R)
           B1 == [B EXCEPT ![p] = n1]
           B2 == [B1 EXCEPT ![l] = n2]
<1>1. B[p] \in Block /\ (p = ROOT => B[p].type = "root")
  BY BlockNumbers DEF Sound
<1>2. e \in Entry
  BY <1>1, BlockFacts
<1>3. n1 \in Block /\ n1.type = B[p].type
  BY <1>1, RemKeyBlock
<1>4. L \in Block /\ R \in Block
  BY ReadBlock DEF Sound, TreeBlk, ChildOrNull
<1>5. L.nkeys + R.nkeys < MXKEY - THRES /\ L.nkeys \in Nat /\ R.nkeys \in Nat
  BY <1>4, BlockFacts, BlockConstants DEF Joinable
<1> HIDE DEF e, L, R, n1
<1>6. m \in Block /\ m.nkeys \in {L.nkeys, L.nkeys + 1}
  BY <1>2, <1>4, BlockNumbers, PutKeyBlock
<1>7. m.nkeys + R.nkeys <= MXKEY
  BY <1>5, <1>6, BlockConstants
<1> HIDE DEF m
<1>8. n2 \in Block
  BY <1>4, <1>6, <1>7, AppendKeysBlock
<1> HIDE DEF n2
<1>9. Sound(B1)
  BY <1>1, <1>3, WriteBlock
<1> HIDE DEF B1
<1>10. Sound(B2)
  BY <1>8, <1>9, WriteBlock, BlockNumbers
<1> QED
  BY <1>10 DEF B2, B1, n2, n1, m, L, R, e

(* bdelk1's replacement of an interior key by the last key of a leaf.      *)
LEMMA ReplaceSound ==
  ASSUME NEW B, Sound(B), NEW a \in TreeBlk, NEW c \in TreeBlk,
         NEW p \in 0 .. MXKEY - 1, NEW q \in 0 .. B[c].nkeys - 1
  PROVE  Sound([B EXCEPT
                  ![a] = RepKey(@, p, B[c].ent[q], B[a].lnk[p], B[a].lnk[p + 1]),
                  ![c] = RemKey(B[c], q)])
<1> DEFINE e  == B[c].ent[q]
           k1 == B[a].lnk[p]
           k2 == B[a].lnk[p + 1]
           n1 == RepKey(B[a], p, e, k1, k2)
           n2 == RemKey(B[c], q)
           B1 == [B EXCEPT ![a] = n1]
           B2 == [B1 EXCEPT ![c] = n2]
<1>1. /\ B[a] \in Block /\ (a = ROOT => B[a].type = "root")
      /\ B[c] \in Block /\ (c = ROOT => B[c].type = "root")
  BY BlockNumbers DEF Sound
<1>2. e \in Entry
  BY <1>1, BlockFacts
<1>3. k1 \in ChildOrNull /\ k2 \in ChildOrNull
  <2>1. B[a].lnk \in [0 .. MXKEY -> ChildOrNull]
    BY <1>1, BlockFacts
  <2> QED
    BY <2>1, BlockConstants
<1> HIDE DEF e, k1, k2
<1>4. n1 \in Block /\ n1.type = B[a].type
  BY <1>1, <1>2, <1>3, RepKeyBlock
<1>5. n2 \in Block /\ n2.type = B[c].type
  BY <1>1, RemKeyBlock
<1> HIDE DEF n1, n2
<1>6. Sound(B1)
  BY <1>1, <1>4, WriteBlock
<1> HIDE DEF B1
<1>7. Sound(B2)
  BY <1>1, <1>5, <1>6, WriteBlock
<1> QED
  BY <1>7 DEF B2, B1, n2, n1, e, k1, k2

(* How many keys balbk1 moves: the fuller of two uneven leaves keeps at    *)
(* least as many keys as the other had.                                    *)
LEMMA MovedFacts ==
  ASSUME NEW l \in Block, NEW r \in Block, Uneven(l.nkeys, r.nkeys)
  PROVE  /\ Moved(l, r) \in Nat
         /\ l.nkeys < r.nkeys => l.nkeys + Moved(l, r) + 1 <= r.nkeys
         /\ l.nkeys >= r.nkeys => r.nkeys + Moved(l, r) + 1 <= l.nkeys
<1>1. l.nkeys \in Nat /\ r.nkeys \in Nat
  BY BlockFacts, BlockConstants
<1>2. PICK a \in Nat, b \in Nat : a = l.nkeys /\ b = r.nkeys
  BY <1>1
<1>3. MXKEY \div 2 \in Nat
  BY BlockConstants
<1> QED
  BY <1>2, <1>3 DEF Moved, Uneven, Abs

(* Uneven leaves are uneven seen from either side.                         *)
LEMMA UnevenSym ==
  ASSUME NEW n \in Int, NEW m \in Int, Uneven(n, m)
  PROVE  Uneven(m, n)
  BY DEF Uneven, Abs

(* Block b refilled with n keys of l, e and r in a row, from place fs.     *)
Refill(b, l, r, e, fs, n) ==
  [b EXCEPT !.nkeys = n, !.ent = Spread(l, r, e, fs, n)]

(* A leaf refilled from two leaves and their separator holds keys only.    *)
LEMMA SpreadBlock ==
  ASSUME NEW l \in Block, NEW r \in Block, NEW e \in Entry,
         NEW b \in Block, NEW fs \in Nat, NEW n \in 0 .. MXKEY,
         fs + n <= l.nkeys + r.nkeys + 1
  PROVE  /\ Refill(b, l, r, e, fs, n) \in Block
         /\ Refill(b, l, r, e, fs, n).type = b.type
<1> DEFINE ent == Spread(l, r, e, fs, n)
<1>1. /\ l.nkeys \in 0 .. MXKEY /\ r.nkeys \in 0 .. MXKEY
      /\ \A i \in 0 .. l.nkeys - 1 : l.ent[i] \in Entry
      /\ \A i \in 0 .. r.nkeys - 1 : r.ent[i] \in Entry
  BY BlockFacts
<1>2. PICK x \in 0 .. MXKEY, y \in 0 .. MXKEY : x = l.nkeys /\ y = r.nkeys
  BY <1>1
<1>3. \A i \in 0 .. MXKEY - 1 : IF i < n THEN ent[i] \in Entry ELSE ent[i] = NoEnt
  <2> SUFFICES ASSUME NEW i \in 0 .. MXKEY - 1
               PROVE  IF i < n THEN ent[i] \in Entry ELSE ent[i] = NoEnt
    OBVIOUS
  <2>1. ent[i] = IF i >= n THEN NoEnt
                 ELSE IF fs + i < x THEN l.ent[fs + i]
                 ELSE IF fs + i = x THEN e ELSE r.ent[fs + i - x - 1]
    BY <1>2 DEF Spread
  <2>2. CASE i >= n
    BY <2>1, <2>2, BlockConstants
  <2>3. CASE i < n /\ fs + i < x
    BY <1>1, <1>2, <2>1, <2>3, BlockConstants
  <2>4. CASE i < n /\ fs + i = x
    BY <2>1, <2>4, BlockConstants
  <2>5. CASE i < n /\ fs + i > x
    <3>1. fs + i - x - 1 \in 0 .. y - 1
      BY <1>2, <2>5, BlockConstants
    <3> QED
      BY <1>1, <1>2, <2>1, <2>5, <3>1, BlockConstants
  <2> QED
    BY <2>2, <2>3, <2>4, <2>5, BlockConstants
<1>4. /\ ent \in [0 .. MXKEY - 1 -> Entry \cup {NoEnt}]
      /\ \A i \in 0 .. n - 1 : ent[i] \in Entry
  <2>1. DOMAIN ent = 0 .. MXKEY - 1 /\ ent = [i \in 0 .. MXKEY - 1 |-> ent[i]]
    BY DEF Spread
  <2> HIDE DEF ent
  <2> QED
    BY <1>3, <2>1, BlockConstants
<1> HIDE DEF ent
<1>5. Refill(b, l, r, e, fs, n) = Edit(b, n, ent, b.lnk)
  BY DEF Refill, Edit, Block, ent
<1>6. b.lnk \in [0 .. MXKEY -> ChildOrNull]
  BY BlockFacts
<1> QED
  BY <1>4, <1>5, <1>6 DEF Edit, Block

(* balbk1 keeps the store sound.                                           *)
LEMMA BalanceSound ==
  ASSUME NEW B, Sound(B), NEW p \in TreeBlk, NEW s \in 0 .. B[p].nkeys - 1,
         NEW l \in ChildOrNull, NEW r \in ChildOrNull,
         Uneven(Read(B, l).nkeys, Read(B, r).nkeys)
  PROVE  Sound([B EXCEPT
           ![p] = RepKey(@, s, Separator(Read(B, l), Read(B, r)), l, r),
           ![l] = BalLeft(Read(B, l), Read(B, r), B[p].ent[s]),
           ![r] = BalRight(Read(B, l), Read(B, r), B[p].ent[s])])
<1> DEFINE e  == B[p].ent[s]
           L  == Read(B, l)
           R  == Read(B, r)
           n1 == RepKey(B[p], s, Separator(L, R), l, r)
           n2 == BalLeft(L, R, e)
           n3 == BalRight(L, R, e)
           B1 == [B EXCEPT ![p] = n1]
           B2 == [B1 EXCEPT ![l] = n2]
           B3 == [B2 EXCEPT ![r] = n3]
<1>1. B[p] \in Block /\ (p = ROOT => B[p].type = "root")
  BY BlockNumbers DEF Sound
<1>2. e \in Entry /\ s \in 0 .. MXKEY - 1
  BY <1>1, BlockFacts, BlockConstants
<1>3. L \in Block /\ R \in Block
  BY ReadBlock DEF Sound, TreeBlk, ChildOrNull
<1>4. /\ L.nkeys \in 0 .. MXKEY /\ R.nkeys \in 0 .. MXKEY
      /\ \A i \in 0 .. L.nkeys - 1 : L.ent[i] \in Entry
      /\ \A i \in 0 .. R.nkeys - 1 : R.ent[i] \in Entry
  BY <1>3, BlockFacts
<1>5. Uneven(L.nkeys, R.nkeys)
  OBVIOUS
<1> HIDE DEF e, L, R
<1>6. /\ Moved(L, R) \in Nat
      /\ L.nkeys < R.nkeys => L.nkeys + Moved(L, R) + 1 <= R.nkeys
      /\ L.nkeys >= R.nkeys => R.nkeys + Moved(L, R) + 1 <= L.nkeys
  BY <1>3, <1>5, MovedFacts
<1>7. Separator(L, R) \in Entry
  BY <1>4, <1>6, BlockConstants DEF Separator
<1>8. n1 \in Block /\ n1.type = B[p].type
  <2> HIDE DEF n1
  <2> QED
    BY <1>1, <1>2, <1>7, RepKeyBlock DEF n1
<1>9. n2 \in Block
  <2> DEFINE n == IF L.nkeys < R.nkeys THEN L.nkeys + (Moved(L, R) + 1)
                                       ELSE L.nkeys - (Moved(L, R) + 1)
  <2>1. n \in 0 .. MXKEY /\ 0 + n <= L.nkeys + R.nkeys + 1 /\ 0 \in Nat
    BY <1>4, <1>6, BlockConstants
  <2>2. n2 = Refill(L, L, R, e, 0, n)
    BY DEF BalLeft, Refill
  <2> HIDE DEF n, n2
  <2> QED
    BY <1>2, <1>3, <2>1, <2>2, SpreadBlock
<1>10. n3 \in Block
  <2> DEFINE n == IF L.nkeys < R.nkeys THEN R.nkeys - (Moved(L, R) + 1)
                                       ELSE R.nkeys + (Moved(L, R) + 1)
             fs == L.nkeys + R.nkeys + 1 - n
  <2>1. /\ n \in 0 .. MXKEY /\ fs \in Nat
        /\ fs + n <= L.nkeys + R.nkeys + 1
    BY <1>4, <1>6, BlockConstants
  <2>2. n3 = Refill(R, L, R, e, fs, n)
    BY DEF BalRight, Refill
  <2> HIDE DEF n, fs, n3
  <2> QED
    BY <1>2, <1>3, <2>1, <2>2, SpreadBlock
<1> HIDE DEF n1, n2, n3
<1>11. Sound(B1)
  BY <1>1, <1>8, WriteBlock
<1> HIDE DEF B1
<1>12. Sound(B2)
  BY <1>9, <1>11, WriteBlock, BlockNumbers
<1> HIDE DEF B2
<1>13. Sound(B3)
  BY <1>10, <1>12, WriteBlock, BlockNumbers
<1> QED
  BY <1>13 DEF B3, B2, B1, n3, n2, n1, L, R, e

(* bdemte's merge keeps the store sound.                                   *)
LEMMA MergeSound ==
  ASSUME NEW B, Sound(B), NEW s, s.freep \in ChildOrNull,
         NEW to \in ChildOrNull, NEW e \in Entry,
         cblk \in ChildOrNull, Link2 \in ChildOrNull
  PROVE  Sound(Merge(B, s, to, e))
<1> DEFINE R  == Read(B, Link2)
           c  == CopyKeys(B[to], R, 0, R.nkeys)
           n1 == IF OnRight THEN PutKey(B[to], e, ZNULL, cblk)
                 ELSE PutKey(c, e, cblk, ZNULL)
           B1 == [B EXCEPT ![to] = n1]
<1>1. R \in Block
  BY ReadBlock DEF Sound, TreeBlk, ChildOrNull
<1>2. to \in Link => n1 \in Block
  <2> SUFFICES ASSUME to \in Link PROVE n1 \in Block
    OBVIOUS
  <2>1. B[to] \in Block
    BY DEF Sound
  <2>2. c \in Block
    <3>1. 0 \in Nat /\ R.nkeys \in Nat /\ 0 + R.nkeys <= R.nkeys
      BY <1>1, BlockFacts, BlockConstants
    <3> HIDE DEF R
    <3> QED
      BY <1>1, <2>1, <3>1, CopyKeysBlock
  <2> HIDE DEF c
  <2>3. PutKey(B[to], e, ZNULL, cblk) \in Block
    BY <2>1, BlockNumbers, PutKeyBlock
  <2>4. PutKey(c, e, cblk, ZNULL) \in Block
    BY <2>2, BlockNumbers, PutKeyBlock
  <2> QED
    BY <2>3, <2>4
<1>3. Merge(B, s, to, e) = FreeBlock(s, B1, Link2)
  BY DEF Merge
<1> HIDE DEF n1
<1>4. Sound(B1)
  BY <1>2, WriteBlock, BlockNumbers
<1> HIDE DEF B1
<1> QED
  BY <1>3, <1>4, FreeSound

----------------------------------------------------------------------------
(* How the steps of a call treat the stack and how they end.               *)

(* bpush of the last find on the way down.                                 *)
LEMMA PushShape ==
  ASSUME IInv, [blk |-> lf.blk, pos |-> lf.pos] \in Frame,
         stk' = Push(lf.blk, lf.pos), lf'.blk \in Depth(Len(stk) + 1)
  PROVE  stk' \in Seq(Frame) /\ StackShape' /\ Len(stk') = Len(stk) + 1
<1>1. stk \in Seq(Frame) /\ Len(stk) \in Nat
  BY DEF IInv, TypeOK
<1>2. stk' \in Seq(Frame) /\ Len(stk') = Len(stk) + 1
  BY <1>1 DEF Push
<1>3. \A i \in 1 .. Len(stk') : stk'[i].blk \in Depth(i - 1)
  <2> SUFFICES ASSUME NEW i \in 1 .. Len(stk') PROVE stk'[i].blk \in Depth(i - 1)
    OBVIOUS
  <2>1. CASE i \in 1 .. Len(stk)
    BY <1>1, <2>1 DEF IInv, StackShape, Push
  <2>2. CASE i = Len(stk) + 1
    <3>1. stk'[i].blk = lf.blk
      BY <1>1, <2>2 DEF Push
    <3>2. i - 1 = Len(stk)
      BY <1>1, <2>2
    <3> QED
      BY <3>1, <3>2 DEF IInv, StackShape
  <2> QED
    BY <1>1, <1>2, <2>1, <2>2
<1> QED
  BY <1>2, <1>3 DEF StackShape

(* What the top of a stack that is not empty is.                           *)
LEMMA TopFacts ==
  ASSUME IInv, stk # <<>>
  PROVE  /\ Len(stk) \in Nat /\ Len(stk) >= 1
         /\ Top \in Frame /\ Top = stk[Len(stk)]
         /\ Top.blk \in Depth(Len(stk) - 1)
<1>1. stk \in Seq(Frame)
  BY DEF IInv, TypeOK
<1>2. Len(stk) \in Nat /\ Len(stk) >= 1 /\ Len(stk) \in 1 .. Len(stk)
  BY <1>1
<1> QED
  BY <1>1, <1>2 DEF IInv, StackShape, Top

(* The bpulls that undo a push: the last find moves to the parent.         *)
LEMMA PopShape ==
  ASSUME IInv, stk # <<>>, stk' = Rest, lf'.blk = Top.blk
  PROVE  stk' \in Seq(Frame) /\ StackShape' /\ Len(stk') = Len(stk) - 1
<1>1. stk \in Seq(Frame) /\ Len(stk) \in Nat /\ Len(stk) >= 1
  BY TopFacts DEF IInv, TypeOK
<1>2. stk' = SubSeq(stk, 1, Len(stk) - 1)
  BY DEF Rest
<1>3. stk' \in Seq(Frame) /\ Len(stk') = Len(stk) - 1
  <2>1. PICK m \in Nat : m = Len(stk) /\ m >= 1
    BY <1>1
  <2> DEFINE n == m - 1
  <2>2. SubSeq(stk, 1, n) \in Seq(Frame) /\ Len(SubSeq(stk, 1, n)) = n
    BY <1>1, <2>1
  <2> QED
    BY <1>2, <2>1, <2>2
<1>4. \A i \in 1 .. Len(stk') : stk'[i] = stk[i] /\ i \in 1 .. Len(stk)
  BY <1>1, <1>2
<1>5. \A i \in 1 .. Len(stk') : stk'[i].blk \in Depth(i - 1)
  BY <1>4 DEF IInv, StackShape
<1> QED
  BY <1>3, <1>5, TopFacts DEF StackShape

(* A block at a depth is a block of the tree, or none.                     *)
LEMMA DepthFacts ==
  ASSUME NEW n \in Nat
  PROVE  /\ Depth(n) \subseteq TreeBlk \cup {ZNULL}
         /\ n # 0 => Depth(n) \subseteq TreeBlk
         /\ n > 1 => Depth(n) = Child
         /\ \A b \in Depth(n) : (b = ROOT <=> n = 1) /\ (b = ZNULL <=> n = 0)
  BY DEF Depth, TreeBlk, Child, ROOT, ZNULL

(* The last find in a child block has a parent on the stack.               *)
LEMMA ParentFacts ==
  ASSUME IInv, lf.blk \in Child
  PROVE  /\ stk # <<>> /\ Len(stk) >= 2
         /\ Top.blk \in TreeBlk /\ Top.pos \in 0 .. MXKEY
<1>1. stk \in Seq(Frame) /\ Len(stk) \in Nat
  BY DEF IInv, TypeOK
<1>2. Len(stk) # 0 /\ Len(stk) # 1
  BY BlockNumbers DEF IInv, StackShape, Depth, Child, ROOT, ZNULL
<1>3. stk # <<>> /\ Len(stk) >= 2
  <2>1. PICK n \in Nat : n = Len(stk)
    BY <1>1
  <2>2. n >= 2
    BY <1>2, <2>1
  <2>3. stk # <<>>
    BY <1>2
  <2> QED
    BY <2>1, <2>2, <2>3
<1>4. Top \in Frame /\ Top.blk \in Depth(Len(stk) - 1)
  BY <1>3, TopFacts
<1>5. Top.blk \in TreeBlk
  <2>1. PICK n \in Nat : n = Len(stk) - 1 /\ n # 0
    BY <1>1, <1>3
  <2>2. Depth(n) \subseteq TreeBlk
    BY <2>1, DepthFacts
  <2> QED
    BY <1>4, <2>1, <2>2
<1>6. Top # NoFrame
  BY <1>5, BlockNumbers DEF NoFrame
<1> QED
  BY <1>3, <1>4, <1>5, <1>6 DEF Frame

(* An API call that returns.                                               *)
LEMMA ReturnInv ==
  ASSUME NEW e \in Error, Return(e), Sound(blocks'), SuperOK(super'),
         TypeOK, lf' \in [blk : TreeBlk \cup {ZNULL}, pos : -1 .. MXKEY,
                          exct : BOOLEAN, key : Key \cup {NoKey}],
         stk' \in Seq(Frame), StackShape', CursorExact',
         out' \in Val \cup {NoVal}, spoiled' \in BOOLEAN
  PROVE  IInv'
<1>1. /\ pc' = "idle" /\ op' = NoOp /\ err' = e /\ cblk' = ZNULL
      /\ tgt' = NoFrame
  BY DEF Return
<1>2. /\ op' \in [name : OpName, key : Key \cup {NoKey}, val : Val \cup {NoVal}]
      /\ op'.name = "none"
  BY <1>1 DEF NoOp, OpName
<1>3. TypeOK'
  BY <1>1, <1>2 DEF TypeOK, Sound, SuperOK, PC, Frame
<1>4. RootIsRoot'
  BY DEF RootIsRoot, Sound
<1>5. RoutineState'
  BY <1>1 DEF RoutineState
<1>6. CallState'
  BY <1>1, <1>2 DEF CallState
<1> QED
  BY <1>3, <1>4, <1>5, <1>6 DEF IInv

(* A call that returns and leaves the context alone.                       *)
LEMMA ReturnHere ==
  ASSUME IInv, NEW e \in Error, Return(e), Sound(blocks'), SuperOK(super'),
         UNCHANGED <<lf, stk, out>>, spoiled' \in BOOLEAN, CursorExact'
  PROVE  IInv'
<1>1. /\ lf' \in [blk : TreeBlk \cup {ZNULL}, pos : -1 .. MXKEY,
                          exct : BOOLEAN, key : Key \cup {NoKey}]
      /\ stk' \in Seq(Frame) /\ out' \in Val \cup {NoVal}
  BY DEF IInv, TypeOK
<1>2. StackShape'
  BY DEF IInv, StackShape
<1>3. TypeOK
  BY DEF IInv
<1> QED
  BY <1>1, <1>2, <1>3, ReturnInv

(* A store that a step leaves alone.                                       *)
LEMMA SameTree ==
  ASSUME IInv
  PROVE  /\ Sound(blocks) /\ SuperOK(super)
         /\ UNCHANGED blocks => Sound(blocks')
         /\ UNCHANGED super => SuperOK(super')
  BY DEF IInv, TypeOK, RootIsRoot, Sound, SuperOK

(* A routine that gives up.                                                *)
LEMMA GiveUpInv ==
  ASSUME IInv, NEW e \in Error, GiveUp(e)
  PROVE  IInv'
<1>1. Return(e) /\ UNCHANGED <<lf, stk, out>> /\ spoiled' = TRUE
  BY DEF GiveUp
<1>2. Sound(blocks') /\ SuperOK(super')
  BY SameTree DEF GiveUp, tree
<1>3. CursorExact'
  BY <1>1 DEF CursorExact
<1>4. spoiled' \in BOOLEAN
  BY <1>1
<1> QED
  BY <1>1, <1>2, <1>3, <1>4, ReturnHere

(* bfndky starts: the context is cleared and the descent is at the root.   *)
LEMMA StartFindShape ==
  ASSUME NEW k \in Key \cup {NoKey}, StartFind(k)
  PROVE  /\ lf' \in [blk : TreeBlk \cup {ZNULL}, pos : -1 .. MXKEY,
                     exct : BOOLEAN, key : Key \cup {NoKey}]
         /\ lf'.exct = FALSE
         /\ stk' \in Seq(Frame) /\ StackShape'
         /\ cblk' \in Depth(Len(stk') + 1)
         /\ cblk' \in TreeBlk /\ tgt' \in Frame
         /\ [blk |-> lf'.blk, pos |-> lf'.pos] \in Frame
<1>1. /\ stk' = <<>> /\ cblk' = ROOT /\ tgt' = NoFrame
      /\ lf' = [blk |-> ZNULL, pos |-> -1, exct |-> FALSE, key |-> k]
  BY DEF StartFind
<1>2. Len(stk') = 0 /\ stk' \in Seq(Frame)
  BY <1>1
<1>3. StackShape'
  BY <1>1, <1>2 DEF StackShape, Depth
<1>4. lf' \in [blk : TreeBlk \cup {ZNULL}, pos : -1 .. MXKEY,
                     exct : BOOLEAN, key : Key \cup {NoKey}]
  BY <1>1, BlockConstants
<1>5. cblk' \in Depth(Len(stk') + 1)
  BY <1>1, <1>2 DEF Depth, ROOT
<1> QED
  BY <1>1, <1>2, <1>3, <1>4, <1>5 DEF Frame, NoFrame, TreeBlk

(* The end of bdelk1 re-establishes the invariant.                         *)
LEMMA ReestablishInv ==
  ASSUME IInv, pc # "idle", Reestablish, Sound(blocks'), SuperOK(super'),
         UNCHANGED spoiled
  PROVE  IInv'
<1>1. CASE err = "OK"
  <2>1. /\ StartFind(lf.key) /\ pc' = "refind" /\ UNCHANGED <<op, err, out>>
    BY <1>1 DEF Reestablish
  <2>2. lf.key \in Key \cup {NoKey}
    BY DEF IInv, TypeOK
  <2>3. /\ lf' \in [blk : TreeBlk \cup {ZNULL}, pos : -1 .. MXKEY,
                     exct : BOOLEAN, key : Key \cup {NoKey}]
        /\ lf'.exct = FALSE
        /\ stk' \in Seq(Frame) /\ StackShape'
        /\ cblk' \in Depth(Len(stk') + 1)
        /\ cblk' \in TreeBlk /\ tgt' \in Frame
        /\ [blk |-> lf'.blk, pos |-> lf'.pos] \in Frame
    BY <2>1, <2>2, StartFindShape
  <2>4. TypeOK'
    BY <2>1, <2>3 DEF IInv, TypeOK, Sound, SuperOK, PC
  <2>5. RoutineState'
    BY <2>1, <2>3 DEF RoutineState
  <2>6. CallState'
    BY <1>1, <2>1 DEF IInv, CallState
  <2>7. CursorExact'
    BY <2>1 DEF CursorExact
  <2> QED
    BY <2>3, <2>4, <2>5, <2>6, <2>7 DEF IInv, RootIsRoot, Sound
<1>2. CASE err # "OK"
  <2>1. Return(err) /\ UNCHANGED <<lf, stk, out>>
    BY <1>2 DEF Reestablish
  <2>2. spoiled # FALSE
    BY <1>2 DEF IInv, CallState
  <2>3. spoiled \in BOOLEAN /\ err \in Error
    BY DEF IInv, TypeOK
  <2>4. spoiled = TRUE
    BY <2>2, <2>3, Zenon
  <2>5. CursorExact'
    BY <2>4 DEF CursorExact
  <2> QED
    BY <2>1, <2>3, <2>5, ReturnHere
<1> QED
  BY <1>1, <1>2

----------------------------------------------------------------------------
(* The initial state and the calls.                                        *)

(* btcrt establishes the invariant.                                        *)
LEMMA InitInv == Init => IInv
<1> SUFFICES ASSUME Init PROVE IInv
  OBVIOUS
<1>1. blocks \in [Link -> Block] /\ blocks[ROOT].type = "root"
  <2>1. /\ FreshBlock("root", ZNULL) \in Block
        /\ FreshBlock("root", ZNULL).type = "root"
        /\ FreshBlock("none", ZNULL) \in Block
    BY FreshIsBlock, BlockNumbers DEF BlockType
  <2> QED
    BY <2>1, BlockNumbers DEF Init
<1>2. SuperOK(super)
  BY BlockConstants, BlockNumbers DEF Init, SuperOK
<1>3. /\ lf = [blk |-> ZNULL, pos |-> -1, exct |-> FALSE, key |-> NoKey]
      /\ stk = <<>> /\ pc = "idle" /\ op = NoOp /\ cblk = ZNULL
      /\ tgt = NoFrame /\ err = "OK" /\ out = NoVal /\ spoiled = FALSE
  BY DEF Init
<1>4. lf \in [blk : TreeBlk \cup {ZNULL}, pos : -1 .. MXKEY,
              exct : BOOLEAN, key : Key \cup {NoKey}]
  BY <1>3, BlockConstants
<1>5. TypeOK
  <2>1. op \in [name : OpName, key : Key \cup {NoKey}, val : Val \cup {NoVal}]
    BY <1>3 DEF NoOp, OpName
  <2>2. stk \in Seq(Frame) /\ tgt \in Frame
    BY <1>3 DEF Frame
  <2>3. pc \in PC /\ err \in Error /\ spoiled \in BOOLEAN
    BY <1>3 DEF PC, Error
  <2> QED
    BY <1>1, <1>2, <1>3, <1>4, <2>1, <2>2, <2>3 DEF TypeOK, SuperOK
<1>6. StackShape
  BY <1>3 DEF StackShape, Depth
<1>7. CallState /\ RoutineState
  BY <1>3 DEF CallState, RoutineState, NoOp
<1>8. CursorExact
  BY <1>3 DEF CursorExact
<1> QED
  BY <1>1, <1>5, <1>6, <1>7, <1>8 DEF IInv, RootIsRoot

(* A call that names a key starts a find.                                  *)
LEMMA CallByKeyInv ==
  ASSUME IInv, NEW name \in OpName, NEW k \in Key, NEW v \in Val \cup {NoVal},
         CallByKey(name, k, v), name \in {"ins", "upd"} => v \in Val
  PROVE  IInv'
<1>1. /\ pc' = "find" /\ StartFind(k)
      /\ op' = [name |-> name, key |-> k, val |-> v]
      /\ err' = "OK" /\ out' = NoVal /\ UNCHANGED <<tree, spoiled>>
  BY DEF CallByKey, Call
<1>2. spoiled' = FALSE
  <2>1. spoiled \in BOOLEAN /\ ~spoiled /\ spoiled' = spoiled
    BY <1>1 DEF CallByKey, Call, IInv, TypeOK
  <2> QED
    BY <2>1, Zenon
<1>3. Sound(blocks') /\ SuperOK(super')
  BY <1>1, SameTree DEF tree
<1>4. /\ lf' \in [blk : TreeBlk \cup {ZNULL}, pos : -1 .. MXKEY,
                     exct : BOOLEAN, key : Key \cup {NoKey}]
      /\ lf'.exct = FALSE
      /\ stk' \in Seq(Frame) /\ StackShape'
      /\ cblk' \in Depth(Len(stk') + 1)
      /\ cblk' \in TreeBlk /\ tgt' \in Frame
      /\ [blk |-> lf'.blk, pos |-> lf'.pos] \in Frame
  BY <1>1, StartFindShape
<1>5. TypeOK'
  BY <1>1, <1>2, <1>3, <1>4 DEF TypeOK, Sound, SuperOK, PC, OpName, Error
<1>6. RoutineState'
  BY <1>1, <1>4 DEF RoutineState
<1>7. CallState'
  BY <1>1, <1>2 DEF CallState
<1>8. CursorExact'
  BY <1>1 DEF CursorExact
<1> QED
  BY <1>3, <1>4, <1>5, <1>6, <1>7, <1>8 DEF IInv, RootIsRoot, Sound

(* A call for the current key leaves the context as it is.                 *)
LEMMA CallCurrentInv ==
  ASSUME IInv, NEW name \in {"del", "upd"}, NEW v \in Val \cup {NoVal},
         Call(name, NoKey, v), pc' \in {"delete", "update"},
         pc' = "update" => name = "upd", name = "upd" => v \in Val,
         UNCHANGED <<lf, stk, cblk, tgt>>
  PROVE  IInv'
<1>1. /\ pc = "idle" /\ op' = [name |-> name, key |-> NoKey, val |-> v]
      /\ err' = "OK" /\ out' = NoVal /\ UNCHANGED <<tree, spoiled>>
  BY DEF Call
<1>2. spoiled' = FALSE
  <2>1. spoiled \in BOOLEAN /\ ~spoiled /\ spoiled' = spoiled
    BY <1>1 DEF Call, IInv, TypeOK
  <2> QED
    BY <2>1, Zenon
<1>3. TypeOK'
  BY <1>1, <1>2 DEF IInv, TypeOK, PC, OpName, Error, tree
<1>4. StackShape' /\ RootIsRoot'
  BY <1>1 DEF IInv, StackShape, RootIsRoot, tree
<1>5. RoutineState'
  BY <1>1 DEF RoutineState
<1>6. CallState'
  BY <1>1, <1>2 DEF CallState
<1>7. CursorExact'
  BY <1>1 DEF IInv, CursorExact, Node, Blk, tree
<1> QED
  BY <1>3, <1>4, <1>5, <1>6, <1>7 DEF IInv

(* The calls of the API preserve the invariant.                            *)
LEMMA InvokeInv == IInv /\ Invoke => IInv'
<1> SUFFICES ASSUME IInv, Invoke PROVE IInv'
  OBVIOUS
<1>1. ASSUME NEW k \in Key, Bfndky(k) PROVE IInv'
  BY <1>1, CallByKeyInv DEF Bfndky, OpName
<1>2. ASSUME NEW k \in Key, Bdelky(k) PROVE IInv'
  BY <1>2, CallByKeyInv DEF Bdelky, OpName
<1>3. ASSUME NEW k \in Key, NEW v \in Val, Binsky(k, v) PROVE IInv'
  BY <1>3, CallByKeyInv DEF Binsky, OpName
<1>4. ASSUME NEW k \in Key, NEW v \in Val, Bupdky(k, v) PROVE IInv'
  BY <1>4, CallByKeyInv DEF Bupdky, OpName
<1>5. CASE BdelkyCurrent
  BY <1>5, CallCurrentInv DEF BdelkyCurrent
<1>6. ASSUME NEW v \in Val, BupdkyCurrent(v) PROVE IInv'
  BY <1>6, CallCurrentInv DEF BupdkyCurrent
<1> QED
  BY <1>1, <1>2, <1>3, <1>4, <1>5, <1>6 DEF Invoke

----------------------------------------------------------------------------
(* The find.                                                               *)

LFType == [blk : TreeBlk \cup {ZNULL}, pos : -1 .. MXKEY,
           exct : BOOLEAN, key : Key \cup {NoKey}]

(* The block the find looks at is a block of the tree.                     *)
LEMMA FindFacts ==
  ASSUME IInv, pc \in {"find", "refind"}
  PROVE  /\ cblk \in TreeBlk /\ cblk \in Depth(Len(stk) + 1)
         /\ Blk(cblk) = blocks[cblk] /\ Blk(cblk) \in Block
         /\ Len(stk) \in Nat
         /\ [blk |-> lf.blk, pos |-> lf.pos] \in Frame
         /\ cblk # ROOT => stk # <<>> /\ cblk \in Child /\ lf.blk \in TreeBlk
<1>1. /\ stk \in Seq(Frame) /\ blocks \in [Link -> Block]
      /\ cblk \in Depth(Len(stk) + 1) /\ lf.blk \in Depth(Len(stk))
      /\ [blk |-> lf.blk, pos |-> lf.pos] \in Frame
  BY DEF IInv, TypeOK, RoutineState, StackShape
<1>2. PICK n \in Nat : n = Len(stk)
  BY <1>1
<1>3. cblk \in TreeBlk
  BY <1>1, <1>2, DepthFacts
<1>4. Blk(cblk) = blocks[cblk] /\ Blk(cblk) \in Block
  BY <1>1, <1>3, ReadBlock, BlockNumbers DEF Blk
<1>5. ASSUME cblk # ROOT PROVE stk # <<>> /\ cblk \in Child /\ lf.blk \in TreeBlk
  <2>1. n # 0
    BY <1>1, <1>2, <1>5 DEF Depth
  <2>2. stk # <<>>
    BY <1>2, <2>1
  <2>3. lf.blk \in TreeBlk
    BY <1>1, <1>2, <2>1, DepthFacts
  <2> QED
    BY <1>3, <1>5, <2>2, <2>3 DEF TreeBlk
<1> QED
  BY <1>1, <1>2, <1>3, <1>4, <1>5

(* bsrhbk's result: the position is in the block, and a hit is exact.      *)
LEMMA SearchResult ==
  ASSUME NEW b \in Block, NEW k, ~Full(b)
  PROVE  LET p == IF b.nkeys = 0 THEN -1 ELSE Gap(b, k)
             child == IF b.nkeys = 0 THEN ZNULL ELSE b.lnk[p]
         IN  /\ p \in -1 .. MXKEY
             /\ child \in ChildOrNull
             /\ child # ZNULL => p \in 0 .. MXKEY
             /\ Hit(b, k) => /\ p \in 0 .. b.nkeys - 1
                             /\ b.ent[p].key = k
                             /\ b.ent[p].val \in Val
             /\ Hit(b, k) \in BOOLEAN
<1>1. /\ b.nkeys \in Nat /\ b.nkeys <= MXKEY
      /\ b.lnk \in [0 .. MXKEY -> ChildOrNull]
      /\ \A i \in 0 .. b.nkeys - 1 : b.ent[i] \in Entry
  BY BlockFacts, BlockConstants
<1>2. Gap(b, k) \in 0 .. b.nkeys
  BY <1>1, GapInBlock
<1>3. Hit(b, k) => b.nkeys # 0 /\ Gap(b, k) \in 0 .. b.nkeys - 1
                   /\ b.ent[Gap(b, k)].key = k
  BY <1>1, <1>2 DEF Hit
<1>4. Hit(b, k) \in BOOLEAN
  BY Zenon DEF Hit
<1>5. \A x \in Entry : x.val \in Val
  BY DEF Entry
<1> QED
  BY <1>1, <1>2, <1>3, <1>4, <1>5, BlockConstants, BlockNumbers

(* bfndky returns to a caller that goes on with another routine.           *)
LEMMA GoOnInv ==
  ASSUME IInv, pc \in {"find"}, NEW next \in {"insert", "update", "delete"},
         GoOn(next), UNCHANGED <<tree, spoiled>>,
         lf' \in LFType, stk' \in Seq(Frame), StackShape', CursorExact',
         next = "insert" => op.name = "ins" /\ lf'.exct = FALSE,
         next = "update" => op.name = "upd"
  PROVE  IInv'
<1>1. pc' = next /\ cblk' = ZNULL /\ UNCHANGED <<op, err, out, tgt, blocks, super>>
  BY DEF GoOn, tree
<1>2. TypeOK'
  BY <1>1 DEF IInv, TypeOK, PC, LFType
<1>3. RoutineState'
  BY <1>1 DEF RoutineState
<1>4. CallState'
  BY <1>1 DEF IInv, CallState
<1>5. RootIsRoot'
  BY <1>1 DEF IInv, RootIsRoot
<1> QED
  BY <1>2, <1>3, <1>4, <1>5 DEF IInv

(* A turn of bfndky's loop: the find moves one block down or ends with the *)
(* position bsrhbk gave it.                                                *)
LEMMA SearchBlockInv == IInv /\ SearchBlock => IInv'
<1> SUFFICES ASSUME IInv, SearchBlock PROVE IInv'
  OBVIOUS
<1> DEFINE b == Blk(cblk)
           k == lf.key
           p == IF b.nkeys = 0 THEN -1 ELSE Gap(b, k)
           child == IF b.nkeys = 0 THEN ZNULL ELSE b.lnk[p]
<1>1. /\ pc \in {"find", "refind"} /\ ~Full(b)
      /\ stk' = Push(lf.blk, lf.pos)
      /\ lf' = [lf EXCEPT !.blk = cblk, !.pos = p, !.exct = Hit(b, k)]
      /\ UNCHANGED <<tree, spoiled>>
      /\ \/ Hit(b, k) /\ Found(b.ent[p].val)
         \/ ~Hit(b, k) /\ child = ZNULL /\ NotFound
         \/ /\ ~Hit(b, k) /\ child # ZNULL
            /\ cblk' = child
            /\ UNCHANGED <<pc, op, err, out, tgt>>
  BY DEF SearchBlock
<1>2. /\ cblk \in TreeBlk /\ cblk \in Depth(Len(stk) + 1)
      /\ b = blocks[cblk] /\ b \in Block /\ Len(stk) \in Nat
      /\ [blk |-> lf.blk, pos |-> lf.pos] \in Frame
  BY <1>1, FindFacts
<1>3. /\ p \in -1 .. MXKEY
      /\ child \in ChildOrNull
      /\ child # ZNULL => p \in 0 .. MXKEY
      /\ Hit(b, k) => /\ p \in 0 .. b.nkeys - 1
                      /\ b.ent[p].key = k
                      /\ b.ent[p].val \in Val
      /\ Hit(b, k) \in BOOLEAN
  BY <1>1, <1>2, SearchResult
<1> HIDE DEF b, p, child
<1>4. /\ lf' \in LFType /\ lf'.blk = cblk /\ lf'.pos = p /\ lf'.key = k
      /\ lf'.exct = Hit(b, k)
  BY <1>1, <1>2, <1>3 DEF IInv, TypeOK, LFType
<1>5. stk' \in Seq(Frame) /\ StackShape' /\ Len(stk') = Len(stk) + 1
  BY <1>1, <1>2, <1>4, PushShape
<1>6. Node' = b
  <2>1. blocks' = blocks
    BY <1>1 DEF tree
  <2> QED
    BY <1>2, <1>4, <2>1, BlockNumbers DEF Node, Blk, Read, b
<1>7. CursorExact'
  BY <1>3, <1>4, <1>6 DEF CursorExact
<1>8. Sound(blocks') /\ SuperOK(super')
  BY <1>1, SameTree DEF tree
<1>9. /\ TypeOK /\ out \in Val \cup {NoVal} /\ spoiled' \in BOOLEAN
  BY <1>1 DEF IInv, TypeOK
<1>10. ASSUME NEW e \in {"OK", "QDUP", "QNOKEY"}, Return(e),
              out' \in Val \cup {NoVal}
       PROVE  IInv'
  <2>1. e \in Error
    BY DEF Error
  <2> QED
    BY <1>4, <1>5, <1>7, <1>8, <1>9, <1>10, <2>1, ReturnInv DEF LFType
<1>11. CASE Hit(b, k) /\ Found(b.ent[p].val)
  <2>1. CASE pc = "refind" /\ Return("OK") /\ UNCHANGED out
    BY <1>9, <1>10, <2>1
  <2>2. CASE pc = "find" /\ Return("OK") /\ out' = b.ent[p].val
    BY <1>3, <1>10, <1>11, <2>2
  <2>3. CASE pc = "find" /\ Return("QDUP") /\ UNCHANGED out
    BY <1>9, <1>10, <2>3
  <2>4. CASE pc = "find" /\ GoOn("delete")
    BY <1>1, <1>4, <1>5, <1>7, <2>4, GoOnInv
  <2>5. CASE pc = "find" /\ op.name = "upd" /\ GoOn("update")
    BY <1>1, <1>4, <1>5, <1>7, <2>5, GoOnInv
  <2> QED
    BY <1>11, <2>1, <2>2, <2>3, <2>4, <2>5 DEF Found
<1>12. CASE ~Hit(b, k) /\ child = ZNULL /\ NotFound
  <2>1. CASE pc = "refind" /\ Return("OK") /\ UNCHANGED out
    BY <1>9, <1>10, <2>1
  <2>2. CASE pc = "find" /\ Return("QNOKEY") /\ UNCHANGED out
    BY <1>9, <1>10, <2>2
  <2>3. CASE pc = "find" /\ op.name = "ins" /\ GoOn("insert")
    <3>1. lf'.exct = FALSE
      BY <1>3, <1>4, <1>12, Zenon
    <3> QED
      BY <1>1, <1>4, <1>5, <1>7, <2>3, <3>1, GoOnInv
  <2> QED
    BY <1>12, <2>1, <2>2, <2>3 DEF NotFound
<1>13. CASE ~Hit(b, k) /\ child # ZNULL /\ cblk' = child
            /\ UNCHANGED <<pc, op, err, out, tgt>>
  <2>1. lf'.exct = FALSE
    BY <1>3, <1>4, <1>13, Zenon
  <2>2. child \in Child /\ child \in TreeBlk /\ p \in 0 .. MXKEY
    BY <1>3, <1>13 DEF ChildOrNull, TreeBlk
  <2>3. cblk' \in Depth(Len(stk') + 1)
    BY <1>2, <1>5, <1>13, <2>2, DepthFacts
  <2>4. [blk |-> lf'.blk, pos |-> lf'.pos] \in Frame
    BY <1>2, <1>4, <2>2 DEF Frame
  <2>5. TypeOK'
    BY <1>4, <1>5, <1>8, <1>9, <1>13, <2>2
       DEF TypeOK, LFType, Sound, SuperOK
  <2>6. RoutineState'
    BY <1>1, <1>13, <2>1, <2>3, <2>4 DEF RoutineState
  <2>7. CallState'
    BY <1>1, <1>13 DEF IInv, CallState
  <2> QED
    BY <1>5, <1>7, <1>8, <2>5, <2>6, <2>7 DEF IInv, RootIsRoot, Sound
<1> QED
  BY <1>1, <1>11, <1>12, <1>13

(* A find that cannot split for want of a block ends with no current key.  *)
LEMMA NoSpaceInv ==
  ASSUME IInv, pc \in {"find", "refind"}, NEW e \in Error, NoSpace(e),
         SuperOK(super')
  PROVE  IInv'
<1>1. Return(e) /\ UNCHANGED <<blocks, lf, stk, out, spoiled>>
  BY DEF NoSpace
<1>2. lf.exct = FALSE /\ spoiled \in BOOLEAN
  BY DEF IInv, RoutineState, TypeOK
<1>3. CursorExact'
  BY <1>1, <1>2 DEF CursorExact
<1>4. Sound(blocks')
  BY <1>1, SameTree
<1> QED
  BY <1>1, <1>2, <1>3, <1>4, ReturnHere

(* The find of a full root, in its three outcomes.                         *)
LEMMA SplitRootInv == IInv /\ SplitRoot => IInv'
<1> SUFFICES ASSUME IInv, SplitRoot PROVE IInv'
  OBVIOUS
<1> DEFINE r  == Blk(ROOT)
           b1 == GetFree(super, blocks)
           s1 == Taken(super, blocks)
           b2 == GetFree(s1, blocks)
           new == FreshBlock("inuse", ZNULL)
           B  == [blocks EXCEPT
                    ![b1] = CopyKeys(new, r, 0, Sp),
                    ![b2] = CopyKeys(new, r, Sp + 1, Sp2),
                    ![ROOT] = [RepKey(CopyKeys(r, r, 0, 0), 0, r.ent[Sp], b1, b2)
                                 EXCEPT !.nkeys = 1]]
<1>1. pc \in {"find", "refind"} /\ cblk = ROOT /\ Full(r)
  BY DEF SplitRoot
<1>2. Sound(blocks) /\ SuperOK(super)
  BY SameTree
<1>3. b1 \in ChildOrNull /\ NoFree(super) \in Error
  BY <1>2, GetFreeSound
<1>4. CASE b1 = ZNULL
  <2>1. NoSpace(NoFree(super)) /\ UNCHANGED super
    BY <1>4 DEF SplitRoot
  <2> QED
    BY <1>1, <1>2, <1>3, <2>1, NoSpaceInv
<1>5. CASE b1 # ZNULL
  <2>1. SuperOK(s1)
    BY <1>2, <1>5, GetFreeSound
  <2>2. b2 \in ChildOrNull /\ NoFree(s1) \in Error
    BY <1>2, <2>1, GetFreeSound
  <2>3. CASE b2 = ZNULL
    <3>1. NoSpace(NoFree(s1)) /\ super' = s1
      BY <1>5, <2>3 DEF SplitRoot
    <3> QED
      BY <1>1, <2>1, <2>2, <3>1, NoSpaceInv
  <2>4. CASE b2 # ZNULL
    <3>1. /\ super' = Taken(s1, blocks) /\ blocks' = B
          /\ UNCHANGED <<lf, stk, pc, op, cblk, tgt, err, out, spoiled>>
      BY <1>5, <2>4 DEF SplitRoot
    <3>2. SuperOK(super')
      BY <1>2, <2>1, <2>4, <3>1, GetFreeSound
    <3>3. r \in Block /\ r = blocks[ROOT]
      BY <1>1, FindFacts
    <3>4. Sound(B)
      BY <1>1, <1>2, <1>3, <2>2, <3>3, SplitRootSound
    <3> HIDE DEF B
    <3>5. Sound(blocks')
      BY <3>1, <3>4
    <3>6. TypeOK'
      BY <3>1, <3>2, <3>5 DEF IInv, TypeOK, Sound, SuperOK
    <3>7. StackShape' /\ CallState'
      BY <3>1 DEF IInv, StackShape, CallState
    <3>8. RoutineState'
      BY <1>1, <3>1 DEF IInv, RoutineState
    <3>9. CursorExact'
      BY <1>1, <3>1 DEF CursorExact
    <3> QED
      BY <3>5, <3>6, <3>7, <3>8, <3>9 DEF IInv, RootIsRoot, Sound
  <2> QED
    BY <2>3, <2>4
<1> QED
  BY <1>4, <1>5

(* The find of a full child: the search goes back to the parent, and the   *)
(* stack still holds the path to it.                                       *)
LEMMA SplitChildInv == IInv /\ SplitChild => IInv'
<1> SUFFICES ASSUME IInv, SplitChild PROVE IInv'
  OBVIOUS
<1> DEFINE new == GetFree(super, blocks)
           B   == Split(blocks, cblk, new, lf.blk)
<1>1. pc \in {"find", "refind"} /\ cblk # ROOT /\ Full(Blk(cblk))
  BY DEF SplitChild
<1>2. Sound(blocks) /\ SuperOK(super)
  BY SameTree
<1>3. new \in ChildOrNull /\ NoFree(super) \in Error
  BY <1>2, GetFreeSound
<1>4. CASE new = ZNULL
  <2>1. NoSpace(NoFree(super)) /\ UNCHANGED super
    BY <1>4 DEF SplitChild
  <2> QED
    BY <1>1, <1>2, <1>3, <2>1, NoSpaceInv
<1>5. CASE new # ZNULL /\ Full(Node)
  <2>1. GiveUp("QBLKFL") /\ "QBLKFL" \in Error
    BY <1>5 DEF SplitChild, Error, Internal
  <2> QED
    BY <2>1, GiveUpInv
<1>6. CASE new # ZNULL /\ ~Full(Node)
  <2>1. /\ blocks' = B /\ super' = Taken(super, blocks)
        /\ cblk' = lf.blk /\ lf' = At(Top.blk, Top.pos) /\ stk' = Rest
        /\ UNCHANGED <<pc, op, tgt, err, out, spoiled>>
    BY <1>6 DEF SplitChild
  <2>2. /\ stk # <<>> /\ cblk \in Child /\ lf.blk \in TreeBlk
        /\ Blk(cblk) = blocks[cblk]
    BY <1>1, FindFacts
  <2>3. Sound(blocks')
    BY <1>1, <1>2, <1>3, <2>1, <2>2, SplitSound
  <2>4. SuperOK(super')
    BY <1>2, <1>6, <2>1, GetFreeSound
  <2>5. /\ Len(stk) \in Nat /\ Len(stk) >= 1 /\ Top \in Frame
        /\ Top.blk \in Depth(Len(stk) - 1)
    BY <2>2, TopFacts
  <2>6. lf \in LFType /\ lf.exct = FALSE /\ lf.blk \in Depth(Len(stk))
    BY <1>1 DEF IInv, TypeOK, LFType, RoutineState, StackShape
  <2>7. Top.blk \in TreeBlk \cup {ZNULL} /\ Top.pos \in -1 .. MXKEY
    BY <2>5, BlockConstants DEF Frame, NoFrame
  <2>8. /\ lf' \in LFType /\ lf'.blk = Top.blk /\ lf'.pos = Top.pos
        /\ lf'.exct = FALSE
    BY <2>1, <2>6, <2>7 DEF At, LFType
  <2>9. stk' \in Seq(Frame) /\ StackShape' /\ Len(stk') = Len(stk) - 1
    BY <2>1, <2>2, <2>8, PopShape
  <2>10. [blk |-> lf'.blk, pos |-> lf'.pos] = Top
    BY <2>5, <2>8 DEF Frame, NoFrame
  <2>11. cblk' \in Depth(Len(stk') + 1)
    <3>1. (Len(stk) - 1) + 1 = Len(stk)
      BY <2>5
    <3> QED
      BY <2>1, <2>6, <2>9, <3>1
  <2>12. TypeOK'
    BY <2>1, <2>2, <2>3, <2>4, <2>8, <2>9
       DEF IInv, TypeOK, LFType, Sound, SuperOK
  <2>13. RoutineState'
    BY <1>1, <2>1, <2>5, <2>8, <2>10, <2>11 DEF RoutineState
  <2>14. CallState'
    BY <2>1 DEF IInv, CallState
  <2>15. CursorExact'
    BY <1>1, <2>1 DEF CursorExact
  <2> QED
    BY <2>3, <2>9, <2>12, <2>13, <2>14, <2>15 DEF IInv, RootIsRoot, Sound
<1> QED
  BY <1>4, <1>5, <1>6

----------------------------------------------------------------------------
(* Insertion and update.                                                   *)

(* The node of the last find.                                              *)
LEMMA NodeFacts ==
  ASSUME IInv
  PROVE  /\ lf \in LFType /\ Node \in Block
         /\ lf.blk # ZNULL => lf.blk \in TreeBlk /\ Node = blocks[lf.blk]
         /\ lf.blk = ZNULL => Node.nkeys = 0
<1>1. lf \in LFType /\ blocks \in [Link -> Block]
  BY DEF IInv, TypeOK, LFType
<1>2. lf.blk \in TreeBlk \cup {ZNULL}
  BY <1>1 DEF LFType
<1> QED
  BY <1>1, <1>2, ReadBlock DEF Node, Blk

(* binsky's bputky into the leaf the find ended at.                        *)
LEMMA InsertKeyInv == IInv /\ InsertKey => IInv'
<1> SUFFICES ASSUME IInv, InsertKey PROVE IInv'
  OBVIOUS
<1> DEFINE e == [key |-> op.key, val |-> op.val]
           n == PutKey(blocks[lf.blk], e, ZNULL, ZNULL)
<1>1. CASE Full(Node)
  <2>1. GiveUp("QBLKFL") /\ "QBLKFL" \in Error
    BY <1>1 DEF InsertKey, Error, Internal
  <2> QED
    BY <2>1, GiveUpInv
<1>2. CASE ~Full(Node)
  <2>1. /\ blocks' = [blocks EXCEPT ![lf.blk] = n]
        /\ Return("OK") /\ UNCHANGED <<super, lf, stk, out, spoiled>>
    BY <1>2 DEF InsertKey
  <2>2. e \in Entry /\ lf.exct = FALSE
    BY DEF InsertKey, IInv, CallState, RoutineState, Entry
  <2>3. Sound(blocks) /\ SuperOK(super')
    BY <2>1, SameTree
  <2>4. lf.blk \in Link => /\ n \in Block
                           /\ lf.blk = ROOT => n.type = "root"
    <3> SUFFICES ASSUME lf.blk \in Link
                 PROVE  n \in Block /\ (lf.blk = ROOT => n.type = "root")
      OBVIOUS
    <3>1. blocks[lf.blk] \in Block
      BY <2>3 DEF Sound
    <3> HIDE DEF e
    <3>2. n \in Block /\ n.type = blocks[lf.blk].type
      BY <2>2, <3>1, BlockNumbers, PutKeyBlock
    <3> QED
      BY <2>3, <3>2 DEF Sound
  <2> HIDE DEF n
  <2>5. Sound(blocks')
    BY <2>1, <2>3, <2>4, WriteBlock, BlockNumbers
  <2>6. CursorExact'
    BY <2>1, <2>2 DEF CursorExact
  <2>7. "OK" \in Error /\ spoiled' \in BOOLEAN
    BY <2>1 DEF Error, IInv, TypeOK
  <2> QED
    BY <2>1, <2>3, <2>5, <2>6, <2>7, ReturnHere
<1> QED
  BY <1>1, <1>2

(* bmodky changes a value and no key, so the cursor stays exact.           *)
LEMMA UpdateKeyInv == IInv /\ UpdateKey => IInv'
<1> SUFFICES ASSUME IInv, UpdateKey PROVE IInv'
  OBVIOUS
<1> DEFINE n == ModVal(blocks[lf.blk], lf.pos, op.val)
<1>1. /\ pc = "update" /\ UNCHANGED <<super, lf, stk, out, spoiled>>
      /\ op.val \in Val /\ spoiled' \in BOOLEAN
  BY DEF UpdateKey, IInv, CallState, TypeOK
<1>2. Sound(blocks) /\ SuperOK(super')
  BY <1>1, SameTree
<1>3. CASE lf.pos < 0 \/ lf.pos >= MXKEY
  <2>1. Return("QLOCTB") /\ UNCHANGED blocks /\ "QLOCTB" \in Error
    BY <1>3 DEF UpdateKey, Error
  <2>2. CursorExact'
    BY <1>1, <2>1 DEF IInv, CursorExact, Node, Blk
  <2> QED
    BY <1>1, <1>2, <2>1, <2>2, ReturnHere
<1>4. CASE ~(lf.pos < 0 \/ lf.pos >= MXKEY)
  <2>1. /\ blocks' = [blocks EXCEPT ![lf.blk] = n]
        /\ Return("OK") /\ "OK" \in Error
    BY <1>4 DEF UpdateKey, Error
  <2>2. lf \in LFType /\ lf.pos \in Nat
    BY <1>4, NodeFacts, BlockConstants DEF LFType
  <2>3. lf.blk \in Link =>
          /\ n \in Block /\ n.nkeys = blocks[lf.blk].nkeys
          /\ lf.blk = ROOT => n.type = "root"
          /\ \A i \in 0 .. n.nkeys - 1 :
               n.ent[i].key = blocks[lf.blk].ent[i].key
    <3> SUFFICES ASSUME lf.blk \in Link
                 PROVE  /\ n \in Block /\ n.nkeys = blocks[lf.blk].nkeys
                        /\ lf.blk = ROOT => n.type = "root"
                        /\ \A i \in 0 .. n.nkeys - 1 :
                             n.ent[i].key = blocks[lf.blk].ent[i].key
      OBVIOUS
    <3>1. blocks[lf.blk] \in Block
      BY <1>2 DEF Sound
    <3>2. /\ n \in Block /\ n.type = blocks[lf.blk].type
          /\ n.nkeys = blocks[lf.blk].nkeys
          /\ \A i \in 0 .. blocks[lf.blk].nkeys - 1 :
               n.ent[i].key = blocks[lf.blk].ent[i].key
      BY <1>1, <2>2, <3>1, ModValBlock
    <3> HIDE DEF n
    <3> QED
      BY <1>2, <3>2 DEF Sound
  <2> HIDE DEF n
  <2>4. Sound(blocks')
    BY <1>2, <2>1, <2>3, WriteBlock, BlockNumbers
  <2>5. CursorExact'
    <3>1. CASE lf.blk = ZNULL
      <4>1. Node' = Node
        BY <1>1, <3>1 DEF Node, Blk, Read
      <4> QED
        BY <1>1, <4>1 DEF IInv, CursorExact
    <3>2. CASE lf.blk # ZNULL
      <4>1. lf.blk \in Link /\ Node = blocks[lf.blk]
        BY <3>2, NodeFacts, BlockNumbers
      <4>2. Node' = n
        BY <1>1, <1>2, <2>1, <2>3, <3>2, <4>1, WriteBlock, BlockNumbers
           DEF Node, Blk, Read
      <4>3. /\ Node'.nkeys = Node.nkeys
            /\ \A i \in 0 .. Node.nkeys - 1 : Node'.ent[i].key = Node.ent[i].key
        BY <2>3, <4>1, <4>2
      <4> QED
        BY <1>1, <4>3 DEF IInv, CursorExact
    <3> QED
      BY <3>1, <3>2
  <2> QED
    BY <1>1, <1>2, <2>1, <2>4, <2>5, ReturnHere
<1> QED
  BY <1>3, <1>4

----------------------------------------------------------------------------
(* Deletion: bdelk1, bjnblk, balblk and bdemte.                            *)

(* The last find moved to another block and position.                      *)
LEMMA AtFacts ==
  ASSUME IInv, NEW b \in TreeBlk \cup {ZNULL}, NEW p \in 0 .. MXKEY
  PROVE  /\ At(b, p) \in LFType
         /\ At(b, p).blk = b /\ At(b, p).pos = p
<1>1. lf \in LFType
  BY DEF IInv, TypeOK, LFType
<1>2. p \in -1 .. MXKEY
  BY BlockConstants
<1> QED
  BY <1>1, <1>2 DEF At, LFType

(* After the removal from a leaf: the root is done, another block may be   *)
(* joined or balanced with a sister.                                       *)
LEMMA AfterRemovalInv ==
  ASSUME IInv, pc \in {"delete", "descend"}, Sound(blocks'),
         lf.blk \in TreeBlk, NEW q \in 0 .. MXKEY, AfterRemoval(q)
  PROVE  IInv'
<1>1. UNCHANGED <<super, spoiled>> /\ SuperOK(super')
  BY SameTree DEF AfterRemoval
<1>2. CASE Node.type = "root"
  <2>1. Reestablish
    BY <1>2 DEF AfterRemoval
  <2> QED
    BY <1>1, <2>1, ReestablishInv
<1>3. CASE Node.type # "root"
  <2>1. /\ pc' = "join" /\ lf' = At(lf.blk, q)
        /\ UNCHANGED <<stk, op, cblk, tgt, err, out>>
    BY <1>3 DEF AfterRemoval
  <2>2. lf \in LFType /\ Node = blocks[lf.blk]
    BY NodeFacts, BlockNumbers
  <2>3. lf.blk \in Child
    <3>1. lf.blk # ROOT
      BY <1>3, <2>2 DEF IInv, RootIsRoot
    <3> QED
      BY <3>1 DEF TreeBlk
  <2>4. lf' \in LFType /\ lf'.blk = lf.blk
    BY <2>1, AtFacts
  <2>5. TypeOK'
    BY <1>1, <2>1, <2>4 DEF IInv, TypeOK, LFType, Sound, PC
  <2>6. StackShape'
    BY <2>1, <2>4 DEF IInv, StackShape
  <2>7. RoutineState'
    BY <2>1, <2>3, <2>4 DEF RoutineState
  <2>8. CallState'
    BY <1>1, <2>1 DEF IInv, CallState
  <2>9. CursorExact'
    BY <2>1 DEF CursorExact
  <2> QED
    BY <2>5, <2>6, <2>7, <2>8, <2>9 DEF IInv, RootIsRoot, Sound
<1> QED
  BY <1>2, <1>3

(* bdelk1's checks, and its removal from a leaf.                           *)
LEMMA DeleteKeyInv == IInv /\ DeleteKey => IInv'
<1> SUFFICES ASSUME IInv, DeleteKey PROVE IInv'
  OBVIOUS
<1>1. pc = "delete" /\ spoiled \in BOOLEAN /\ lf \in LFType
  BY DEF DeleteKey, IInv, TypeOK, LFType
<1>2. Sound(blocks) /\ SuperOK(super)
  BY SameTree
<1>3. ASSUME NEW e \in {"QDELEX", "QDELER"}, Return(e),
             UNCHANGED <<tree, lf, stk, out, spoiled>>
      PROVE  IInv'
  <2>1. e \in Error
    BY DEF Error
  <2>2. UNCHANGED <<blocks, super>>
    BY <1>3 DEF tree
  <2>3. CursorExact'
    BY <1>1, <1>3, <2>2 DEF IInv, CursorExact, Node, Blk
  <2> QED
    BY <1>1, <1>2, <1>3, <2>1, <2>2, <2>3, ReturnHere
<1>4. ASSUME lf.exct PROVE /\ lf.blk \in TreeBlk /\ Node = blocks[lf.blk]
                           /\ Node \in Block
                           /\ lf.pos \in 0 .. Node.nkeys - 1
                           /\ lf.pos \in 0 .. MXKEY - 1
  <2>1. ~spoiled
    BY <1>1, Zenon DEF IInv, CallState
  <2>2. lf.pos \in 0 .. Node.nkeys - 1
    BY <1>1, <1>4, <2>1 DEF IInv, CursorExact
  <2>3. Node \in Block /\ Node.nkeys \in 0 .. MXKEY
    BY NodeFacts, BlockFacts
  <2>4. lf.blk # ZNULL
    BY <2>2, NodeFacts
  <2> QED
    BY <2>2, <2>3, <2>4, NodeFacts, BlockConstants
<1>5. CASE ~lf.exct /\ Return("QDELEX") /\ UNCHANGED <<tree, lf, stk, out, spoiled>>
  BY <1>3, <1>5
<1>6. CASE lf.exct /\ Return("QDELER") /\ UNCHANGED <<tree, lf, stk, out, spoiled>>
  BY <1>3, <1>6
<1>7. CASE /\ lf.exct /\ pc' = "descend"
           /\ tgt' = [blk |-> lf.blk, pos |-> lf.pos]
           /\ UNCHANGED <<tree, lf, stk, op, cblk, err, out, spoiled>>
  <2>1. lf.blk \in TreeBlk /\ lf.pos \in 0 .. MXKEY - 1
    BY <1>4, <1>7
  <2>2. tgt' \in Frame /\ tgt'.blk # ZNULL /\ tgt'.pos < MXKEY
    BY <1>7, <2>1, BlockNumbers, BlockConstants DEF Frame
  <2>3. UNCHANGED <<blocks, super>>
    BY <1>7 DEF tree
  <2>4. TypeOK'
    BY <1>7, <2>2, <2>3 DEF IInv, TypeOK, PC
  <2>5. StackShape' /\ RootIsRoot'
    BY <1>7, <2>3 DEF IInv, StackShape, RootIsRoot
  <2>6. RoutineState'
    BY <1>7, <2>1, <2>2, BlockNumbers, BlockConstants DEF RoutineState
  <2>7. CallState'
    BY <1>1, <1>7 DEF IInv, CallState
  <2>8. CursorExact'
    BY <1>7 DEF CursorExact
  <2> QED
    BY <2>4, <2>5, <2>6, <2>7, <2>8 DEF IInv
<1>8. CASE /\ lf.exct /\ AfterRemoval(lf.pos)
           /\ blocks' = [blocks EXCEPT ![lf.blk] = RemKey(@, lf.pos)]
  <2>1. /\ lf.blk \in TreeBlk /\ blocks[lf.blk] \in Block
        /\ lf.pos \in 0 .. blocks[lf.blk].nkeys - 1
        /\ lf.pos \in 0 .. MXKEY
    BY <1>4, <1>8, BlockConstants
  <2> DEFINE n == RemKey(blocks[lf.blk], lf.pos)
  <2>2. n \in Block /\ n.type = blocks[lf.blk].type
    BY <2>1, RemKeyBlock
  <2>3. blocks' = [blocks EXCEPT ![lf.blk] = n]
    BY <1>8
  <2> HIDE DEF n
  <2>4. Sound(blocks')
    <3>1. lf.blk = ROOT => n.type = "root"
      BY <1>2, <2>2 DEF Sound
    <3> QED
      BY <1>2, <2>2, <2>3, <3>1, WriteBlock
  <2> QED
    BY <1>1, <1>8, <2>1, <2>4, AfterRemovalInv
<1> QED
  BY <1>5, <1>6, <1>7, <1>8 DEF DeleteKey

(* A turn of bleaf on the way to the replacement of an interior key.       *)
LEMMA DescendInv == IInv /\ Descend => IInv'
<1> SUFFICES ASSUME IInv, Descend PROVE IInv'
  OBVIOUS
<1> DEFINE c == Node.lnk[lf.pos]
<1>1. /\ pc = "descend" /\ ~AtLeaf
      /\ stk' = Push(lf.blk, lf.pos) /\ lf' = At(c, Blk(c).nkeys)
      /\ UNCHANGED <<tree, pc, op, cblk, tgt, err, out, spoiled>>
  BY DEF Descend
<1>2. /\ lf \in LFType /\ Node \in Block /\ lf.blk \in TreeBlk
      /\ lf.pos \in 0 .. MXKEY
      /\ tgt.blk # ZNULL /\ tgt.pos < MXKEY
  BY <1>1, NodeFacts, BlockConstants DEF IInv, RoutineState, LFType
<1>3. c \in Child
  <2>1. Node.lnk \in [0 .. MXKEY -> ChildOrNull]
    BY <1>2, BlockFacts
  <2>2. c \in ChildOrNull /\ c # ZNULL
    BY <1>1, <1>2, <2>1 DEF AtLeaf
  <2> QED
    BY <2>2 DEF ChildOrNull
<1>4. Blk(c).nkeys \in 0 .. MXKEY
  <2> HIDE DEF c
  <2>1. Blk(c) \in Block
    BY <1>3, ReadBlock DEF Blk, IInv, TypeOK, TreeBlk
  <2> QED
    BY <2>1, BlockFacts
<1> HIDE DEF c
<1>5. lf' \in LFType /\ lf'.blk = c /\ lf'.pos \in 0 .. MXKEY
  BY <1>1, <1>3, <1>4, AtFacts DEF TreeBlk
<1>6. [blk |-> lf.blk, pos |-> lf.pos] \in Frame
  BY <1>2 DEF Frame
<1>7. lf'.blk \in Depth(Len(stk) + 1)
  <2>1. stk \in Seq(Frame) /\ lf.blk \in Depth(Len(stk))
    BY DEF IInv, TypeOK, StackShape
  <2>2. PICK n \in Nat : n = Len(stk)
    BY <2>1
  <2>3. n # 0
    BY <1>2, <2>1, <2>2, BlockNumbers DEF Depth
  <2>4. Depth(n + 1) = Child
    BY <2>3, DepthFacts
  <2> QED
    BY <1>3, <1>5, <2>2, <2>4
<1>8. stk' \in Seq(Frame) /\ StackShape'
  BY <1>1, <1>6, <1>7, PushShape
<1>9. UNCHANGED <<blocks, super>>
  BY <1>1 DEF tree
<1>10. TypeOK'
  BY <1>1, <1>5, <1>8, <1>9 DEF IInv, TypeOK, LFType
<1>11. RoutineState'
  BY <1>1, <1>2, <1>3, <1>5, BlockNumbers, BlockConstants DEF RoutineState, TreeBlk
<1>12. CallState'
  BY <1>1 DEF IInv, CallState
<1>13. CursorExact' /\ RootIsRoot'
  BY <1>1, <1>9 DEF CursorExact, IInv, RootIsRoot
<1> QED
  BY <1>8, <1>10, <1>11, <1>12, <1>13 DEF IInv

(* bdelk1's replacement of an interior key.                                *)
LEMMA ReplaceKeyInv == IInv /\ ReplaceKey => IInv'
<1> SUFFICES ASSUME IInv, ReplaceKey PROVE IInv'
  OBVIOUS
<1> DEFINE last == lf.pos - 1
           t    == Blk(tgt.blk)
<1>1. pc = "descend"
  BY DEF ReplaceKey
<1>2. CASE last \notin 0 .. Node.nkeys - 1
  <2>1. GiveUp("QDELRP") /\ "QDELRP" \in Error
    BY <1>2 DEF ReplaceKey, Error, Internal
  <2> QED
    BY <2>1, GiveUpInv
<1>3. CASE last \in 0 .. Node.nkeys - 1
  <2>1. /\ blocks' = [blocks EXCEPT
              ![tgt.blk] = RepKey(@, tgt.pos, Node.ent[last],
                                  t.lnk[tgt.pos], t.lnk[tgt.pos + 1]),
              ![lf.blk] = RemKey(Node, last)]
        /\ AfterRemoval(last)
    BY <1>3 DEF ReplaceKey
  <2>2. /\ tgt \in Frame /\ tgt.blk # ZNULL /\ tgt.pos < MXKEY
        /\ lf.blk # ZNULL
    BY <1>1 DEF IInv, TypeOK, RoutineState
  <2>3. tgt.blk \in TreeBlk /\ tgt.pos \in 0 .. MXKEY - 1
    BY <2>2, BlockConstants DEF Frame, NoFrame
  <2>4. /\ Sound(blocks) /\ lf.blk \in TreeBlk /\ Node = blocks[lf.blk]
        /\ t = blocks[tgt.blk]
    BY <2>2, <2>3, SameTree, NodeFacts, ReadBlock, BlockNumbers
       DEF Blk, Sound
  <2>5. Sound(blocks')
    BY <1>3, <2>1, <2>3, <2>4, ReplaceSound
  <2>6. last \in 0 .. MXKEY
    BY <1>3, NodeFacts, BlockFacts, BlockConstants
  <2> QED
    BY <1>1, <2>1, <2>4, <2>5, <2>6, AfterRemovalInv
<1> QED
  BY <1>2, <1>3

(* The parent of a leaf to be joined or balanced, and its links.           *)
LEMMA SisterFacts ==
  ASSUME IInv, pc \in {"join", "balance"}
  PROVE  /\ lf.blk \in Child /\ Blk(Top.blk) = blocks[Top.blk]
         /\ Node.nkeys \in Int /\ Blk(Top.blk).nkeys \in 0 .. MXKEY
         /\ Top.blk \in TreeBlk /\ Top.pos \in 0 .. MXKEY /\ stk # <<>>
         /\ Top.pos < Blk(Top.blk).nkeys =>
              /\ Blk(Top.blk).lnk[Top.pos + 1] \in ChildOrNull
              /\ Blk(Blk(Top.blk).lnk[Top.pos + 1]).nkeys \in Int
         /\ Top.pos > 0 =>
              /\ Blk(Top.blk).lnk[Top.pos - 1] \in ChildOrNull
              /\ Blk(Blk(Top.blk).lnk[Top.pos - 1]).nkeys \in Int
<1>1. lf.blk \in Child /\ blocks \in [Link -> Block]
  BY DEF IInv, RoutineState, TypeOK
<1>2. stk # <<>> /\ Top.blk \in TreeBlk /\ Top.pos \in 0 .. MXKEY
  BY <1>1, ParentFacts
<1>3. Blk(Top.blk) = blocks[Top.blk] /\ Blk(Top.blk) \in Block
  BY <1>1, <1>2, ReadBlock, BlockNumbers DEF Blk
<1>4. /\ Blk(Top.blk).nkeys \in 0 .. MXKEY
      /\ Blk(Top.blk).lnk \in [0 .. MXKEY -> ChildOrNull]
  BY <1>3, BlockFacts
<1>5. \A c \in ChildOrNull : Blk(c).nkeys \in Int
  <2> SUFFICES ASSUME NEW c \in ChildOrNull PROVE Blk(c).nkeys \in Int
    OBVIOUS
  <2>1. Blk(c) \in Block
    BY <1>1, ReadBlock DEF Blk, TreeBlk, ChildOrNull
  <2> QED
    BY <2>1, BlockFacts
<1>6. Node.nkeys \in Int
  BY <1>1, <1>5 DEF Node, ChildOrNull
<1>7. /\ Top.pos < Blk(Top.blk).nkeys => Top.pos + 1 \in 0 .. MXKEY
      /\ Top.pos > 0 => Top.pos - 1 \in 0 .. MXKEY
  BY <1>2, <1>4, BlockConstants
<1> QED
  BY <1>1, <1>2, <1>3, <1>4, <1>5, <1>6, <1>7

(* bjoin of two leaves under the parent on the stack.                      *)
LEMMA JoinInv ==
  ASSUME IInv, pc = "join", NEW l \in ChildOrNull, NEW r \in ChildOrNull,
         NEW s \in 0 .. Blk(Top.blk).nkeys - 1,
         Joinable(Blk(l).nkeys, Blk(r).nkeys), Join(l, r, s)
  PROVE  IInv'
<1> DEFINE p == Top.blk
           B == [blocks EXCEPT
                   ![p] = RemKey(@, s),
                   ![l] = AppendKeys(PutKey(Blk(l), Blk(p).ent[s], ZNULL, ZNULL),
                                     Blk(r))]
<1>1. /\ blocks' = FreeBlock(super, B, r)
      /\ super' = FreeSuper(super, r) /\ cblk' = l
      /\ lf' = At(p, s) /\ stk' = Rest /\ pc' = "demote"
      /\ UNCHANGED <<op, tgt, err, out, spoiled>>
  BY DEF Join
<1>2. /\ lf.blk \in Child /\ Blk(p) = blocks[p] /\ p \in TreeBlk
      /\ stk # <<>> /\ Blk(p).nkeys \in 0 .. MXKEY
  BY SisterFacts
<1>3. Sound(blocks) /\ SuperOK(super) /\ super.freep \in ChildOrNull
  BY SameTree DEF SuperOK
<1>4. Sound(B)
  BY <1>2, <1>3, JoinSound DEF Blk
<1> HIDE DEF B
<1>5. Sound(blocks')
  BY <1>1, <1>3, <1>4, FreeSound
<1>6. SuperOK(super')
  BY <1>1, <1>3, FreeSuperOK
<1>7. s \in 0 .. MXKEY
  BY <1>2, BlockConstants
<1>8. lf' \in LFType /\ lf'.blk = Top.blk
  BY <1>1, <1>2, <1>7, AtFacts
<1>9. stk' \in Seq(Frame) /\ StackShape'
  BY <1>1, <1>2, <1>8, PopShape
<1>10. TypeOK'
  BY <1>1, <1>5, <1>6, <1>8, <1>9
     DEF IInv, TypeOK, LFType, Sound, SuperOK, PC, ChildOrNull, TreeBlk
<1>11. RoutineState'
  BY <1>1, <1>2, <1>8, BlockNumbers DEF RoutineState
<1>12. CallState'
  BY <1>1 DEF IInv, CallState
<1>13. CursorExact'
  BY <1>1 DEF CursorExact
<1> QED
  BY <1>5, <1>9, <1>10, <1>11, <1>12, <1>13 DEF IInv, RootIsRoot, Sound

(* bjnblk joins the leaf with its right sister.                            *)
LEMMA JoinRightInv == IInv /\ JoinRight => IInv'
<1> SUFFICES ASSUME IInv, JoinRight PROVE IInv'
  OBVIOUS
<1> DEFINE r == Blk(Top.blk).lnk[Top.pos + 1]
<1>1. /\ pc = "join" /\ Join(lf.blk, r, Top.pos)
      /\ Top.pos < Blk(Top.blk).nkeys
      /\ Joinable(Blk(lf.blk).nkeys, Blk(r).nkeys)
  BY DEF JoinRight, CanJoinRight, Node
<1>2. /\ lf.blk \in ChildOrNull /\ r \in ChildOrNull
      /\ Top.pos \in 0 .. Blk(Top.blk).nkeys - 1
  BY <1>1, SisterFacts, BlockConstants DEF ChildOrNull
<1> HIDE DEF r
<1> QED
  BY <1>1, <1>2, JoinInv

(* bjnblk joins the leaf with its left sister, or finds the parent's       *)
(* position out of range.                                                  *)
LEMMA JoinLeftInv == IInv /\ JoinLeft => IInv'
<1> SUFFICES ASSUME IInv, JoinLeft PROVE IInv'
  OBVIOUS
<1> DEFINE l == Blk(Top.blk).lnk[Top.pos - 1]
<1>1. CASE GiveUp("QJNSE")
  <2>1. "QJNSE" \in Error
    BY DEF Error, Internal
  <2> QED
    BY <1>1, <2>1, GiveUpInv
<1>2. CASE ~GiveUp("QJNSE")
  <2>1. /\ pc = "join" /\ Join(l, lf.blk, Top.pos - 1)
        /\ Top.pos <= Blk(Top.blk).nkeys /\ Top.pos > 0
        /\ Joinable(Blk(lf.blk).nkeys, Blk(l).nkeys)
    BY <1>2 DEF JoinLeft, CanJoinLeft, Node
  <2>2. /\ lf.blk \in ChildOrNull /\ l \in ChildOrNull
        /\ Top.pos - 1 \in 0 .. Blk(Top.blk).nkeys - 1
    BY <2>1, SisterFacts, BlockConstants DEF ChildOrNull
  <2>3. Joinable(Blk(l).nkeys, Blk(lf.blk).nkeys)
    <3>1. Blk(l).nkeys \in Int /\ Blk(lf.blk).nkeys \in Int
      BY <2>1, SisterFacts DEF Node
    <3> HIDE DEF l
    <3> QED
      BY <2>1, <3>1 DEF Joinable
  <2> HIDE DEF l
  <2> QED
    BY <2>1, <2>2, <2>3, JoinInv
<1> QED
  BY <1>1, <1>2

(* bjnblk joins nothing.                                                   *)
LEMMA NoJoinInv == IInv /\ NoJoin => IInv'
<1> SUFFICES ASSUME IInv, NoJoin PROVE IInv'
  OBVIOUS
<1>1. /\ pc = "join" /\ Top.pos <= Blk(Top.blk).nkeys
      /\ pc' = "balance" /\ lf' = At(lf.blk, Top.pos)
      /\ UNCHANGED <<blocks, super, stk, op, cblk, tgt, err, out, spoiled>>
  BY DEF NoJoin, tree
<1>2. lf.blk \in Child /\ Top.pos \in 0 .. MXKEY
  BY <1>1, SisterFacts
<1>3. lf' \in LFType /\ lf'.blk = lf.blk
  BY <1>1, <1>2, AtFacts DEF TreeBlk
<1>4. TypeOK'
  BY <1>1, <1>3 DEF IInv, TypeOK, LFType, PC
<1>5. StackShape' /\ RootIsRoot'
  BY <1>1, <1>3 DEF IInv, StackShape, RootIsRoot
<1>6. RoutineState'
  <2>1. Top' = Top /\ Blk(Top.blk)' = Blk(Top.blk)
    BY <1>1 DEF Top, Blk
  <2> QED
    BY <1>1, <1>2, <1>3, <2>1 DEF RoutineState
<1>7. CallState'
  BY <1>1 DEF IInv, CallState
<1>8. CursorExact'
  BY <1>1 DEF CursorExact
<1> QED
  BY <1>4, <1>5, <1>6, <1>7, <1>8 DEF IInv

(* balbk1 of two leaves under the parent on the stack.                     *)
LEMMA BalanceInv ==
  ASSUME IInv, pc = "balance", NEW l \in ChildOrNull, NEW r \in ChildOrNull,
         NEW s \in 0 .. Blk(Top.blk).nkeys - 1,
         Uneven(Blk(l).nkeys, Blk(r).nkeys), Balance(l, r, s)
  PROVE  IInv'
<1> DEFINE p == Top.blk
           B == [blocks EXCEPT
                   ![p] = RepKey(@, s, Separator(Blk(l), Blk(r)), l, r),
                   ![l] = BalLeft(Blk(l), Blk(r), Blk(p).ent[s]),
                   ![r] = BalRight(Blk(l), Blk(r), Blk(p).ent[s])]
<1>1. blocks' = B /\ Reestablish /\ UNCHANGED <<super, spoiled>>
  BY DEF Balance
<1>2. Blk(p) = blocks[p] /\ p \in TreeBlk
  BY SisterFacts
<1>3. Sound(blocks) /\ SuperOK(super')
  BY <1>1, SameTree
<1>4. Sound(B)
  BY <1>2, <1>3, BalanceSound DEF Blk
<1> HIDE DEF B
<1> QED
  BY <1>1, <1>3, <1>4, ReestablishInv

(* balblk evens out the leaf and its right sister.                         *)
LEMMA BalanceRightInv == IInv /\ BalanceRight => IInv'
<1> SUFFICES ASSUME IInv, BalanceRight PROVE IInv'
  OBVIOUS
<1> DEFINE r == Blk(Top.blk).lnk[Top.pos + 1]
<1>1. /\ pc = "balance" /\ Balance(lf.blk, r, Top.pos)
      /\ Top.pos < Blk(Top.blk).nkeys
      /\ Uneven(Blk(lf.blk).nkeys, Blk(r).nkeys)
  BY DEF BalanceRight, CanBalanceRight, Node
<1>2. /\ lf.blk \in ChildOrNull /\ r \in ChildOrNull
      /\ Top.pos \in 0 .. Blk(Top.blk).nkeys - 1
  BY <1>1, SisterFacts, BlockConstants DEF ChildOrNull
<1> HIDE DEF r
<1> QED
  BY <1>1, <1>2, BalanceInv

(* balblk evens out the leaf and its left sister.                          *)
LEMMA BalanceLeftInv == IInv /\ BalanceLeft => IInv'
<1> SUFFICES ASSUME IInv, BalanceLeft PROVE IInv'
  OBVIOUS
<1> DEFINE l == Blk(Top.blk).lnk[Top.pos - 1]
<1>1. /\ pc = "balance" /\ Balance(l, lf.blk, Top.pos - 1)
      /\ Top.pos > 0 /\ Uneven(Blk(lf.blk).nkeys, Blk(l).nkeys)
  BY DEF BalanceLeft, CanBalanceLeft, Node
<1>2. Top.pos <= Blk(Top.blk).nkeys
  BY <1>1 DEF IInv, RoutineState
<1>3. /\ lf.blk \in ChildOrNull /\ l \in ChildOrNull
      /\ Top.pos - 1 \in 0 .. Blk(Top.blk).nkeys - 1
  BY <1>1, <1>2, SisterFacts, BlockConstants DEF ChildOrNull
<1>4. Uneven(Blk(l).nkeys, Blk(lf.blk).nkeys)
  <2>1. Blk(l).nkeys \in Int /\ Blk(lf.blk).nkeys \in Int
    BY <1>1, SisterFacts DEF Node
  <2> HIDE DEF l
  <2> QED
    BY <1>1, <2>1, UnevenSym
<1> HIDE DEF l
<1> QED
  BY <1>1, <1>3, <1>4, BalanceInv

(* balblk moves nothing.                                                   *)
LEMMA NoBalanceInv == IInv /\ NoBalance => IInv'
<1> SUFFICES ASSUME IInv, NoBalance PROVE IInv'
  OBVIOUS
<1>1. pc = "balance" /\ Reestablish /\ UNCHANGED <<blocks, super, spoiled>>
  BY DEF NoBalance, tree
<1> QED
  BY <1>1, SameTree, ReestablishInv

(* bdemte has nothing to do.                                               *)
LEMMA DemoteDoneInv == IInv /\ DemoteDone => IInv'
<1> SUFFICES ASSUME IInv, DemoteDone PROVE IInv'
  OBVIOUS
<1>1. pc = "demote" /\ Reestablish /\ UNCHANGED <<blocks, super, spoiled>>
  BY DEF DemoteDone, tree
<1> QED
  BY <1>1, SameTree, ReestablishInv

(* bdemte lets an empty root take over its only child.                     *)
LEMMA DemoteRootInv == IInv /\ DemoteRoot => IInv'
<1> SUFFICES ASSUME IInv, DemoteRoot PROVE IInv'
  OBVIOUS
<1> DEFINE c == Blk(cblk)
           n == CopyKeys(blocks[lf.blk], c, 0, c.nkeys)
           B == [blocks EXCEPT ![lf.blk] = n]
<1>1. /\ pc = "demote" /\ blocks' = FreeBlock(super, B, cblk)
      /\ super' = FreeSuper(super, cblk) /\ Reestablish /\ UNCHANGED spoiled
  BY DEF DemoteRoot
<1>2. cblk \in ChildOrNull /\ lf.blk # ZNULL
  BY <1>1 DEF IInv, RoutineState
<1>3. Sound(blocks) /\ SuperOK(super) /\ super.freep \in ChildOrNull
  BY SameTree DEF SuperOK
<1>4. blocks[lf.blk] \in Block /\ lf.blk \in TreeBlk
  BY <1>2, NodeFacts
<1>5. n \in Block /\ n.type = blocks[lf.blk].type
  <2>1. c \in Block
    BY <1>2, <1>3, ReadBlock DEF Blk, Sound, TreeBlk, ChildOrNull
  <2>2. 0 \in Nat /\ c.nkeys \in Nat /\ 0 + c.nkeys <= c.nkeys
    BY <2>1, BlockFacts, BlockConstants
  <2> HIDE DEF c
  <2> QED
    BY <1>4, <2>1, <2>2, CopyKeysBlock
<1>6. Sound(B)
  <2>1. lf.blk = ROOT => n.type = "root"
    BY <1>3, <1>5 DEF Sound
  <2> HIDE DEF n
  <2> QED
    BY <1>3, <1>5, <2>1, WriteBlock
<1> HIDE DEF B
<1>7. Sound(blocks') /\ SuperOK(super')
  BY <1>1, <1>2, <1>3, <1>6, FreeSound, FreeSuperOK
<1> QED
  BY <1>1, <1>7, ReestablishInv

(* The grandparent of a demotion and the links around the demoted key.     *)
LEMMA DemotingFacts ==
  ASSUME IInv, Demoting
  PROVE  /\ lf.blk \in Child /\ stk # <<>> /\ cblk \in ChildOrNull
         /\ Top.blk \in TreeBlk /\ Grand = blocks[Top.blk] /\ Grand \in Block
         /\ DemPos \in 0 .. MXKEY - 1
         /\ Link1 \in ChildOrNull /\ Link2 \in ChildOrNull
         /\ Sister \in ChildOrNull
<1>1. pc = "demote" /\ Node.type # "root"
  BY DEF Demoting
<1>2. lf.blk # ZNULL /\ cblk \in ChildOrNull
  BY <1>1 DEF IInv, RoutineState
<1>3. lf.blk \in Child
  <2>1. lf.blk \in TreeBlk /\ Node = blocks[lf.blk]
    BY <1>2, NodeFacts
  <2>2. lf.blk # ROOT
    BY <1>1, <2>1 DEF IInv, RootIsRoot
  <2> QED
    BY <2>1, <2>2 DEF TreeBlk
<1>4. stk # <<>> /\ Top.blk \in TreeBlk /\ Top.pos \in 0 .. MXKEY
  BY <1>3, ParentFacts
<1>5. Grand = blocks[Top.blk] /\ Grand \in Block
  BY <1>4, ReadBlock, BlockNumbers DEF Grand, Blk, IInv, TypeOK
<1>6. DemPos \in 0 .. MXKEY - 1
  BY <1>4, BlockConstants DEF DemPos, OnRight
<1>7. Grand.lnk \in [0 .. MXKEY -> ChildOrNull]
  BY <1>5, BlockFacts
<1>8. Link1 \in ChildOrNull /\ Link2 \in ChildOrNull
  BY <1>6, <1>7, BlockConstants DEF Link1, Link2
<1> QED
  BY <1>2, <1>3, <1>4, <1>5, <1>6, <1>8 DEF Sister

(* The grandparent without the demoted key.                                *)
LEMMA CutSound ==
  ASSUME IInv, Demoting, DemPos < Grand.nkeys
  PROVE  /\ Sound(Cut) /\ Grand.ent[DemPos] \in Entry
         /\ Target \in Block
<1>1. /\ Top.blk \in TreeBlk /\ Grand = blocks[Top.blk] /\ Grand \in Block
      /\ DemPos \in 0 .. MXKEY - 1 /\ Sister \in ChildOrNull
  BY DemotingFacts
<1>2. DemPos \in 0 .. Grand.nkeys - 1 /\ Grand.ent[DemPos] \in Entry
  BY <1>1, BlockFacts, BlockConstants
<1> DEFINE n == RemKey(Grand, DemPos)
<1>3. n \in Block /\ n.type = Grand.type
  BY <1>1, <1>2, RemKeyBlock
<1>4. Cut = [blocks EXCEPT ![Top.blk] = n]
  BY <1>1 DEF Cut
<1> HIDE DEF n
<1>5. Sound(blocks) /\ (Top.blk = ROOT => n.type = "root")
  BY <1>1, <1>3, SameTree DEF Sound
<1>6. Sound(Cut)
  BY <1>3, <1>4, <1>5, WriteBlock
<1>7. Target \in Block
  BY <1>1, <1>6, ReadBlock DEF Target, Sound, TreeBlk, ChildOrNull
<1> QED
  BY <1>2, <1>6, <1>7

(* bdemte goes up to the grandparent.                                      *)
LEMMA ToGrandInv ==
  ASSUME IInv, Demoting, ToGrand, Sound(blocks'), SuperOK(super'),
         cblk' \in ChildOrNull, err' \in Error, spoiled' \in BOOLEAN,
         spoiled' = FALSE => spoiled = FALSE /\ err' = err
  PROVE  IInv'
<1>1. /\ pc = "demote" /\ lf' = At(Top.blk, DemPos) /\ stk' = Rest
      /\ UNCHANGED <<pc, op, tgt, out>>
  BY DEF Demoting, ToGrand
<1>2. stk # <<>> /\ Top.blk \in TreeBlk /\ DemPos \in 0 .. MXKEY
  BY DemotingFacts, BlockConstants
<1>3. lf' \in LFType /\ lf'.blk = Top.blk
  BY <1>1, <1>2, AtFacts
<1>4. stk' \in Seq(Frame) /\ StackShape'
  BY <1>1, <1>2, <1>3, PopShape
<1>5. TypeOK'
  BY <1>1, <1>3, <1>4
     DEF IInv, TypeOK, LFType, Sound, SuperOK, ChildOrNull, TreeBlk
<1>6. RoutineState'
  BY <1>1, <1>2, <1>3, BlockNumbers DEF RoutineState
<1>7. CallState'
  BY <1>1 DEF IInv, CallState
<1>8. CursorExact'
  BY <1>1 DEF CursorExact
<1> QED
  BY <1>4, <1>5, <1>6, <1>7, <1>8 DEF IInv, RootIsRoot, Sound

(* bdemte moves a key of the grandparent down.                             *)
LEMMA DemoteInv == IInv /\ Demote => IInv'
<1> SUFFICES ASSUME IInv, Demote PROVE IInv'
  OBVIOUS
<1>1. Demoting
  BY DEF Demote
<1>2. CASE DemPos >= Grand.nkeys
  <2>1. GiveUp("QDEMSE") /\ "QDEMSE" \in Error
    BY <1>2 DEF Demote, Error, Internal
  <2> QED
    BY <2>1, GiveUpInv
<1>3. CASE ~(DemPos >= Grand.nkeys)
  <2>1. /\ blocks' = Merge(Cut, super, Link1, Grand.ent[DemPos])
        /\ super' = FreeSuper(super, Link2) /\ cblk' = Link1
        /\ ToGrand /\ UNCHANGED <<err, spoiled>>
    BY <1>3 DEF Demote
  <2>2. /\ cblk \in ChildOrNull /\ Link1 \in ChildOrNull
        /\ Link2 \in ChildOrNull /\ DemPos < Grand.nkeys
    BY <1>1, <1>3, DemotingFacts, BlockFacts, BlockConstants
  <2>3. Sound(Cut) /\ Grand.ent[DemPos] \in Entry
    BY <1>1, <2>2, CutSound
  <2>4. SuperOK(super) /\ super.freep \in ChildOrNull
    BY SameTree DEF SuperOK
  <2>5. Sound(blocks') /\ SuperOK(super')
    BY <2>1, <2>2, <2>3, <2>4, MergeSound, FreeSuperOK
  <2>6. err' \in Error /\ spoiled' \in BOOLEAN
    BY <2>1 DEF IInv, TypeOK
  <2> QED
    BY <1>1, <2>1, <2>2, <2>5, <2>6, ToGrandInv
<1> QED
  BY <1>2, <1>3

(* bdemte with a full sister, with and without a block for the split.      *)
LEMMA DemoteFullInv == IInv /\ DemoteFull => IInv'
<1> SUFFICES ASSUME IInv, DemoteFull PROVE IInv'
  OBVIOUS
<1> DEFINE new == GetFree(super, Cut)
           s1  == Taken(super, Cut)
           to  == IF OnRight THEN new ELSE Link1
<1>1. /\ Demoting /\ DemPos < Grand.nkeys /\ Full(Target)
      /\ ToGrand /\ spoiled' = TRUE
  BY DEF DemoteFull
<1>2. /\ cblk \in ChildOrNull /\ Link1 \in ChildOrNull
      /\ Link2 \in ChildOrNull /\ Sister \in ChildOrNull
      /\ Top.blk \in TreeBlk
  BY <1>1, DemotingFacts
<1>3. Sound(Cut) /\ Target \in Block
  BY <1>1, CutSound
<1>4. SuperOK(super)
  BY SameTree
<1>5. /\ new \in ChildOrNull /\ NoFree(super) \in Error
      /\ new # ZNULL => SuperOK(s1)
  BY <1>3, <1>4, GetFreeSound
<1>6. spoiled' \in BOOLEAN /\ err \in Error
  BY <1>1 DEF IInv, TypeOK
<1>7. CASE new = ZNULL
  <2>1. blocks' = Cut /\ err' = NoFree(super) /\ UNCHANGED <<super, cblk>>
    BY <1>7 DEF DemoteFull
  <2> QED
    BY <1>1, <1>2, <1>3, <1>4, <1>5, <1>6, <2>1, ToGrandInv
<1>8. CASE new # ZNULL
  <2> DEFINE B == Split(Cut, Sister, new, Top.blk)
             e == Target.ent[Sp]
  <2>1. /\ blocks' = Merge(B, s1, to, e)
        /\ super' = FreeSuper(s1, Link2) /\ cblk' = to /\ UNCHANGED err
    BY <1>8 DEF DemoteFull
  <2>2. SuperOK(s1) /\ s1.freep \in ChildOrNull
    BY <1>5, <1>8 DEF SuperOK
  <2>3. Sister \in Child /\ Target = Cut[Sister]
    <3>1. Sister # ZNULL
      <4>1. NoBlock.nkeys = 0
        BY DEF NoBlock, FreshBlock
      <4> QED
        BY <1>1, <4>1, BlockConstants DEF Target, Read, Full
    <3> QED
      BY <1>2, <3>1 DEF ChildOrNull, Target, Read
  <2>4. e \in Entry
    BY <1>1, <1>3, BlockFacts, SplitPoint, BlockConstants DEF Full
  <2>5. to \in ChildOrNull
    BY <1>2, <1>5
  <2>6. Sound(B)
    BY <1>1, <1>2, <1>3, <1>5, <2>3, SplitSound
  <2> HIDE DEF B, e, to, s1, new
  <2>7. Sound(blocks') /\ SuperOK(super')
    BY <1>2, <2>1, <2>2, <2>4, <2>5, <2>6, MergeSound, FreeSuperOK
  <2>8. err' \in Error
    BY <1>6, <2>1
  <2> QED
    BY <1>1, <1>6, <2>1, <2>5, <2>7, <2>8, ToGrandInv
<1> QED
  BY <1>7, <1>8

----------------------------------------------------------------------------
(* A step that changes nothing.                                            *)
LEMMA StutterInv == IInv /\ UNCHANGED vars => IInv'
<1> SUFFICES ASSUME IInv, UNCHANGED vars PROVE IInv'
  OBVIOUS
<1>1. UNCHANGED <<blocks, super, lf, stk, pc, op, cblk, tgt, err, out, spoiled>>
  BY DEF vars
<1>2. TypeOK'
  BY <1>1 DEF IInv, TypeOK
<1>3. StackShape' /\ RootIsRoot' /\ CallState'
  BY <1>1 DEF IInv, StackShape, RootIsRoot, CallState
<1>4. RoutineState' /\ CursorExact'
  BY <1>1 DEF IInv, RoutineState, CursorExact, Top, Blk, Node
<1> QED
  BY <1>2, <1>3, <1>4 DEF IInv

(* Every step, whichever routine takes it.                                 *)
LEMMA StepInv == IInv /\ [Next]_vars => IInv'
<1> SUFFICES ASSUME IInv, [Next]_vars PROVE IInv'
  OBVIOUS
<1>1. CASE FindStep
  BY <1>1, SearchBlockInv, SplitRootInv, SplitChildInv DEF FindStep
<1>2. CASE DeleteStep
  BY <1>2, DeleteKeyInv, DescendInv, ReplaceKeyInv, JoinRightInv,
     JoinLeftInv, NoJoinInv, BalanceRightInv, BalanceLeftInv, NoBalanceInv,
     DemoteDoneInv, DemoteRootInv, DemoteInv, DemoteFullInv DEF DeleteStep
<1> QED
  BY <1>1, <1>2, InvokeInv, InsertKeyInv, UpdateKeyInv, StutterInv
     DEF Next, Step

(* The inductive invariant: what each routine of the index core relies on  *)
(* holds when it runs, whatever calls came before and whatever they split, *)
(* joined, balanced or demoted.                                            *)
THEOREM Inductive == Spec => []IInv
BY InitInv, StepInv, PTL DEF Spec

(* Type correctness: in particular no routine indexes the key, value or    *)
(* link array of a block outside its bounds.                               *)
THEOREM TypeCorrect == Spec => []TypeOK
<1>1. IInv => TypeOK
  BY DEF IInv
<1> QED
  BY Inductive, <1>1, PTL

(* Whenever the library has a current key, the block and position of the   *)
(* last find are those of that key: bdelk1 and bmodky, which trust them,   *)
(* act on the key they were called for.                                    *)
THEOREM CursorIsExact == Spec => []CursorExact
<1>1. IInv => CursorExact
  BY DEF IInv
<1> QED
  BY Inductive, <1>1, PTL

(* No split, join, balance or demotion pulls from an empty stack.          *)
THEOREM StackNeverUnderflows == Spec => []NoUnderflow
<1>1. IInv => NoUnderflow
  <2> SUFFICES ASSUME IInv, Pulls PROVE stk # <<>>
    BY DEF NoUnderflow
  <2>1. CASE pc \in {"find", "refind"} /\ cblk # ROOT
    BY <2>1, FindFacts
  <2>2. CASE pc \in {"join", "balance"}
    BY <2>2, ParentFacts DEF IInv, RoutineState
  <2>3. CASE Demoting
    BY <2>3, DemotingFacts
  <2> QED
    BY <2>1, <2>2, <2>3 DEF Pulls
<1> QED
  BY Inductive, <1>1, PTL
=============================================================================
