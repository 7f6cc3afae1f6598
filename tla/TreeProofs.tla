------------------------------ MODULE TreeProofs ------------------------------
(***************************************************************************)
(* The shape of the tree: what the operators of Blocks and BTree do to a   *)
(* tree, to the free list and to the path on the stack, for every block    *)
(* size, file size and set of keys.  TreeTheorems has the steps.           *)
(*                                                                         *)
(* The argument gives each block of the tree a height and two fences: the  *)
(* keys of the block and of all blocks below it are between its fences.    *)
(* The fences of a child are the keys of its parent on its left and right, *)
(* or a fence of the parent; so what a split, a join, a balance or a       *)
(* demotion must establish is about the few blocks it writes, and no       *)
(* induction over the tree is needed.                                      *)
(***************************************************************************)
EXTENDS BTreeProofs, BTreeProps, FiniteSetTheorems

(* The stored keys are strings of at most ZKYLEN - 1 bytes: there is one   *)
(* before and one after all of them in any larger order.                   *)
KeysBounded == \E l, u \in Int : l < u /\ \A k \in Key : l < k /\ k < u

(* A split leaves a key on each side.                                      *)
RoomToSplit == MXKEY >= 3

Ends == CHOOSE e \in Int \X Int :
          e[1] < e[2] /\ \A k \in Key : e[1] < k /\ k < e[2]
Low  == Ends[1]
High == Ends[2]

(* The blocks of the tree.                                                 *)
Used(B) == {ROOT} \cup {b \in Child : B[b].type = "inuse"}

KeyAt(x, i) == x.ent[i].key

Sorted(x) ==
  \A i, j \in 0 .. x.nkeys - 1 : i < j => KeyAt(x, i) < KeyAt(x, j)
Within(x, l, u) ==
  l < u /\ \A i \in 0 .. x.nkeys - 1 : l < KeyAt(x, i) /\ KeyAt(x, i) < u

(* The fences of the child at position i of a block with fences l and u.   *)
From(x, l, i) == IF i = 0 THEN l ELSE KeyAt(x, i - 1)
To(x, u, i)   == IF i = x.nkeys THEN u ELSE KeyAt(x, i)

(* A witness: the height of each block and its fences.                     *)
Witness == [h : [TreeBlk -> Nat], lo : [TreeBlk -> Int], hi : [TreeBlk -> Int]]

Kid(B, w, c, n, l, u) ==
  c \in Used(B) \ {ROOT} /\ w.h[c] = n /\ w.lo[c] = l /\ w.hi[c] = u

NodeOK(B, w, b) ==
  /\ Sorted(B[b]) /\ Within(B[b], w.lo[b], w.hi[b])
  /\ b # ROOT => w.h[b] < w.h[ROOT]
  /\ Low <= w.lo[b] /\ w.hi[b] <= High
  /\ w.h[b] = 0 => B[b].lnk = NoLinks
  /\ w.h[b] # 0 =>
       \A i \in 0 .. B[b].nkeys :
         Kid(B, w, B[b].lnk[i], w.h[b] - 1,
             From(B[b], w.lo[b], i), To(B[b], w.hi[b], i))

(* No value strictly between the fences of b.                              *)
Clear(w, b, v) == v <= w.lo[b] \/ w.hi[b] <= v

(* Blocks of one height share no key; a key or fence of a higher block is  *)
(* not among the keys that belong in a lower one.                          *)
Apart(B, w) ==
  \A b, c \in Used(B) :
    /\ b # c /\ w.h[b] = w.h[c] => w.hi[b] <= w.lo[c] \/ w.hi[c] <= w.lo[b]
    /\ w.h[b] < w.h[c] =>
         /\ Clear(w, b, w.lo[c]) /\ Clear(w, b, w.hi[c])
         /\ \A i \in 0 .. B[c].nkeys - 1 : Clear(w, b, KeyAt(B[c], i))

Tree(B, w) ==
  /\ w \in Witness /\ w.lo[ROOT] = Low /\ w.hi[ROOT] = High
  /\ \A b \in Used(B) : NodeOK(B, w, b)
  /\ Apart(B, w)

(* Stack S and last find f lead from the root, link by link.               *)
PathOK(B, w, S, f) ==
  /\ f.blk # ZNULL =>
       f.blk \in Used(B) /\ w.h[f.blk] = w.h[ROOT] - (Len(S) - 1)
  /\ \A i \in 2 .. Len(S) :
       /\ S[i].blk \in Used(B) /\ w.h[S[i].blk] = w.h[ROOT] - (i - 2)
       /\ w.h[S[i].blk] # 0
       /\ S[i].pos \in 0 .. B[S[i].blk].nkeys
       /\ B[S[i].blk].lnk[S[i].pos] =
            IF i = Len(S) THEN f.blk ELSE S[i + 1].blk

(* The blocks a find has passed.                                           *)
Passed(S, f) == {S[i].blk : i \in 2 .. Len(S)} \cup ({f.blk} \ {ZNULL})

Spans(w, b, k) == w.lo[b] < k /\ k < w.hi[b]

(* bfndky has come to block c.                                             *)
FindOK(B, w, S, f, c) ==
  /\ f.key \in Key
  /\ f.blk = ZNULL => c = ROOT
  /\ f.blk # ZNULL =>
       /\ w.h[f.blk] # 0 /\ f.pos \in 0 .. B[f.blk].nkeys
       /\ c = B[f.blk].lnk[f.pos]
  /\ c \in Used(B) /\ w.h[c] = w.h[ROOT] - Len(S)
  /\ Spans(w, c, f.key)
  /\ \A b \in Passed(S, f) : Spans(w, b, f.key) /\ ~Full(B[b])

(* binsky is about to put k in the leaf of the last find.                  *)
InsertOK(B, w, f, k) ==
  /\ f.blk # ZNULL /\ w.h[f.blk] = 0 /\ Spans(w, f.blk, k)
  /\ ~Full(B[f.blk]) /\ k = f.key
  /\ \A i \in 0 .. B[f.blk].nkeys - 1 : KeyAt(B[f.blk], i) # k

(* bleaf has come to the block of f, from the left of the key at t.        *)
DescendOK(B, w, f, t) ==
  /\ t.blk \in Used(B) /\ t.pos \in 0 .. B[t.blk].nkeys - 1
  /\ w.h[t.blk] # 0 /\ f.pos \in 0 .. B[f.blk].nkeys
  /\ KeyAt(B[t.blk], t.pos) = f.key
  /\ \/ t.blk = f.blk /\ t.pos = f.pos
     \/ /\ w.h[f.blk] < w.h[t.blk] /\ f.pos = B[f.blk].nkeys
        /\ w.hi[f.blk] = KeyAt(B[t.blk], t.pos)

DemoteOK(B, w, f, c) ==
  /\ w.h[f.blk] # 0
  /\ B[f.blk].nkeys = 0 => c = B[f.blk].lnk[0]

(* An interior block has a key, but for one that bdemte is about to merge. *)
InteriorOK(B, w, f, p) ==
  \A b \in Used(B) : w.h[b] # 0 /\ B[b].nkeys = 0 =>
    p = "demote" /\ b = f.blk

TreeInv(w) ==
  /\ Tree(blocks, w)
  /\ PathOK(blocks, w, stk, lf)
  /\ pc \in {"find", "refind"} => FindOK(blocks, w, stk, lf, cblk)
  /\ pc = "find" => op.key = lf.key
  /\ pc = "insert" => InsertOK(blocks, w, lf, op.key)
  /\ pc = "descend" => DescendOK(blocks, w, lf, tgt)
  /\ pc \in {"join", "balance"} => w.h[lf.blk] = 0 /\ lf.key \in Key
  /\ pc = "demote" => DemoteOK(blocks, w, lf, cblk) /\ lf.key \in Key
  /\ InteriorOK(blocks, w, lf, pc)

(* The free list of store B with superblock s, in order.                   *)
FreeIs(B, s, f) ==
  /\ s.nfree \in Nat /\ f \in [1 .. s.nfree -> Child]
  /\ \A i, j \in 1 .. s.nfree : f[i] = f[j] => i = j
  /\ s.freep = IF s.nfree = 0 THEN ZNULL ELSE f[1]
  /\ \A i \in 1 .. s.nfree :
       /\ B[f[i]].type = "free" /\ f[i] < s.blkmx
       /\ B[f[i]].nxt = IF i = s.nfree THEN ZNULL ELSE f[i + 1]

FileOK(B, s) ==
  /\ \E f : FreeIs(B, s, f)
  /\ \A b \in Used(B) : b < s.blkmx

TInv == ~spoiled => FileOK(blocks, super) /\ \E w : TreeInv(w)
----------------------------------------------------------------------------
(* The ends of the order.                                                  *)
LEMMA EndsOfKeys ==
  ASSUME KeysBounded
  PROVE  /\ Low \in Int /\ High \in Int /\ Low < High
         /\ \A k \in Key : k \in Int /\ Low < k /\ k < High
<1>1. \E e \in Int \X Int : e[1] < e[2] /\ \A k \in Key : e[1] < k /\ k < e[2]
  <2>1. PICK l \in Int, u \in Int : l < u /\ \A k \in Key : l < k /\ k < u
    BY DEF KeysBounded
  <2>2. <<l, u>> \in Int \X Int /\ <<l, u>>[1] = l /\ <<l, u>>[2] = u
    OBVIOUS
  <2> QED  BY <2>1, <2>2
<1>2. /\ Ends \in Int \X Int /\ Ends[1] < Ends[2]
      /\ \A k \in Key : Ends[1] < k /\ k < Ends[2]
  BY <1>1 DEF Ends
<1> QED  BY <1>2, KeyConstants DEF Low, High

(* What a block of the tree is made of.                                    *)
LEMMA UsedBlock ==
  ASSUME NEW B, Sound(B), NEW b \in Used(B)
  PROVE  /\ b \in TreeBlk /\ b \in Link /\ B[b] \in Block /\ b \in Int
         /\ B[b].nkeys \in 0 .. MXKEY /\ B[b].nkeys \in Nat
         /\ \A i \in 0 .. B[b].nkeys - 1 :
              B[b].ent[i] \in Entry /\ KeyAt(B[b], i) \in Key
                /\ KeyAt(B[b], i) \in Int
         /\ b # ROOT => B[b].type = "inuse" /\ b \in Child
         /\ b = ROOT => B[b].type = "root"
         /\ b # ZNULL
<1>1. b \in TreeBlk /\ b \in Link /\ b \in Int /\ b # ZNULL
  BY BlockNumbers DEF Used, TreeBlk, Link
<1>2. B[b] \in Block
  BY <1>1 DEF Sound
<1>3. /\ B[b].nkeys \in 0 .. MXKEY /\ B[b].nkeys \in Nat
      /\ \A i \in 0 .. B[b].nkeys - 1 : B[b].ent[i] \in Entry
  BY <1>2, BlockFacts, BlockConstants
<1>4. \A i \in 0 .. B[b].nkeys - 1 : KeyAt(B[b], i) \in Key
  BY <1>3 DEF KeyAt, Entry
<1> QED  BY <1>1, <1>2, <1>3, <1>4, KeyConstants DEF Used, Sound

(* The keys of a block.                                                    *)
LEMMA BlockKeys ==
  ASSUME NEW x \in Block
  PROVE  /\ x.nkeys \in 0 .. MXKEY /\ x.nkeys \in Nat
         /\ \A i \in 0 .. x.nkeys - 1 :
              x.ent[i] \in Entry /\ KeyAt(x, i) \in Key /\ KeyAt(x, i) \in Int
<1>1. /\ x.nkeys \in 0 .. MXKEY /\ x.nkeys \in Nat
      /\ \A i \in 0 .. x.nkeys - 1 : x.ent[i] \in Entry
  BY BlockFacts, BlockConstants
<1> QED  BY <1>1, KeyConstants DEF KeyAt, Entry

(* What the witness says of a block of the tree.                           *)
LEMMA UsedWitness ==
  ASSUME NEW B, Sound(B), NEW w, Tree(B, w), NEW b \in Used(B)
  PROVE  /\ w.h[b] \in Nat /\ w.lo[b] \in Int /\ w.hi[b] \in Int
         /\ w.h[ROOT] \in Nat /\ w.h[b] <= w.h[ROOT]
         /\ Low \in Int /\ High \in Int
         /\ NodeOK(B, w, b)
<1>1. b \in TreeBlk /\ ROOT \in TreeBlk
  BY UsedBlock DEF TreeBlk
<1>2. /\ w.h[b] \in Nat /\ w.lo[b] \in Int /\ w.hi[b] \in Int
      /\ w.h[ROOT] \in Nat /\ Low \in Int /\ High \in Int
  BY <1>1 DEF Tree, Witness
<1>3. NodeOK(B, w, b)
  BY DEF Tree
<1> QED  BY <1>2, <1>3 DEF NodeOK

(* The fences of the children of a block are in order.                     *)
LEMMA FencesInOrder ==
  ASSUME NEW x \in Block, Sorted(x), NEW l \in Int, NEW u \in Int,
         Within(x, l, u)
  PROVE  /\ \A i \in 0 .. x.nkeys :
              /\ From(x, l, i) \in Int /\ To(x, u, i) \in Int
              /\ l <= From(x, l, i) /\ To(x, u, i) <= u
              /\ From(x, l, i) < To(x, u, i)
         /\ \A i, j \in 0 .. x.nkeys : i < j => To(x, u, i) <= From(x, l, j)
  BY BlockKeys DEF Sorted, Within, From, To

(* A block has one parent.                                                 *)
LEMMA OneParent ==
  ASSUME NEW B, Sound(B), NEW w, Tree(B, w),
         NEW p \in Used(B), NEW q \in Used(B), w.h[p] # 0, w.h[q] # 0,
         NEW i \in 0 .. B[p].nkeys, NEW j \in 0 .. B[q].nkeys,
         B[p].lnk[i] = B[q].lnk[j]
  PROVE  p = q /\ i = j
<1> DEFINE c == B[p].lnk[i]
<1>1. /\ w.h[p] \in Nat /\ w.lo[p] \in Int /\ w.hi[p] \in Int /\ NodeOK(B, w, p)
      /\ w.h[q] \in Nat /\ w.lo[q] \in Int /\ w.hi[q] \in Int /\ NodeOK(B, w, q)
  BY UsedWitness
<1>2. /\ B[p] \in Block /\ B[q] \in Block
      /\ B[p].nkeys \in Nat /\ B[q].nkeys \in Nat
  BY UsedBlock
<1>3. /\ Kid(B, w, c, w.h[p] - 1, From(B[p], w.lo[p], i), To(B[p], w.hi[p], i))
      /\ Kid(B, w, c, w.h[q] - 1, From(B[q], w.lo[q], j), To(B[q], w.hi[q], j))
  BY <1>1 DEF NodeOK
<1> HIDE DEF c
<1>4. /\ w.h[p] = w.h[q]
      /\ From(B[p], w.lo[p], i) = From(B[q], w.lo[q], j)
      /\ To(B[p], w.hi[p], i) = To(B[q], w.hi[q], j)
  BY <1>1, <1>3 DEF Kid
<1>5. /\ Sorted(B[p]) /\ Within(B[p], w.lo[p], w.hi[p])
      /\ Sorted(B[q]) /\ Within(B[q], w.lo[q], w.hi[q])
  BY <1>1 DEF NodeOK
<1>6. /\ From(B[p], w.lo[p], i) \in Int /\ To(B[p], w.hi[p], i) \in Int
      /\ w.lo[p] <= From(B[p], w.lo[p], i) /\ To(B[p], w.hi[p], i) <= w.hi[p]
      /\ From(B[p], w.lo[p], i) < To(B[p], w.hi[p], i)
      /\ w.lo[q] <= From(B[q], w.lo[q], j) /\ To(B[q], w.hi[q], j) <= w.hi[q]
  BY <1>1, <1>2, <1>5, FencesInOrder
<1>7. p = q
  BY <1>1, <1>4, <1>6 DEF Tree, Apart
<1>8. i = j
  <2>1. \A m, n \in 0 .. B[p].nkeys :
          m < n => To(B[p], w.hi[p], m) <= From(B[p], w.lo[p], n)
    BY <1>1, <1>2, <1>5, FencesInOrder
  <2> QED  BY <1>2, <1>4, <1>6, <1>7, <2>1
<1> QED  BY <1>7, <1>8

(* A key of a block, and its fences, are not among those of any other      *)
(* block at its height or below.                                           *)
LEMMA ValuesApart ==
  ASSUME NEW B, Sound(B), NEW w, Tree(B, w),
         NEW b \in Used(B), NEW c \in Used(B), b # c, w.h[b] <= w.h[c]
  PROVE  /\ Clear(w, b, w.lo[c]) /\ Clear(w, b, w.hi[c])
         /\ \A i \in 0 .. B[c].nkeys - 1 : Clear(w, b, KeyAt(B[c], i))
<1>1. /\ w.h[b] \in Nat /\ w.lo[b] \in Int /\ w.hi[b] \in Int /\ NodeOK(B, w, b)
      /\ w.h[c] \in Nat /\ w.lo[c] \in Int /\ w.hi[c] \in Int /\ NodeOK(B, w, c)
  BY UsedWitness
<1>2. \A i \in 0 .. B[c].nkeys - 1 : KeyAt(B[c], i) \in Int
  BY UsedBlock
<1>3. CASE w.h[b] < w.h[c]
  BY <1>3 DEF Tree, Apart
<1>4. CASE w.h[b] = w.h[c]
  <2>1. w.hi[b] <= w.lo[c] \/ w.hi[c] <= w.lo[b]
    BY <1>4 DEF Tree, Apart
  <2>2. Within(B[c], w.lo[c], w.hi[c])
    BY <1>1 DEF NodeOK
  <2> QED  BY <1>1, <1>2, <2>1, <2>2 DEF Within, Clear
<1> QED  BY <1>1, <1>3, <1>4

----------------------------------------------------------------------------
(* The routines that edit one block, entry by entry and link by link.      *)

(* The numbers below n.                                                    *)
LEMMA UpTo ==
  ASSUME NEW n \in Nat
  PROVE  IsFiniteSet(0 .. n - 1) /\ Cardinality(0 .. n - 1) = n
<1>1. PICK m \in Int : m = n - 1
  OBVIOUS
<1>2. 0 \in Int /\ m \in Int
  OBVIOUS
<1>3. /\ IsFiniteSet(0 .. m)
      /\ Cardinality(0 .. m) = IF 0 > m THEN 0 ELSE m - 0 + 1
  BY <1>2, FS_Interval, Zenon
<1> QED  BY <1>1, <1>3

(* In a sorted block a gap separates the smaller keys from the others.     *)
LEMMA GapSeparates ==
  ASSUME NEW x \in Block, Sorted(x), NEW k \in Int
  PROVE  /\ Gap(x, k) \in 0 .. x.nkeys
         /\ \A i \in 0 .. x.nkeys - 1 : (i < Gap(x, k)) <=> (KeyAt(x, i) < k)
<1> DEFINE g == Gap(x, k)
<1>1. /\ x.nkeys \in Nat /\ g \in 0 .. x.nkeys
      /\ \A i \in 0 .. x.nkeys - 1 : KeyAt(x, i) \in Int
  BY BlockKeys, GapInBlock
<1>2. /\ IsFiniteSet(0 .. x.nkeys - 1) /\ Below(x, k) \subseteq 0 .. x.nkeys - 1
      /\ IsFiniteSet(Below(x, k)) /\ g = Cardinality(Below(x, k))
  <2>1. IsFiniteSet(0 .. x.nkeys - 1) /\ Below(x, k) \subseteq 0 .. x.nkeys - 1
    BY <1>1, UpTo DEF Below
  <2> QED  BY <2>1, FS_Subset DEF Gap
<1>3. \A i \in 0 .. x.nkeys - 1 : i \in Below(x, k) <=> KeyAt(x, i) < k
  BY DEF Below, KeyAt
<1>4. ASSUME NEW i \in 0 .. x.nkeys - 1, i < g PROVE KeyAt(x, i) < k
  <2> SUFFICES ASSUME ~(KeyAt(x, i) < k) PROVE FALSE
    OBVIOUS
  <2>1. Below(x, k) \subseteq 0 .. i - 1
    BY <1>1, <1>2, <1>3 DEF Sorted
  <2>2. IsFiniteSet(0 .. i - 1) /\ Cardinality(0 .. i - 1) = i
    BY <1>1, UpTo
  <2>3. g <= i
    BY <1>2, <2>1, <2>2, FS_Subset
  <2> QED  BY <1>1, <1>4, <2>3
<1>5. ASSUME NEW i \in 0 .. x.nkeys - 1, KeyAt(x, i) < k PROVE i < g
  <2>1. 0 .. i \subseteq Below(x, k)
    BY <1>1, <1>3, <1>5 DEF Sorted
  <2>2. IsFiniteSet(0 .. i) /\ Cardinality(0 .. i) = i + 1
    BY <1>1, FS_Interval
  <2>3. i + 1 <= g
    BY <1>2, <2>1, <2>2, FS_Subset
  <2> QED  BY <1>1, <2>3
<1> QED  BY <1>1, <1>4, <1>5

(* The gap of a key between the fences of child i is i; of key i also.     *)
LEMMA GapOf ==
  ASSUME NEW x \in Block, Sorted(x), NEW l \in Int, NEW u \in Int,
         Within(x, l, u),
         NEW k \in Int, NEW i \in 0 .. x.nkeys,
         \/ From(x, l, i) < k /\ k <= To(x, u, i)
         \/ i = 0 /\ k <= To(x, u, i)
  PROVE  Gap(x, k) = i
<1>1. /\ x.nkeys \in Nat /\ \A j \in 0 .. x.nkeys - 1 : KeyAt(x, j) \in Int
  BY BlockKeys
<1>2. /\ Gap(x, k) \in 0 .. x.nkeys
      /\ \A j \in 0 .. x.nkeys - 1 : (j < Gap(x, k)) <=> (KeyAt(x, j) < k)
  BY GapSeparates
<1>3. CASE Gap(x, k) < i
  BY <1>1, <1>2, <1>3 DEF From
<1>4. CASE Gap(x, k) > i
  BY <1>1, <1>2, <1>4 DEF To
<1> QED  BY <1>1, <1>2, <1>3, <1>4

(* A key between the fences of a block that is not in it is between those  *)
(* of the child at its gap.                                                *)
LEMMA GapFences ==
  ASSUME NEW x \in Block, Sorted(x), NEW l \in Int, NEW u \in Int,
         Within(x, l, u),
         NEW k \in Int, l < k, k < u
  PROVE  /\ Hit(x, k) <=> \E i \in 0 .. x.nkeys - 1 : KeyAt(x, i) = k
         /\ Hit(x, k) => /\ Gap(x, k) \in 0 .. x.nkeys - 1
                         /\ KeyAt(x, Gap(x, k)) = k
         /\ ~Hit(x, k) => /\ From(x, l, Gap(x, k)) < k
                          /\ k < To(x, u, Gap(x, k))
<1>1. /\ x.nkeys \in Nat /\ \A j \in 0 .. x.nkeys - 1 : KeyAt(x, j) \in Int
  BY BlockKeys
<1>2. /\ Gap(x, k) \in 0 .. x.nkeys
      /\ \A j \in 0 .. x.nkeys - 1 : (j < Gap(x, k)) <=> (KeyAt(x, j) < k)
  BY GapSeparates
<1>3. Hit(x, k) <=> Gap(x, k) < x.nkeys /\ KeyAt(x, Gap(x, k)) = k
  BY DEF Hit, KeyAt
<1>4. ASSUME NEW i \in 0 .. x.nkeys - 1, KeyAt(x, i) = k PROVE Gap(x, k) = i
  <2>1. ~(i < Gap(x, k))
    BY <1>1, <1>2, <1>4
  <2>2. ~(i > Gap(x, k))
    BY <1>1, <1>2, <1>4 DEF Sorted
  <2> QED  BY <1>2, <2>1, <2>2
<1>5. Hit(x, k) <=> \E i \in 0 .. x.nkeys - 1 : KeyAt(x, i) = k
  BY <1>1, <1>2, <1>3, <1>4
<1>6. ~Hit(x, k) => /\ From(x, l, Gap(x, k)) < k
                    /\ k < To(x, u, Gap(x, k))
  BY <1>1, <1>2, <1>3 DEF From, To
<1> QED  BY <1>1, <1>2, <1>3, <1>5, <1>6

(* bputky: the entries.                                                    *)
LEMMA PutEntries ==
  ASSUME NEW x \in Block, NEW e \in Entry,
         NEW left \in ChildOrNull, NEW right \in ChildOrNull, ~Full(x),
         NEW p \in 0 .. x.nkeys,
         x.nkeys # 0 => p = PutPos(x, e, left, right)
  PROVE  LET m == PutKey(x, e, left, right)
         IN  /\ m \in Block /\ m.type = x.type /\ m.nkeys = x.nkeys + 1
             /\ m.nkeys \in 0 .. MXKEY
             /\ \A i \in 0 .. x.nkeys :
                  /\ i < p => m.ent[i] = x.ent[i]
                  /\ i = p => m.ent[i] = e
                  /\ i > p => m.ent[i] = x.ent[i - 1]
             /\ m.lnk = PutLnk(x, p, left, right)
<1> DEFINE m == PutKey(x, e, left, right)
           q == IF x.nkeys = 0 THEN 0 ELSE PutPos(x, e, left, right)
<1>1. x.nkeys \in Nat /\ x.nkeys < MXKEY /\ MXKEY \in Nat
  BY BlockKeys, BlockConstants DEF Full
<1>2. q = p
  BY <1>1
<1>3. m = [x EXCEPT !.nkeys = @ + 1, !.ent = PutEnt(x, p, e),
                    !.lnk = PutLnk(x, p, left, right)]
  BY <1>2 DEF PutKey
<1>4. m \in Block /\ m.type = x.type
  BY PutKeyBlock
<1>5. /\ m.nkeys = x.nkeys + 1 /\ m.ent = PutEnt(x, p, e)
      /\ m.lnk = PutLnk(x, p, left, right)
  BY <1>3, BlockFacts
<1>6. \A i \in 0 .. x.nkeys :
        /\ i < p => m.ent[i] = x.ent[i]
        /\ i = p => m.ent[i] = e
        /\ i > p => m.ent[i] = x.ent[i - 1]
  BY <1>1, <1>5 DEF PutEnt
<1> HIDE DEF m
<1> QED  BY <1>1, <1>4, <1>5, <1>6 DEF m

(* bputky: the links of a leaf stay null.                                  *)
LEMMA PutLinksLeaf ==
  ASSUME NEW x \in Block, x.lnk = NoLinks, NEW p \in 0 .. x.nkeys,
         x.nkeys < MXKEY
  PROVE  PutLnk(x, p, ZNULL, ZNULL) = NoLinks
<1>1. x.nkeys \in Nat /\ MXKEY \in Nat
  BY BlockKeys, BlockConstants
<1>2. ShiftLnk(x, p) = NoLinks
  BY <1>1 DEF ShiftLnk, NoLinks
<1>3. [[NoLinks EXCEPT ![p] = ZNULL] EXCEPT ![p + 1] = ZNULL] = NoLinks
  BY <1>1 DEF NoLinks
<1>4. [[NoLinks EXCEPT ![0] = ZNULL] EXCEPT ![1] = ZNULL] = NoLinks
  BY <1>1 DEF NoLinks
<1> QED  BY <1>2, <1>3, <1>4 DEF PutLnk

(* bputky: a new child on the right of the one at p, on the right end, or  *)
(* on the left end.                                                        *)
LEMMA PutLinksNode ==
  ASSUME NEW x \in Block, NEW p \in 0 .. x.nkeys, x.nkeys < MXKEY, x.nkeys # 0,
         NEW left \in ChildOrNull, NEW right \in ChildOrNull
  PROVE  /\ right # ZNULL /\ (p = 0 => left = x.lnk[0]) =>
              \A i \in 0 .. x.nkeys + 1 :
                /\ i <= p => PutLnk(x, p, left, right)[i] = x.lnk[i]
                /\ i = p + 1 => PutLnk(x, p, left, right)[i] = right
                /\ i > p + 1 => PutLnk(x, p, left, right)[i] = x.lnk[i - 1]
         /\ p = 0 /\ left # ZNULL /\ right = ZNULL =>
              \A i \in 0 .. x.nkeys + 1 :
                /\ i = 0 => PutLnk(x, p, left, right)[i] = left
                /\ i # 0 => PutLnk(x, p, left, right)[i] = x.lnk[i - 1]
<1>1. x.nkeys \in Nat /\ MXKEY \in Nat /\ x.lnk \in [0 .. MXKEY -> ChildOrNull]
  BY BlockKeys, BlockConstants, BlockFacts
<1>2. \A i \in 0 .. MXKEY :
        ShiftLnk(x, p)[i] =
          IF i > p + 1 \/ (i = 1 /\ p = 0) THEN x.lnk[i - 1] ELSE x.lnk[i]
  BY <1>1 DEF ShiftLnk
<1>3. DOMAIN ShiftLnk(x, p) = 0 .. MXKEY
  BY DEF ShiftLnk
<1>4. ASSUME right # ZNULL \/ left # ZNULL, NEW i \in 0 .. x.nkeys + 1
      PROVE  PutLnk(x, p, left, right)[i] =
               IF i = p + 1
               THEN (IF right # ZNULL THEN right ELSE ShiftLnk(x, p)[i])
               ELSE IF i = 0 /\ p = 0 THEN left ELSE ShiftLnk(x, p)[i]
  <2>1. PutLnk(x, p, left, right) =
          [ShiftLnk(x, p) EXCEPT
               ![0] = IF p = 0 THEN left ELSE @,
               ![p + 1] = IF right # ZNULL THEN right ELSE @]
    BY <1>4 DEF PutLnk
  <2>2. /\ p + 1 \in 0 .. MXKEY /\ 0 \in 0 .. MXKEY /\ i \in 0 .. MXKEY
        /\ p + 1 # 0
    BY <1>1
  <2> QED  BY <1>3, <2>1, <2>2
<1> QED  BY <1>1, <1>2, <1>4

(* bremky.                                                                 *)
LEMMA RemoveView ==
  ASSUME NEW x \in Block, NEW s \in 0 .. x.nkeys - 1
  PROVE  LET m == RemKey(x, s)
         IN  /\ m \in Block /\ m.type = x.type /\ m.nkeys = x.nkeys - 1
             /\ m.nkeys \in Nat
             /\ \A i \in 0 .. x.nkeys - 2 :
                  /\ i < s => m.ent[i] = x.ent[i]
                  /\ i >= s => m.ent[i] = x.ent[i + 1]
             /\ \A i \in 0 .. x.nkeys - 1 :
                  /\ i <= s => m.lnk[i] = x.lnk[i]
                  /\ i > s => m.lnk[i] = x.lnk[i + 1]
             /\ x.lnk = NoLinks => m.lnk = NoLinks
<1> DEFINE m == RemKey(x, s)
           lnk == [i \in 0 .. MXKEY |->
                     IF i <= s THEN x.lnk[i]
                     ELSE IF i + 1 <= x.nkeys THEN x.lnk[i + 1] ELSE ZNULL]
           ent == [i \in 0 .. MXKEY - 1 |->
                     IF i < s THEN x.ent[i]
                     ELSE IF i + 1 < x.nkeys THEN x.ent[i + 1] ELSE NoEnt]
<1>1. x.nkeys \in Nat /\ x.nkeys <= MXKEY /\ MXKEY \in Nat
  BY BlockKeys, BlockConstants
<1>2. m \in Block /\ m.type = x.type /\ m.nkeys = x.nkeys - 1
  BY RemKeyBlock
<1>3. m.ent = ent /\ m.lnk = lnk
  BY BlockFacts DEF RemKey
<1>4. x.lnk = NoLinks => lnk = NoLinks
  BY <1>1 DEF NoLinks
<1> HIDE DEF m
<1>5. \A i \in 0 .. x.nkeys - 2 :
        /\ i < s => m.ent[i] = x.ent[i]
        /\ i >= s => m.ent[i] = x.ent[i + 1]
  BY <1>1, <1>3
<1>6. \A i \in 0 .. x.nkeys - 1 :
        /\ i <= s => m.lnk[i] = x.lnk[i]
        /\ i > s => m.lnk[i] = x.lnk[i + 1]
  BY <1>1, <1>3
<1>7. m.nkeys \in Nat
  BY <1>1, <1>2
<1>8. x.lnk = NoLinks => m.lnk = NoLinks
  BY <1>3, <1>4
<1> QED  BY <1>2, <1>5, <1>6, <1>7, <1>8 DEF m

(* bcpybk over the keys of a block.                                        *)
LEMMA CopyView ==
  ASSUME NEW x \in Block, NEW f \in Block, NEW fs \in Nat, NEW n \in Nat,
         fs + n <= f.nkeys
  PROVE  LET m == CopyKeys(x, f, fs, n)
         IN  /\ m \in Block /\ m.type = x.type /\ m.nkeys = n
             /\ \A i \in 0 .. n - 1 : m.ent[i] = f.ent[fs + i]
             /\ \A i \in 0 .. n : m.lnk[i] = f.lnk[fs + i]
             /\ f.lnk = NoLinks => m.lnk = NoLinks
<1> DEFINE m == CopyKeys(x, f, fs, n)
           lnk == [i \in 0 .. MXKEY |-> IF i <= n THEN f.lnk[fs + i] ELSE ZNULL]
           ent == [i \in 0 .. MXKEY - 1 |->
                     IF i < n THEN f.ent[fs + i] ELSE NoEnt]
<1>1. f.nkeys \in Nat /\ f.nkeys <= MXKEY /\ MXKEY \in Nat
  BY BlockKeys, BlockConstants
<1>2. m \in Block /\ m.type = x.type /\ m.nkeys = n
  BY CopyKeysBlock
<1>3. m.ent = ent /\ m.lnk = lnk
  BY BlockFacts DEF CopyKeys
<1>4. f.lnk = NoLinks => lnk = NoLinks
  BY <1>1 DEF NoLinks
<1> HIDE DEF m
<1> QED  BY <1>1, <1>2, <1>3, <1>4 DEF m

(* The same into a new block.                                              *)
LEMMA CopyNew ==
  ASSUME NEW f \in Block, NEW fs \in Nat, NEW n \in Nat, fs + n <= f.nkeys,
         NEW m, m = CopyKeys(FreshBlock("inuse", ZNULL), f, fs, n)
  PROVE  /\ m \in Block /\ m.type = "inuse" /\ m.nkeys = n
         /\ \A i \in 0 .. n - 1 : m.ent[i] = f.ent[fs + i]
         /\ \A i \in 0 .. n : m.lnk[i] = f.lnk[fs + i]
         /\ f.lnk = NoLinks => m.lnk = NoLinks
<1> DEFINE fresh == FreshBlock("inuse", ZNULL)
<1>1. fresh \in Block /\ fresh.type = "inuse"
  BY FreshIsBlock, BlockNumbers DEF BlockType
<1>2. m = CopyKeys(fresh, f, fs, n)
  OBVIOUS
<1> HIDE DEF fresh
<1> QED  BY <1>1, <1>2, CopyView

(* bcpybk to the end of a leaf.                                            *)
LEMMA AppendView ==
  ASSUME NEW x \in Block, NEW f \in Block, x.nkeys + f.nkeys <= MXKEY,
         x.lnk = NoLinks, f.lnk = NoLinks
  PROVE  LET m == AppendKeys(x, f)
         IN  /\ m \in Block /\ m.type = x.type /\ m.nkeys = x.nkeys + f.nkeys
             /\ \A i \in 0 .. m.nkeys - 1 :
                  /\ i < x.nkeys => m.ent[i] = x.ent[i]
                  /\ i >= x.nkeys => m.ent[i] = f.ent[i - x.nkeys]
             /\ m.lnk = NoLinks
<1> DEFINE m == AppendKeys(x, f)
           t == x.nkeys  n == f.nkeys
           ent == [i \in 0 .. MXKEY - 1 |->
                     IF i < t THEN x.ent[i]
                     ELSE IF i < t + n THEN f.ent[i - t] ELSE NoEnt]
           lnk == [i \in 0 .. MXKEY |->
                     IF i = t + n THEN f.lnk[n]
                     ELSE IF i <= t THEN x.lnk[i]
                     ELSE IF i < t + n THEN f.lnk[i - t - 1] ELSE ZNULL]
<1>1. t \in Nat /\ n \in Nat /\ MXKEY \in Nat
  BY BlockKeys, BlockConstants
<1>2. m \in Block /\ m.type = x.type
  BY AppendKeysBlock
<1>3. m.ent = ent /\ m.lnk = lnk /\ m.nkeys = t + n
  BY BlockFacts DEF AppendKeys
<1>4. lnk = NoLinks
  BY <1>1 DEF NoLinks
<1> HIDE DEF m
<1> QED  BY <1>1, <1>2, <1>3, <1>4 DEF m

----------------------------------------------------------------------------
(* The steps on the tree.                                                  *)

(* Block m may take the place of block b: a leaf with any keys between the *)
(* fences, an interior block with the same keys and links.                 *)
Fits(B, w, b, m) ==
  /\ m \in Block /\ m.type = B[b].type
  /\ Sorted(m) /\ Within(m, w.lo[b], w.hi[b])
  /\ w.h[b] = 0 => m.lnk = NoLinks
  /\ w.h[b] # 0 => /\ m.nkeys = B[b].nkeys /\ m.lnk = B[b].lnk
                   /\ \A i \in 0 .. m.nkeys - 1 :
                        KeyAt(m, i) = KeyAt(B[b], i)

Write(B, b, m) == [B EXCEPT ![b] = m]

(* One block of the tree is rewritten.                                     *)
LEMMA EditTree ==
  ASSUME NEW B, Sound(B), NEW w, Tree(B, w), NEW b \in Used(B),
         NEW m, Fits(B, w, b, m), NEW B2, B2 = Write(B, b, m)
  PROVE  /\ Used(B2) = Used(B) /\ Tree(B2, w) /\ B2[b] = m
         /\ \A a \in Used(B) \ {b} : B2[a] = B[a]
<1>0. /\ m \in Block /\ m.type = B[b].type
      /\ Sorted(m) /\ Within(m, w.lo[b], w.hi[b])
      /\ w.h[b] = 0 => m.lnk = NoLinks
      /\ w.h[b] # 0 => /\ m.nkeys = B[b].nkeys /\ m.lnk = B[b].lnk
                       /\ \A i \in 0 .. m.nkeys - 1 :
                            KeyAt(m, i) = KeyAt(B[b], i)
  BY DEF Fits
<1>1. /\ b \in Link /\ B \in [Link -> Block] /\ (b # ROOT => b \in Child)
      /\ \A a \in Used(B) : a \in Link
  BY UsedBlock DEF Sound
<1>2. B2[b] = m /\ \A a \in Link \ {b} : B2[a] = B[a]
  BY <1>1 DEF Write
<1>3. Used(B2) = Used(B)
  BY <1>0, <1>1, <1>2, BlockNumbers DEF Used
<1>4. ASSUME NEW a \in Used(B) PROVE NodeOK(B2, w, a)
  <2>1. NodeOK(B, w, a) /\ w.h[b] \in Nat
    BY <1>4, UsedWitness
  <2>2. CASE a # b
    <3>1. B2[a] = B[a]
      BY <1>1, <1>2, <2>2
    <3> QED  BY <1>3, <2>1, <3>1 DEF NodeOK, Kid
  <2>3. CASE a = b
    <3>1. B2[a] = m
      BY <1>2, <2>3
    <3>2. CASE w.h[b] = 0
      BY <1>0, <2>1, <2>3, <3>1, <3>2 DEF NodeOK
    <3>3. CASE w.h[b] # 0
      <4>1. B[b].nkeys \in Nat
        BY UsedBlock
      <4>2. \A i \in 0 .. m.nkeys :
              /\ From(m, w.lo[b], i) = From(B[b], w.lo[b], i)
              /\ To(m, w.hi[b], i) = To(B[b], w.hi[b], i)
        BY <1>0, <3>3, <4>1 DEF From, To
      <4> QED  BY <1>0, <1>3, <2>1, <2>3, <3>1, <3>3, <4>2 DEF NodeOK, Kid
    <3> QED  BY <3>2, <3>3
  <2> QED  BY <2>2, <2>3
<1>5. Apart(B2, w)
  <2> SUFFICES ASSUME NEW x \in Used(B), NEW y \in Used(B), w.h[x] < w.h[y]
               PROVE  \A i \in 0 .. B2[y].nkeys - 1 :
                        Clear(w, x, KeyAt(B2[y], i))
    BY <1>3 DEF Tree, Apart
  <2>1. \A i \in 0 .. B[y].nkeys - 1 : Clear(w, x, KeyAt(B[y], i))
    BY DEF Tree, Apart
  <2>2. w.h[x] \in Nat /\ w.h[y] \in Nat
    BY UsedWitness
  <2>3. CASE y = b
    BY <1>0, <1>2, <2>1, <2>2, <2>3
  <2>4. CASE y # b
    BY <1>1, <1>2, <2>1, <2>4
  <2> QED  BY <2>3, <2>4
<1> QED  BY <1>1, <1>2, <1>3, <1>4, <1>5 DEF Tree

(* The witness after the split of block b at key m.                        *)
SplitWitness(w, b, new, m) ==
  [h  |-> [w.h EXCEPT ![new] = w.h[b]],
   lo |-> [w.lo EXCEPT ![new] = m],
   hi |-> [w.hi EXCEPT ![b] = m, ![new] = w.hi[b]]]

(* A child is split, by bsptbk: x and y take its keys but the middle one,  *)
(* which goes to the parent.                                               *)
LEMMA SplitTree ==
  ASSUME NEW B, Sound(B), NEW w, Tree(B, w),
         NEW p \in Used(B), w.h[p] # 0, ~Full(B[p]), B[p].nkeys # 0,
         NEW i \in 0 .. B[p].nkeys, NEW b, b = B[p].lnk[i], Full(B[b]),
         NEW new \in Child, new \notin Used(B)
  PROVE  LET B2 == Split(B, b, new, p)
             w2 == SplitWitness(w, b, new, KeyAt(B[b], Sp))
         IN  /\ Tree(B2, w2) /\ Used(B2) = Used(B) \cup {new}
             /\ \A a \in Used(B) : w2.h[a] = w.h[a]
             /\ \A a \in Used(B) \ {b} :
                  w2.lo[a] = w.lo[a] /\ w2.hi[a] = w.hi[a]
             /\ \A a \in Used(B) \ {b, p} : B2[a] = B[a]
             /\ \A a \in Link \ {b, p, new} : B2[a] = B[a]
             /\ B2[p].nkeys = B[p].nkeys + 1 /\ B2[b].nkeys = Sp
             /\ B2[new].nkeys = Sp2
<1> DEFINE f  == B[b]
           m  == KeyAt(f, Sp)
           e  == f.ent[Sp]
           B2 == Split(B, b, new, p)
           w2 == SplitWitness(w, b, new, m)
           n1 == CopyKeys(FreshBlock("inuse", ZNULL), f, Sp + 1, Sp2)
           n2 == CopyKeys(f, f, 0, Sp)
           n3 == PutKey(B[p], e, b, new)
           l  == w.lo[b]
           u  == w.hi[b]
<1>1. /\ NodeOK(B, w, p) /\ w.h[p] \in Nat /\ w.lo[p] \in Int /\ w.hi[p] \in Int
      /\ B[p] \in Block /\ B[p].nkeys \in Nat /\ p \in Link /\ p \in TreeBlk
      /\ Sorted(B[p]) /\ Within(B[p], w.lo[p], w.hi[p])
  BY UsedWitness, UsedBlock DEF NodeOK
<1>2. Kid(B, w, b, w.h[p] - 1, From(B[p], w.lo[p], i), To(B[p], w.hi[p], i))
  BY <1>1 DEF NodeOK
<1>3. /\ b \in Used(B) \ {ROOT} /\ w.h[b] = w.h[p] - 1
      /\ l = From(B[p], w.lo[p], i) /\ u = To(B[p], w.hi[p], i)
  BY <1>2 DEF Kid
<1>4. /\ NodeOK(B, w, b) /\ w.h[b] \in Nat /\ l \in Int /\ u \in Int
      /\ f \in Block /\ b \in Link /\ b \in Child /\ f.nkeys = MXKEY
      /\ f.type = "inuse"
      /\ Sorted(f) /\ Within(f, l, u)
      /\ \A j \in 0 .. f.nkeys - 1 : f.ent[j] \in Entry /\ KeyAt(f, j) \in Int
      /\ w.h[ROOT] \in Nat /\ Low \in Int /\ High \in Int
  BY <1>3, UsedWitness, UsedBlock, SMTT(30) DEF NodeOK, Full
<1>5. /\ Sp \in Nat /\ Sp2 \in Nat /\ Sp + 1 + Sp2 = MXKEY /\ MXKEY \in Nat
      /\ Sp \in 0 .. f.nkeys - 1
  BY <1>4, SplitPoint, BlockConstants, SMTT(60)
<1>6. e \in Entry /\ m \in Int /\ e.key = m /\ l < m /\ m < u
  BY <1>4, <1>5 DEF Within, KeyAt
<1>7. /\ b # p /\ new # b /\ new # p /\ new \in Link /\ new \in TreeBlk
      /\ new # ROOT
  BY <1>1, <1>3, BlockNumbers, BlockConstants DEF TreeBlk, Child, ROOT
<1>8. /\ n1 \in Block /\ n1.type = "inuse" /\ n1.nkeys = Sp2
      /\ \A j \in 0 .. Sp2 - 1 : n1.ent[j] = f.ent[Sp + 1 + j]
      /\ \A j \in 0 .. Sp2 : n1.lnk[j] = f.lnk[Sp + 1 + j]
      /\ f.lnk = NoLinks => n1.lnk = NoLinks
  <2>1. PICK fs \in Nat : fs = Sp + 1
    BY <1>5
  <2>2. n1 = CopyKeys(FreshBlock("inuse", ZNULL), f, fs, Sp2)
    BY <2>1
  <2>3. f \in Block /\ Sp2 \in Nat /\ fs + Sp2 <= f.nkeys
    BY <1>4, <1>5, <2>1, SMTT(60)
  <2> HIDE DEF n1, f
  <2>4. /\ n1 \in Block /\ n1.type = "inuse" /\ n1.nkeys = Sp2
        /\ \A j \in 0 .. Sp2 - 1 : n1.ent[j] = f.ent[fs + j]
        /\ \A j \in 0 .. Sp2 : n1.lnk[j] = f.lnk[fs + j]
        /\ f.lnk = NoLinks => n1.lnk = NoLinks
    BY <2>2, <2>3, CopyNew
  <2> QED  BY <1>5, <2>1, <2>4
<1>9. /\ n2 \in Block /\ n2.type = "inuse" /\ n2.nkeys = Sp
      /\ \A j \in 0 .. Sp - 1 : n2.ent[j] = f.ent[j]
      /\ \A j \in 0 .. Sp : n2.lnk[j] = f.lnk[j]
      /\ f.lnk = NoLinks => n2.lnk = NoLinks
  <2>1. PICK fs \in Nat : fs = 0
    OBVIOUS
  <2>2. n2 = CopyKeys(f, f, fs, Sp)
    BY <2>1
  <2>3. f \in Block /\ Sp \in Nat /\ fs + Sp <= f.nkeys
    BY <1>4, <1>5, <2>1, SMTT(60)
  <2> HIDE DEF n2, f
  <2>4. /\ n2 \in Block /\ n2.type = f.type /\ n2.nkeys = Sp
        /\ \A j \in 0 .. Sp - 1 : n2.ent[j] = f.ent[fs + j]
        /\ \A j \in 0 .. Sp : n2.lnk[j] = f.lnk[fs + j]
        /\ f.lnk = NoLinks => n2.lnk = NoLinks
    BY <2>2, <2>3, CopyView, SMTT(30)
  <2> QED  BY <1>4, <1>5, <2>1, <2>4
<1>10. Gap(B[p], m) = i
  <2>1. From(B[p], w.lo[p], i) < m /\ m <= To(B[p], w.hi[p], i)
    BY <1>3, <1>4, <1>6, SMTT(60)
  <2> HIDE DEF m
  <2> QED  BY <1>1, <1>6, <2>1, GapOf
<1>11. /\ n3 \in Block /\ n3.type = B[p].type /\ n3.nkeys = B[p].nkeys + 1
       /\ \A j \in 0 .. B[p].nkeys :
            /\ j < i => n3.ent[j] = B[p].ent[j]
            /\ j = i => n3.ent[j] = e
            /\ j > i => n3.ent[j] = B[p].ent[j - 1]
       /\ \A j \in 0 .. B[p].nkeys + 1 :
            /\ j <= i => n3.lnk[j] = B[p].lnk[j]
            /\ j = i + 1 => n3.lnk[j] = new
            /\ j > i + 1 => n3.lnk[j] = B[p].lnk[j - 1]
  <2>1. b \in ChildOrNull /\ new \in ChildOrNull /\ b # ZNULL /\ new # ZNULL
    BY <1>4, BlockNumbers DEF ChildOrNull, Child, ZNULL
  <2>2. i = PutPos(B[p], e, b, new)
    BY <1>6, <1>10, <2>1 DEF PutPos
  <2>3. /\ n3 \in Block /\ n3.type = B[p].type /\ n3.nkeys = B[p].nkeys + 1
        /\ \A j \in 0 .. B[p].nkeys :
             /\ j < i => n3.ent[j] = B[p].ent[j]
             /\ j = i => n3.ent[j] = e
             /\ j > i => n3.ent[j] = B[p].ent[j - 1]
        /\ n3.lnk = PutLnk(B[p], i, b, new)
    <3>1. n3 = PutKey(B[p], e, b, new)
      OBVIOUS
    <3>2. B[p] \in Block /\ e \in Entry
      BY <1>1, <1>6
    <3> HIDE DEF n3, e
    <3>3. B[p].nkeys # 0 => i = PutPos(B[p], e, b, new)
      BY <2>2
    <3> QED  BY <2>1, <3>1, <3>2, <3>3, PutEntries
  <2>4. B[p].nkeys < MXKEY /\ (i = 0 => b = B[p].lnk[0])
    BY <1>1, BlockKeys, BlockConstants DEF Full
  <2>5. \A j \in 0 .. B[p].nkeys + 1 :
          /\ j <= i => PutLnk(B[p], i, b, new)[j] = B[p].lnk[j]
          /\ j = i + 1 => PutLnk(B[p], i, b, new)[j] = new
          /\ j > i + 1 => PutLnk(B[p], i, b, new)[j] = B[p].lnk[j - 1]
    BY <1>1, <2>1, <2>4, PutLinksNode
  <2> QED  BY <2>3, <2>5, ZenonT(40)
<1>12. /\ B2[new] = n1 /\ B2[b] = n2 /\ B2[p] = n3
       /\ \A a \in Link \ {b, p, new} : B2[a] = B[a]
  <2>1. B \in [Link -> Block] /\ Read(B, b) = f
    BY <1>4, BlockNumbers DEF Sound, Read
  <2> HIDE DEF n1, n2, n3
  <2>2. B2 = [B EXCEPT ![new] = n1, ![b] = n2, ![p] = n3]
    BY <2>1 DEF Split, n1, n2, n3
  <2> QED  BY <1>1, <1>4, <1>7, <2>1, <2>2
<1> HIDE DEF B2, n1, n2, n3, f, m, e
<1>13. Used(B2) = Used(B) \cup {new}
  BY <1>1, <1>3, <1>4, <1>7, <1>8, <1>9, <1>11, <1>12, BlockNumbers, UsedBlock, SMTT(30)
     DEF Used
<1>14. /\ w2 \in Witness
       /\ w2.h[new] = w.h[b] /\ w2.lo[new] = m /\ w2.hi[new] = u
       /\ w2.h[b] = w.h[b] /\ w2.lo[b] = l /\ w2.hi[b] = m
       /\ \A a \in Used(B) : w2.h[a] = w.h[a]
       /\ \A a \in Used(B) \ {b} : w2.lo[a] = w.lo[a] /\ w2.hi[a] = w.hi[a]
  <2>1. w \in Witness /\ b \in TreeBlk
    BY <1>4 DEF Tree, TreeBlk
  <2>2. \A a \in Used(B) : a \in TreeBlk /\ a # new
    BY UsedBlock
  <2> QED  BY <1>4, <1>6, <1>7, <2>1, <2>2 DEF SplitWitness, Witness
<1> HIDE DEF w2, l, u
<1>15. \A a \in Used(B) : a \in Link /\ NodeOK(B, w, a)
         /\ w.h[a] \in Nat /\ w.lo[a] \in Int /\ w.hi[a] \in Int
         /\ B[a] \in Block /\ B[a].nkeys \in Nat
  BY UsedBlock, UsedWitness
<1>16. ASSUME NEW a \in Used(B), w.h[a] # 0, NEW j \in 0 .. B[a].nkeys,
              a # p \/ j # i, NEW n, NEW x, NEW y,
              Kid(B, w, B[a].lnk[j], n, x, y)
       PROVE  Kid(B2, w2, B[a].lnk[j], n, x, y)
  <2>1. B[a].lnk[j] # b
    BY <1>16, OneParent
  <2> QED  BY <1>13, <1>14, <1>16, <2>1 DEF Kid
<1>17. NodeOK(B2, w2, b)
  <2>1. \A j \in 0 .. Sp - 1 : KeyAt(n2, j) = KeyAt(f, j)
    BY <1>9 DEF KeyAt
  <2>2. Sorted(n2) /\ Within(n2, l, m)
    BY <1>4, <1>5, <1>6, <1>9, <2>1 DEF Sorted, Within, m
  <2>3. \A j \in 0 .. Sp :
          From(n2, l, j) = From(f, l, j) /\ To(n2, m, j) = To(f, u, j)
    BY <1>4, <1>5, <1>9, <2>1 DEF From, To, m
  <2>4. ASSUME w.h[b] # 0, NEW j \in 0 .. Sp
        PROVE  Kid(B2, w2, n2.lnk[j], w.h[b] - 1, From(n2, l, j), To(n2, m, j))
    <3>1. j \in 0 .. f.nkeys
      BY <1>4, <1>5
    <3>2. Kid(B, w, f.lnk[j], w.h[b] - 1, From(f, l, j), To(f, u, j))
      BY <1>4, <2>4, <3>1 DEF NodeOK, f, l, u
    <3> QED  BY <1>3, <1>7, <1>9, <1>16, <2>3, <2>4, <3>1, <3>2 DEF f
  <2>5. w.h[b] = 0 => n2.lnk = NoLinks
    BY <1>4, <1>9 DEF NodeOK, f
  <2>6. b # ROOT /\ w2.h[b] < w2.h[ROOT] /\ Low <= w2.lo[b] /\ w2.hi[b] <= High
    <3>1. w.h[b] < w.h[ROOT] /\ Low <= l /\ u <= High /\ b # ROOT
      BY <1>3, <1>4 DEF NodeOK, l, u
    <3>2. ROOT \in Used(B)
      BY DEF Used
    <3> QED  BY <1>4, <1>6, <1>14, <3>1, <3>2 DEF Tree
  <2> QED  BY <1>9, <1>12, <1>14, <2>2, <2>4, <2>5, <2>6 DEF NodeOK
<1>18. NodeOK(B2, w2, new)
  <2>1. \A j \in 0 .. Sp2 - 1 : KeyAt(n1, j) = KeyAt(f, Sp + 1 + j)
    BY <1>8 DEF KeyAt
  <2>2. Sorted(n1) /\ Within(n1, m, u)
    BY <1>4, <1>5, <1>6, <1>8, <2>1 DEF Sorted, Within, m
  <2>3. \A j \in 0 .. Sp2 : /\ From(n1, m, j) = From(f, l, Sp + 1 + j)
                            /\ To(n1, u, j) = To(f, u, Sp + 1 + j)
    BY <1>4, <1>5, <1>8, <2>1 DEF From, To, m
  <2>4. ASSUME w.h[b] # 0, NEW j \in 0 .. Sp2
        PROVE  Kid(B2, w2, n1.lnk[j], w.h[b] - 1, From(n1, m, j), To(n1, u, j))
    <3>1. Sp + 1 + j \in 0 .. f.nkeys
      BY <1>4, <1>5
    <3>2. Kid(B, w, f.lnk[Sp + 1 + j], w.h[b] - 1,
              From(f, l, Sp + 1 + j), To(f, u, Sp + 1 + j))
      BY <1>4, <2>4, <3>1 DEF NodeOK, f, l, u
    <3> QED  BY <1>3, <1>7, <1>8, <1>16, <2>3, <2>4, <3>1, <3>2 DEF f
  <2>5. w.h[b] = 0 => n1.lnk = NoLinks
    BY <1>4, <1>8 DEF NodeOK, f
  <2>6. w2.h[new] < w2.h[ROOT] /\ Low <= w2.lo[new] /\ w2.hi[new] <= High
    <3>1. w.h[b] < w.h[ROOT] /\ Low <= l /\ u <= High /\ b # ROOT
      BY <1>3, <1>4 DEF NodeOK, l, u
    <3>2. ROOT \in Used(B)
      BY DEF Used
    <3> QED  BY <1>4, <1>6, <1>14, <3>1, <3>2 DEF Tree
  <2> QED  BY <1>8, <1>12, <1>14, <2>2, <2>4, <2>5, <2>6 DEF NodeOK
<1>19. NodeOK(B2, w2, p)
  <2> DEFINE x == B[p]  a == w.lo[p]  z == w.hi[p]
  <2>1. \A j \in 0 .. x.nkeys :
          /\ j < i => KeyAt(n3, j) = KeyAt(x, j)
          /\ j = i => KeyAt(n3, j) = m
          /\ j > i => KeyAt(n3, j) = KeyAt(x, j - 1)
    BY <1>6, <1>11 DEF KeyAt
  <2>2. /\ From(x, a, i) < m /\ m < To(x, z, i)
        /\ \A j \in 0 .. x.nkeys - 1 : KeyAt(x, j) \in Int
    BY <1>1, <1>3, <1>6, BlockKeys
  <2>3. Sorted(n3) /\ Within(n3, a, z)
    <3>1. \A j \in 0 .. x.nkeys - 1 :
            /\ j < i => KeyAt(x, j) < m
            /\ j >= i => m < KeyAt(x, j)
      BY <1>1, <1>6, <2>2 DEF Sorted, From, To
    <3>2. a < m /\ m < z
      BY <1>1, <1>6, <2>2 DEF Within, From, To
    <3> HIDE DEF x, a, z
    <3>3. /\ Sorted(x) /\ Within(x, a, z) /\ x.nkeys \in Nat
          /\ n3.nkeys = x.nkeys + 1 /\ i \in 0 .. x.nkeys
      BY <1>1, <1>11 DEF x, a, z
    <3>4. ASSUME NEW j \in 0 .. n3.nkeys - 1, NEW k \in 0 .. n3.nkeys - 1, j < k
          PROVE  KeyAt(n3, j) < KeyAt(n3, k)
      <4>1. j \in 0 .. x.nkeys /\ k \in 0 .. x.nkeys
        BY <3>3
      <4>2. CASE j < i /\ k < i
        <5>1. j \in 0 .. x.nkeys - 1 /\ k \in 0 .. x.nkeys - 1
          BY <3>3, <4>1, <4>2
        <5>2. KeyAt(x, j) < KeyAt(x, k)
          BY <3>3, <3>4, <5>1 DEF Sorted
        <5>3. KeyAt(n3, j) = KeyAt(x, j) /\ KeyAt(n3, k) = KeyAt(x, k)
          BY <2>1, <4>1, <4>2
        <5> QED  BY <5>2, <5>3
      <4>3. CASE j < i /\ k = i
        <5>1. j \in 0 .. x.nkeys - 1
          BY <3>3, <4>1, <4>3
        <5>2. KeyAt(n3, j) = KeyAt(x, j) /\ KeyAt(n3, k) = m
          BY <2>1, <4>1, <4>3
        <5> QED  BY <3>1, <4>3, <5>1, <5>2
      <4>4. CASE j < i /\ k > i
        <5>1. j \in 0 .. x.nkeys - 1 /\ k - 1 \in 0 .. x.nkeys - 1 /\ j < k - 1
          BY <3>3, <4>1, <4>4
        <5>2. KeyAt(x, j) < KeyAt(x, k - 1)
          BY <3>3, <5>1 DEF Sorted
        <5>3. KeyAt(n3, j) = KeyAt(x, j) /\ KeyAt(n3, k) = KeyAt(x, k - 1)
          BY <2>1, <4>1, <4>4
        <5> QED  BY <5>2, <5>3
      <4>5. CASE j = i
        <5>1. k - 1 \in 0 .. x.nkeys - 1 /\ k - 1 >= i
          BY <3>3, <3>4, <4>1, <4>5
        <5>2. KeyAt(n3, j) = m /\ KeyAt(n3, k) = KeyAt(x, k - 1)
          BY <2>1, <3>3, <3>4, <4>1, <4>5
        <5> QED  BY <3>1, <5>1, <5>2
      <4>6. CASE j > i
        <5>1. /\ j - 1 \in 0 .. x.nkeys - 1 /\ k - 1 \in 0 .. x.nkeys - 1
              /\ j - 1 < k - 1 /\ k > i
          BY <3>3, <3>4, <4>1, <4>6
        <5>2. KeyAt(x, j - 1) < KeyAt(x, k - 1)
          BY <3>3, <5>1 DEF Sorted
        <5>3. KeyAt(n3, j) = KeyAt(x, j - 1) /\ KeyAt(n3, k) = KeyAt(x, k - 1)
          BY <2>1, <4>1, <4>6, <5>1
        <5> QED  BY <5>2, <5>3
      <4>7. i \in Int /\ j \in Int /\ k \in Int
        BY <3>3, <4>1
      <4> QED  BY <4>2, <4>3, <4>4, <4>5, <4>6, <4>7
    <3>5. Within(n3, a, z)
      BY <2>1, <3>2, <3>3 DEF Within
    <3> QED  BY <3>4, <3>5 DEF Sorted
  <2>4. \A j \in 0 .. x.nkeys + 1 :
          /\ j < i =>
               From(n3, a, j) = From(x, a, j) /\ To(n3, z, j) = To(x, z, j)
          /\ j = i => From(n3, a, j) = l /\ To(n3, z, j) = m
          /\ j = i + 1 => From(n3, a, j) = m /\ To(n3, z, j) = u
          /\ j > i + 1 => /\ From(n3, a, j) = From(x, a, j - 1)
                          /\ To(n3, z, j) = To(x, z, j - 1)
    BY <1>1, <1>3, <1>11, <2>1 DEF From, To
  <2>5. ASSUME NEW j \in 0 .. x.nkeys + 1
        PROVE  Kid(B2, w2, n3.lnk[j], w.h[p] - 1, From(n3, a, j), To(n3, z, j))
    <3>1. \A k \in 0 .. x.nkeys :
            Kid(B, w, x.lnk[k], w.h[p] - 1, From(x, a, k), To(x, z, k))
      BY <1>1 DEF NodeOK
    <3>2. CASE j < i
      <4>1. j \in 0 .. x.nkeys /\ j # i /\ n3.lnk[j] = x.lnk[j]
        BY <1>1, <1>11, <3>2
      <4> QED  BY <1>16, <2>4, <3>1, <3>2, <4>1
    <3>3. CASE j = i
      <4>1. n3.lnk[j] = b
        BY <1>1, <1>11, <3>3
      <4> QED  BY <1>3, <1>13, <1>14, <2>4, <3>3, <4>1 DEF Kid
    <3>4. CASE j = i + 1
      <4>1. n3.lnk[j] = new
        BY <1>1, <1>11, <3>4
      <4> QED  BY <1>3, <1>7, <1>13, <1>14, <2>4, <3>4, <4>1 DEF Kid
    <3>5. CASE j > i + 1
      <4>1. j - 1 \in 0 .. x.nkeys /\ j - 1 # i /\ n3.lnk[j] = x.lnk[j - 1]
        BY <1>1, <1>11, <3>5
      <4> QED  BY <1>16, <2>4, <3>1, <3>5, <4>1
    <3> QED  BY <3>2, <3>3, <3>4, <3>5
  <2>6. /\ w2.h[p] = w.h[p] /\ w2.lo[p] = a /\ w2.hi[p] = z
        /\ w2.h[ROOT] = w.h[ROOT]
    <3>1. p \in Used(B) \ {b} /\ ROOT \in Used(B)
      BY <1>7 DEF Used
    <3> QED  BY <1>14, <3>1
  <2> QED  BY <1>1, <1>11, <1>12, <2>3, <2>5, <2>6 DEF NodeOK
<1>20. ASSUME NEW a \in Used(B), a # b, a # p PROVE NodeOK(B2, w2, a)
  <2>1. B2[a] = B[a] /\ a \in Link /\ a # new
    BY <1>12, <1>15, <1>20
  <2>2. /\ w2.h[a] = w.h[a] /\ w2.lo[a] = w.lo[a] /\ w2.hi[a] = w.hi[a]
        /\ w2.h[ROOT] = w.h[ROOT]
    <3>1. a \in Used(B) \ {b} /\ ROOT \in Used(B)
      BY <1>20 DEF Used
    <3> QED  BY <1>14, <3>1
  <2> QED  BY <1>15, <1>16, <1>20, <2>1, <2>2 DEF NodeOK
<1>21. Apart(B2, w2)
  <2> DEFINE o(x) == IF x = new THEN b ELSE x
  <2>1. ASSUME NEW x \in Used(B2)
        PROVE  /\ o(x) \in Used(B) /\ w2.h[x] = w.h[o(x)]
               /\ w2.lo[x] \in Int /\ w2.hi[x] \in Int
               /\ w.lo[o(x)] <= w2.lo[x] /\ w2.hi[x] <= w.hi[o(x)]
    BY <1>3, <1>4, <1>6, <1>13, <1>14, <1>15 DEF l, u
  <2>2. ASSUME NEW x \in Used(B2), NEW y \in Used(B2), x # y, w2.h[x] = w2.h[y]
        PROVE  w2.hi[x] <= w2.lo[y] \/ w2.hi[y] <= w2.lo[x]
    <3>1. CASE o(x) = o(y)
      BY <1>6, <1>14, <2>2, <3>1
    <3>2. CASE o(x) # o(y)
      <4>1. w.hi[o(x)] <= w.lo[o(y)] \/ w.hi[o(y)] <= w.lo[o(x)]
        BY <2>1, <2>2, <3>2 DEF Tree, Apart
      <4> QED  BY <1>15, <2>1, <4>1
    <3> QED  BY <3>1, <3>2
  <2>3. ASSUME NEW x \in Used(B2), NEW y \in Used(B2), w2.h[x] < w2.h[y]
        PROVE  /\ Clear(w2, x, w2.lo[y]) /\ Clear(w2, x, w2.hi[y])
               /\ \A j \in 0 .. B2[y].nkeys - 1 : Clear(w2, x, KeyAt(B2[y], j))
    <3>1. /\ o(x) # o(y) /\ w.h[o(x)] < w.h[o(y)]
      BY <1>15, <2>1, <2>3
    <3>2. /\ Clear(w, o(x), w.lo[o(y)]) /\ Clear(w, o(x), w.hi[o(y)])
          /\ \A j \in 0 .. B[o(y)].nkeys - 1 : Clear(w, o(x), KeyAt(B[o(y)], j))
      BY <2>1, <3>1 DEF Tree, Apart
    <3>3. ASSUME NEW v \in Int, Clear(w, o(x), v) PROVE Clear(w2, x, v)
      BY <1>15, <2>1, <3>3 DEF Clear
    <3>4. y \in {b, new, p} => Clear(w2, x, m)
      <4>1. CASE o(x) = b
        BY <1>4, <1>6, <1>14, <2>1, <4>1, SMTT(30) DEF Clear
      <4>2. CASE o(x) # b /\ y \in {b, new, p}
        <5>1. w.h[o(x)] <= w.h[b]
          BY <1>1, <1>3, <1>4, <1>7, <1>15, <2>1, <3>1, <4>2, SMTT(30)
        <5>2. Clear(w, o(x), m)
          BY <1>3, <1>4, <1>5, <2>1, <4>2, <5>1, ValuesApart DEF m, f
        <5> QED  BY <1>6, <3>3, <5>2
      <4> QED  BY <4>1, <4>2
    <3>5. CASE y \notin {b, new, p}
      <4>1. B2[y] = B[y] /\ w2.lo[y] = w.lo[y] /\ w2.hi[y] = w.hi[y] /\ o(y) = y
        BY <1>12, <1>13, <1>14, <1>15, <3>5
      <4>2. \A j \in 0 .. B[y].nkeys - 1 : KeyAt(B[y], j) \in Int
        BY <2>1, <4>1, UsedBlock
      <4> QED  BY <1>15, <2>1, <3>2, <3>3, <4>1, <4>2
    <3>6. CASE y = p
      <4>1. /\ B2[y] = n3 /\ w2.lo[y] = w.lo[p] /\ w2.hi[y] = w.hi[p]
            /\ o(y) = p
        BY <1>7, <1>12, <1>14, <3>6
      <4>2. \A j \in 0 .. B[p].nkeys - 1 : KeyAt(B[p], j) \in Int
        BY <1>1, BlockKeys
      <4>3. \A j \in 0 .. B[p].nkeys :
              /\ j < i => KeyAt(n3, j) = KeyAt(B[p], j)
              /\ j = i => KeyAt(n3, j) = m
              /\ j > i => KeyAt(n3, j) = KeyAt(B[p], j - 1)
        BY <1>6, <1>11 DEF KeyAt
      <4>4. ASSUME NEW j \in 0 .. B2[y].nkeys - 1
            PROVE  Clear(w2, x, KeyAt(B2[y], j))
        <5>1. j \in 0 .. B[p].nkeys
          BY <1>1, <1>11, <4>1
        <5>2. CASE j < i
          BY <1>1, <3>2, <3>3, <4>1, <4>2, <4>3, <5>1, <5>2, SMTT(30)
        <5>3. CASE j = i
          BY <3>4, <3>6, <4>1, <4>3, <5>1, <5>3
        <5>4. CASE j > i
          <6>1. /\ j - 1 \in 0 .. B[p].nkeys - 1
                /\ KeyAt(n3, j) = KeyAt(B[p], j - 1)
            BY <1>1, <4>3, <5>1, <5>4
          <6> QED  BY <3>2, <3>3, <4>1, <4>2, <6>1
        <5> QED  BY <1>1, <5>1, <5>2, <5>3, <5>4
      <4> QED  BY <1>1, <3>2, <3>3, <4>1, <4>4
    <3>7. CASE y = b
      <4>1. /\ B2[y] = n2 /\ w2.lo[y] = l /\ w2.hi[y] = m /\ o(y) = b
        BY <1>7, <1>12, <1>14, <3>7
      <4>2. \A j \in 0 .. Sp - 1 : KeyAt(n2, j) = KeyAt(f, j)
        BY <1>9 DEF KeyAt
      <4>3. ASSUME NEW j \in 0 .. B2[y].nkeys - 1
            PROVE  Clear(w2, x, KeyAt(B2[y], j))
        <5>1. j \in 0 .. Sp - 1 /\ j \in 0 .. f.nkeys - 1
          BY <1>4, <1>5, <1>9, <4>1
        <5> QED  BY <1>4, <3>2, <3>3, <4>1, <4>2, <5>1 DEF f
      <4> QED  BY <1>4, <3>2, <3>3, <3>4, <3>7, <4>1, <4>3 DEF l
    <3>8. CASE y = new
      <4>1. /\ B2[y] = n1 /\ w2.lo[y] = m /\ w2.hi[y] = u /\ o(y) = b
        BY <1>7, <1>12, <1>14, <3>8
      <4>2. \A j \in 0 .. Sp2 - 1 : KeyAt(n1, j) = KeyAt(f, Sp + 1 + j)
        BY <1>8 DEF KeyAt
      <4>3. ASSUME NEW j \in 0 .. B2[y].nkeys - 1
            PROVE  Clear(w2, x, KeyAt(B2[y], j))
        <5>1. j \in 0 .. Sp2 - 1 /\ Sp + 1 + j \in 0 .. f.nkeys - 1
          BY <1>4, <1>5, <1>8, <4>1
        <5> QED  BY <1>4, <3>2, <3>3, <4>1, <4>2, <5>1 DEF f
      <4> QED  BY <1>4, <3>2, <3>3, <3>4, <3>8, <4>1, <4>3 DEF u
    <3> QED  BY <3>5, <3>6, <3>7, <3>8
  <2> QED  BY <2>2, <2>3 DEF Apart
<1>22. Tree(B2, w2)
  <2>1. w2.lo[ROOT] = Low /\ w2.hi[ROOT] = High
    <3>1. ROOT \in Used(B) \ {b}
      BY <1>3 DEF Used
    <3> QED  BY <1>14, <3>1 DEF Tree
  <2> QED  BY <1>13, <1>14, <1>17, <1>18, <1>19, <1>20, <1>21, <2>1 DEF Tree
<1>23. \A a \in Used(B) \ {b, p} : B2[a] = B[a]
  BY <1>12, <1>15
<1> QED
  BY <1>8, <1>9, <1>11, <1>12, <1>13, <1>14, <1>22, <1>23 DEF B2, w2, m, f

(* Block n holds the entries of x, the entry e and the entries of y.       *)
Joined(n, x, e, y) ==
  /\ n.nkeys = x.nkeys + y.nkeys + 1
  /\ \A i \in 0 .. n.nkeys - 1 :
       /\ i < x.nkeys => n.ent[i] = x.ent[i]
       /\ i = x.nkeys => n.ent[i] = e
       /\ i > x.nkeys => n.ent[i] = y.ent[i - x.nkeys - 1]

(* ... and their links.                                                    *)
Linked(n, x, y) ==
  \A i \in 0 .. n.nkeys :
    /\ i <= x.nkeys => n.lnk[i] = x.lnk[i]
    /\ i > x.nkeys => n.lnk[i] = y.lnk[i - x.nkeys - 1]

(* Two blocks in order and the key between them are in order.              *)
LEMMA JoinedOrder ==
  ASSUME NEW x \in Block, NEW y \in Block, NEW n, NEW e \in Entry,
         Joined(n, x, e, y), NEW l \in Int, NEW m \in Int, NEW u \in Int,
         m = e.key,
         Sorted(x), Within(x, l, m), Sorted(y), Within(y, m, u)
  PROVE  /\ Sorted(n) /\ Within(n, l, u)
         /\ \A i \in 0 .. n.nkeys :
              /\ i <= x.nkeys => /\ From(n, l, i) = From(x, l, i)
                                 /\ To(n, u, i) = To(x, m, i)
              /\ i > x.nkeys => /\ From(n, l, i) = From(y, m, i - x.nkeys - 1)
                                /\ To(n, u, i) = To(y, u, i - x.nkeys - 1)
         /\ \A i \in 0 .. n.nkeys - 1 :
              \/ KeyAt(n, i) = m
              \/ \E j \in 0 .. x.nkeys - 1 : KeyAt(n, i) = KeyAt(x, j)
              \/ \E j \in 0 .. y.nkeys - 1 : KeyAt(n, i) = KeyAt(y, j)
<1>1. /\ x.nkeys \in Nat /\ \A i \in 0 .. x.nkeys - 1 : KeyAt(x, i) \in Int
      /\ y.nkeys \in Nat /\ \A i \in 0 .. y.nkeys - 1 : KeyAt(y, i) \in Int
      /\ n.nkeys = x.nkeys + y.nkeys + 1
  BY BlockKeys DEF Joined
<1>2. \A i \in 0 .. n.nkeys - 1 :
       /\ i < x.nkeys => i \in 0 .. x.nkeys - 1 /\ KeyAt(n, i) = KeyAt(x, i)
       /\ i = x.nkeys => KeyAt(n, i) = m
       /\ i > x.nkeys => /\ i - x.nkeys - 1 \in 0 .. y.nkeys - 1
                         /\ KeyAt(n, i) = KeyAt(y, i - x.nkeys - 1)
  BY <1>1 DEF Joined, KeyAt
<1>3. ASSUME NEW i \in 0 .. n.nkeys - 1, NEW j \in 0 .. n.nkeys - 1, i < j
      PROVE  KeyAt(n, i) < KeyAt(n, j)
  <2>1. CASE j < x.nkeys
    BY <1>1, <1>2, <1>3, <2>1 DEF Sorted
  <2>2. CASE j = x.nkeys
    BY <1>1, <1>2, <1>3, <2>2 DEF Within
  <2>3. CASE j > x.nkeys /\ i < x.nkeys
    BY <1>1, <1>2, <1>3, <2>3 DEF Within
  <2>4. CASE i = x.nkeys
    BY <1>1, <1>2, <1>3, <2>4 DEF Within
  <2>5. CASE i > x.nkeys
    <3>1. /\ i - x.nkeys - 1 \in 0 .. y.nkeys - 1
          /\ j - x.nkeys - 1 \in 0 .. y.nkeys - 1
          /\ i - x.nkeys - 1 < j - x.nkeys - 1
      BY <1>1, <1>3, <2>5
    <3>2. KeyAt(y, i - x.nkeys - 1) < KeyAt(y, j - x.nkeys - 1)
      BY <3>1 DEF Sorted
    <3> QED  BY <1>1, <1>2, <1>3, <2>5, <3>2
  <2> QED  BY <1>1, <2>1, <2>2, <2>3, <2>4, <2>5
<1>4. Sorted(n)
  BY <1>3 DEF Sorted
<1>5. Within(n, l, u)
  BY <1>1, <1>2 DEF Within
<1>6. ASSUME NEW i \in 0 .. n.nkeys
      PROVE  /\ i <= x.nkeys => /\ From(n, l, i) = From(x, l, i)
                                /\ To(n, u, i) = To(x, m, i)
             /\ i > x.nkeys => /\ From(n, l, i) = From(y, m, i - x.nkeys - 1)
                               /\ To(n, u, i) = To(y, u, i - x.nkeys - 1)
  <2>1. CASE i <= x.nkeys
    <3>1. From(n, l, i) = From(x, l, i)
      BY <1>1, <1>2, <2>1 DEF From
    <3>2. To(n, u, i) = To(x, m, i)
      BY <1>1, <1>2, <2>1 DEF To
    <3> QED  BY <1>1, <2>1, <3>1, <3>2
  <2>2. CASE i > x.nkeys
    <3>1. PICK j \in 0 .. y.nkeys : j = i - x.nkeys - 1
      BY <1>1, <2>2
    <3>2. From(n, l, i) = From(y, m, j)
      BY <1>1, <1>2, <2>2, <3>1 DEF From
    <3>3. To(n, u, i) = To(y, u, j)
      BY <1>1, <1>2, <2>2, <3>1 DEF To
    <3> QED  BY <1>1, <2>2, <3>1, <3>2, <3>3
  <2> QED  BY <1>1, <2>1, <2>2
<1>7. ASSUME NEW i \in 0 .. n.nkeys - 1
      PROVE  \/ KeyAt(n, i) = m
             \/ \E j \in 0 .. x.nkeys - 1 : KeyAt(n, i) = KeyAt(x, j)
             \/ \E j \in 0 .. y.nkeys - 1 : KeyAt(n, i) = KeyAt(y, j)
  BY <1>1, <1>2
<1> QED  BY <1>4, <1>5, <1>6, <1>7

(* A block in order from which a key is taken is in order.                 *)
LEMMA RemovedOrder ==
  ASSUME NEW x \in Block, NEW s \in 0 .. x.nkeys - 1, NEW m, m = RemKey(x, s),
         Sorted(x), NEW l \in Int, NEW u \in Int, Within(x, l, u)
  PROVE  /\ Sorted(m) /\ Within(m, l, u)
         /\ \A i \in 0 .. x.nkeys - 1 :
              /\ i < s =>
                   From(m, l, i) = From(x, l, i) /\ To(m, u, i) = To(x, u, i)
              /\ i = s => /\ From(m, l, i) = From(x, l, i)
                          /\ To(m, u, i) = To(x, u, i + 1)
              /\ i > s => /\ From(m, l, i) = From(x, l, i + 1)
                          /\ To(m, u, i) = To(x, u, i + 1)
         /\ \A i \in 0 .. m.nkeys - 1 :
              \E j \in 0 .. x.nkeys - 1 : j # s /\ KeyAt(m, i) = KeyAt(x, j)
<1>1. /\ x.nkeys \in Nat /\ \A i \in 0 .. x.nkeys - 1 : KeyAt(x, i) \in Int
  BY BlockKeys
<1>2. /\ m.nkeys = x.nkeys - 1
      /\ \A i \in 0 .. x.nkeys - 2 :
           /\ i < s => m.ent[i] = x.ent[i]
           /\ i >= s => m.ent[i] = x.ent[i + 1]
  BY RemoveView
<1>3. \A i \in 0 .. x.nkeys - 2 :
        /\ i < s => KeyAt(m, i) = KeyAt(x, i)
        /\ i >= s => i + 1 \in 0 .. x.nkeys - 1 /\ KeyAt(m, i) = KeyAt(x, i + 1)
  BY <1>1, <1>2 DEF KeyAt
<1>4. Sorted(m) /\ Within(m, l, u)
  BY <1>1, <1>2, <1>3 DEF Sorted, Within
<1>5. ASSUME NEW i \in 0 .. x.nkeys - 1
      PROVE  /\ i < s =>
                  From(m, l, i) = From(x, l, i) /\ To(m, u, i) = To(x, u, i)
             /\ i = s => /\ From(m, l, i) = From(x, l, i)
                         /\ To(m, u, i) = To(x, u, i + 1)
             /\ i > s => /\ From(m, l, i) = From(x, l, i + 1)
                         /\ To(m, u, i) = To(x, u, i + 1)
  BY <1>1, <1>2, <1>3 DEF From, To
<1>6. ASSUME NEW i \in 0 .. m.nkeys - 1
      PROVE  \E j \in 0 .. x.nkeys - 1 : j # s /\ KeyAt(m, i) = KeyAt(x, j)
  <2>1. CASE i < s
    BY <1>1, <1>2, <1>3, <2>1
  <2>2. CASE i >= s
    <3>1. /\ i + 1 \in 0 .. x.nkeys - 1 /\ i + 1 # s
          /\ KeyAt(m, i) = KeyAt(x, i + 1)
      BY <1>1, <1>2, <1>3, <2>2
    <3> QED  BY <3>1
  <2> QED  BY <1>1, <1>2, <2>1, <2>2
<1> QED  BY <1>4, <1>5, <1>6

(* The witness after the blocks l and r became one.                        *)
MergeWitness(w, l, r) ==
  [h |-> w.h, lo |-> w.lo, hi |-> [w.hi EXCEPT ![l] = w.hi[r]]]

(* Two sisters become one, with the key between them: a join of leaves, a  *)
(* demotion.                                                               *)
LEMMA MergeTree ==
  ASSUME NEW B, Sound(B), NEW w, Tree(B, w),
         NEW p \in Used(B), w.h[p] # 0, NEW s \in 0 .. B[p].nkeys - 1,
         NEW l, l = B[p].lnk[s], NEW r, r = B[p].lnk[s + 1],
         NEW n \in Block, n.type = "inuse",
         Joined(n, B[l], B[p].ent[s], B[r]),
         w.h[l] = 0 => n.lnk = NoLinks,
         w.h[l] # 0 => Linked(n, B[l], B[r]),
         NEW B2, B2 \in [Link -> Block], B2[p] = RemKey(B[p], s), B2[l] = n,
         B2[r].type = "free", \A a \in Link \ {p, l, r} : B2[a] = B[a]
  PROVE  /\ Tree(B2, MergeWitness(w, l, r)) /\ Used(B2) = Used(B) \ {r}
         /\ p # l /\ p # r /\ l # r /\ r # ROOT
         /\ l \in Used(B) /\ r \in Used(B)
<1> DEFINE e == B[p].ent[s]
           k == KeyAt(B[p], s)
           w2 == MergeWitness(w, l, r)
           x == B[p]  a0 == w.lo[p]  z0 == w.hi[p]
<1>1. /\ NodeOK(B, w, p) /\ w.h[p] \in Nat /\ a0 \in Int /\ z0 \in Int
      /\ x \in Block /\ x.nkeys \in Nat /\ p \in Link /\ p \in TreeBlk
      /\ Sorted(x) /\ Within(x, a0, z0)
      /\ s \in 0 .. x.nkeys /\ s + 1 \in 0 .. x.nkeys
  BY UsedWitness, UsedBlock, SMTT(30) DEF NodeOK
<1>2. /\ Kid(B, w, l, w.h[p] - 1, From(x, a0, s), To(x, z0, s))
      /\ Kid(B, w, r, w.h[p] - 1, From(x, a0, s + 1), To(x, z0, s + 1))
  BY <1>1 DEF NodeOK
<1>3. e \in Entry /\ k \in Int /\ k = e.key
      /\ To(x, z0, s) = k /\ From(x, a0, s + 1) = k
  <2> HIDE DEF x, a0, z0
  <2>1. e \in Entry /\ k \in Int /\ k = e.key
    <3>1. x = B[p]
      BY DEF x
    <3>2. x.ent[s] \in Entry /\ KeyAt(x, s) \in Int
      BY <1>1, <3>1, BlockKeys
    <3> QED  BY <3>1, <3>2 DEF KeyAt
  <2>2. s # x.nkeys /\ s + 1 # 0 /\ s + 1 - 1 = s /\ k = KeyAt(x, s)
    BY <1>1 DEF x
  <2> HIDE DEF k
  <2>3. To(x, z0, s) = k
    BY <2>2 DEF To
  <2>4. From(x, a0, s + 1) = k
    BY <2>2 DEF From
  <2> QED  BY <2>1, <2>3, <2>4
<1>4. /\ l \in Used(B) \ {ROOT} /\ r \in Used(B) \ {ROOT}
      /\ w.h[l] = w.h[p] - 1 /\ w.h[r] = w.h[p] - 1
      /\ w.lo[l] = From(x, a0, s) /\ w.hi[l] = k
      /\ w.lo[r] = k /\ w.hi[r] = To(x, z0, s + 1)
  BY <1>2, <1>3 DEF Kid
<1>5. \A a \in Used(B) :
         /\ a \in Link /\ a \in TreeBlk /\ NodeOK(B, w, a)
         /\ w.h[a] \in Nat /\ w.lo[a] \in Int /\ w.hi[a] \in Int
         /\ w.lo[a] < w.hi[a] /\ a \in Int
         /\ B[a] \in Block /\ B[a].nkeys \in Nat
         /\ \A i \in 0 .. B[a].nkeys - 1 : KeyAt(B[a], i) \in Int
         /\ (a # ROOT => B[a].type = "inuse" /\ a \in Child)
         /\ Sorted(B[a]) /\ Within(B[a], w.lo[a], w.hi[a])
  BY UsedBlock, UsedWitness, SMTT(30) DEF NodeOK, Within
<1>6. p # l /\ p # r /\ l # r
  <2>1. l # r
    BY <1>1, <1>4, <1>5
  <2> QED  BY <1>1, <1>4, <2>1, SMTT(30)
<1>7. Used(B2) = Used(B) \ {r}
  <2>1. RemKey(x, s).type = x.type
    BY <1>1, RemKeyBlock
  <2>2. ASSUME NEW a \in Child, a # l, a # r
        PROVE  B2[a].type = B[a].type
    BY <2>1, <2>2, BlockNumbers
  <2>3. B2[l].type = "inuse" /\ B2[r].type = "free"
    OBVIOUS
  <2>4. l \in Child /\ r \in Child /\ B[l].type = "inuse" /\ r # ROOT
    <3>1. l \in Used(B) /\ l # ROOT /\ r \in Used(B) /\ r # ROOT
      BY <1>4
    <3> HIDE DEF x
    <3> QED  BY <1>5, <3>1
  <2> QED  BY <2>2, <2>3, <2>4 DEF Used
<1>8. /\ w2 \in Witness /\ w2.h = w.h /\ w2.lo = w.lo /\ w2.hi[l] = w.hi[r]
      /\ \A a \in TreeBlk \ {l} : w2.hi[a] = w.hi[a]
  BY <1>4, <1>5, SMTT(30) DEF MergeWitness, Witness, Tree
<1> HIDE DEF w2
<1>9. /\ Sorted(n) /\ Within(n, w.lo[l], w.hi[r])
      /\ \A i \in 0 .. n.nkeys :
           /\ i <= B[l].nkeys => /\ From(n, w.lo[l], i) = From(B[l], w.lo[l], i)
                                 /\ To(n, w.hi[r], i) = To(B[l], k, i)
           /\ i > B[l].nkeys =>
                /\ From(n, w.lo[l], i) = From(B[r], k, i - B[l].nkeys - 1)
                /\ To(n, w.hi[r], i) = To(B[r], w.hi[r], i - B[l].nkeys - 1)
      /\ \A i \in 0 .. n.nkeys - 1 :
           \/ KeyAt(n, i) = k
           \/ \E j \in 0 .. B[l].nkeys - 1 : KeyAt(n, i) = KeyAt(B[l], j)
           \/ \E j \in 0 .. B[r].nkeys - 1 : KeyAt(n, i) = KeyAt(B[r], j)
  <2>1. /\ B[l] \in Block /\ B[r] \in Block /\ Joined(n, B[l], e, B[r])
        /\ w.lo[l] \in Int /\ w.hi[r] \in Int
        /\ Sorted(B[l]) /\ Sorted(B[r])
        /\ Within(B[l], w.lo[l], k) /\ Within(B[r], k, w.hi[r])
    <3>1. l \in Used(B) /\ r \in Used(B)
      BY <1>4
    <3>2. Joined(n, B[l], e, B[r])
      OBVIOUS
    <3> HIDE DEF x, k, e
    <3> QED  BY <1>4, <1>5, <3>1, <3>2
  <2>2. e \in Entry /\ k \in Int /\ k = e.key /\ n \in Block
    BY <1>3
  <2> HIDE DEF e, k
  <2>3. PICK bl, br, ll, ur : /\ bl = B[l] /\ br = B[r] /\ ll = w.lo[l]
                              /\ ur = w.hi[r]
    OBVIOUS
  <2>4. /\ bl \in Block /\ br \in Block /\ Joined(n, bl, e, br)
        /\ ll \in Int /\ ur \in Int /\ Sorted(bl) /\ Sorted(br)
        /\ Within(bl, ll, k) /\ Within(br, k, ur)
    BY <2>1, <2>3
  <2>5. /\ Sorted(n) /\ Within(n, ll, ur)
        /\ \A i \in 0 .. n.nkeys :
             /\ i <= bl.nkeys => /\ From(n, ll, i) = From(bl, ll, i)
                                 /\ To(n, ur, i) = To(bl, k, i)
             /\ i > bl.nkeys =>
                  /\ From(n, ll, i) = From(br, k, i - bl.nkeys - 1)
                  /\ To(n, ur, i) = To(br, ur, i - bl.nkeys - 1)
        /\ \A i \in 0 .. n.nkeys - 1 :
             \/ KeyAt(n, i) = k
             \/ \E j \in 0 .. bl.nkeys - 1 : KeyAt(n, i) = KeyAt(bl, j)
             \/ \E j \in 0 .. br.nkeys - 1 : KeyAt(n, i) = KeyAt(br, j)
    BY <2>2, <2>4, JoinedOrder
  <2> QED  BY <2>3, <2>5, ZenonT(40)
<1> HIDE DEF k
<1>10. ASSUME NEW a \in Used(B), w.h[a] # 0, NEW j \in 0 .. B[a].nkeys,
              a # p \/ j \notin {s, s + 1}, NEW m, NEW y, NEW z,
              Kid(B, w, B[a].lnk[j], m, y, z)
       PROVE  Kid(B2, w2, B[a].lnk[j], m, y, z)
  <2>1. B[a].lnk[j] # l
    BY <1>1, <1>10, OneParent, SMTT(30)
  <2>2. B[a].lnk[j] # r
    <3>1. PICK t \in 0 .. B[p].nkeys : t = s + 1 /\ r = B[p].lnk[t]
      BY <1>1
    <3> QED  BY <1>10, <3>1, OneParent, SMTT(30)
  <2>3. B[a].lnk[j] \in Used(B)
    BY <1>10 DEF Kid
  <2> QED  BY <1>5, <1>7, <1>8, <1>10, <2>1, <2>2, <2>3 DEF Kid
<1>11. /\ w2.h[ROOT] = w.h[ROOT] /\ w2.lo[ROOT] = w.lo[ROOT]
       /\ w2.hi[ROOT] = w.hi[ROOT]
  BY <1>4, <1>8 DEF TreeBlk
<1>12. NodeOK(B2, w2, l)
  <2>1. B[l].nkeys \in Nat /\ B[r].nkeys \in Nat
        /\ n.nkeys = B[l].nkeys + B[r].nkeys + 1
    BY <1>4, <1>5 DEF Joined
  <2>2. ASSUME w.h[l] # 0, NEW i \in 0 .. n.nkeys
        PROVE  Kid(B2, w2, n.lnk[i], w.h[l] - 1,
                   From(n, w.lo[l], i), To(n, w.hi[r], i))
    <3>0. /\ i <= B[l].nkeys => n.lnk[i] = B[l].lnk[i]
          /\ i > B[l].nkeys => n.lnk[i] = B[r].lnk[i - B[l].nkeys - 1]
      <4>1. Linked(n, B[l], B[r])
        BY <2>2
      <4> HIDE DEF x
      <4> QED  BY <2>2, <4>1 DEF Linked
    <3>1. CASE i <= B[l].nkeys
      <4>0. i \in 0 .. B[l].nkeys
        BY <2>1, <2>2, <3>1, SMTT(30)
      <4>1. i \in 0 .. B[l].nkeys /\ n.lnk[i] = B[l].lnk[i]
        BY <3>0, <3>1, <4>0
      <4>2. Kid(B, w, B[l].lnk[i], w.h[l] - 1,
                From(B[l], w.lo[l], i), To(B[l], w.hi[l], i))
        BY <1>4, <1>5, <2>2, <4>1 DEF NodeOK
      <4>3. Kid(B2, w2, B[l].lnk[i], w.h[l] - 1,
                From(B[l], w.lo[l], i), To(B[l], w.hi[l], i))
        BY <1>4, <1>6, <1>10, <2>2, <4>1, <4>2
      <4>4. From(n, w.lo[l], i) = From(B[l], w.lo[l], i)
            /\ To(n, w.hi[r], i) = To(B[l], w.hi[l], i)
        BY <1>4, <1>9, <2>2, <3>1, ZenonT(40)
      <4> QED  BY <4>1, <4>3, <4>4
    <3>2. CASE i > B[l].nkeys
      <4>1. PICK j \in 0 .. B[r].nkeys : j = i - B[l].nkeys - 1
        BY <2>1, <3>2, SMTT(60)
      <4>2. n.lnk[i] = B[r].lnk[j]
        BY <3>0, <3>2, <4>1
      <4>3. Kid(B, w, B[r].lnk[j], w.h[r] - 1,
                From(B[r], w.lo[r], j), To(B[r], w.hi[r], j))
        BY <1>4, <1>5, <2>2, <4>1 DEF NodeOK
      <4>4. From(n, w.lo[l], i) = From(B[r], w.lo[r], j)
            /\ To(n, w.hi[r], i) = To(B[r], w.hi[r], j)
        BY <1>4, <1>9, <3>2, <4>1, ZenonT(40)
      <4>5. /\ r \in Used(B) /\ r # p /\ w.h[r] # 0
            /\ w.h[r] = w.h[l] /\ w.h[r] - 1 = w.h[l] - 1
        BY <1>4, <1>6, <2>2
      <4>6. Kid(B2, w2, B[r].lnk[j], w.h[r] - 1,
                From(B[r], w.lo[r], j), To(B[r], w.hi[r], j))
        BY <1>10, <4>1, <4>3, <4>5
      <4> QED  BY <4>2, <4>4, <4>5, <4>6
    <3> QED  BY <2>1, <3>1, <3>2, SMTT(60)
  <2>3. w.h[l] < w.h[ROOT] /\ Low <= w.lo[l] /\ w.hi[r] <= High
    BY <1>4, <1>5 DEF NodeOK
  <2> QED  BY <1>8, <1>9, <1>11, <2>2, <2>3 DEF NodeOK
<1>13. NodeOK(B2, w2, p)
  <2> DEFINE m == RemKey(x, s)
  <2>1. /\ m \in Block /\ m.nkeys = x.nkeys - 1
        /\ \A i \in 0 .. x.nkeys - 1 :
             /\ i <= s => m.lnk[i] = x.lnk[i]
             /\ i > s => m.lnk[i] = x.lnk[i + 1]
    <3> HIDE DEF x
    <3> QED  BY <1>1, RemoveView
  <2>2. /\ Sorted(m) /\ Within(m, a0, z0)
        /\ \A i \in 0 .. x.nkeys - 1 :
              /\ i < s =>
                   /\ From(m, a0, i) = From(x, a0, i)
                   /\ To(m, z0, i) = To(x, z0, i)
              /\ i = s => /\ From(m, a0, i) = From(x, a0, i)
                          /\ To(m, z0, i) = To(x, z0, i + 1)
              /\ i > s => /\ From(m, a0, i) = From(x, a0, i + 1)
                          /\ To(m, z0, i) = To(x, z0, i + 1)
    <3>1. m = RemKey(x, s) /\ s \in 0 .. x.nkeys - 1
      OBVIOUS
    <3> HIDE DEF x, m, a0, z0
    <3> QED  BY <1>1, <3>1, RemovedOrder
  <2> HIDE DEF m
  <2>3. \A i \in 0 .. x.nkeys :
          Kid(B, w, x.lnk[i], w.h[p] - 1, From(x, a0, i), To(x, z0, i))
    BY <1>1 DEF NodeOK
  <2>4. ASSUME NEW i \in 0 .. m.nkeys
        PROVE  Kid(B2, w2, m.lnk[i], w.h[p] - 1, From(m, a0, i), To(m, z0, i))
    <3>0. i \in 0 .. x.nkeys - 1
      BY <1>1, <2>1
    <3>1. CASE i < s
      <4>1. i \in 0 .. x.nkeys /\ i \notin {s, s + 1} /\ m.lnk[i] = x.lnk[i]
        BY <1>1, <2>1, <3>0, <3>1
      <4> QED  BY <1>10, <2>2, <2>3, <3>0, <3>1, <4>1
    <3>2. CASE i = s
      <4>1. m.lnk[i] = l
        BY <1>1, <2>1, <3>0, <3>2
      <4>2. From(m, a0, i) = w.lo[l] /\ To(m, z0, i) = w.hi[r]
        BY <1>4, <2>2, <3>0, <3>2
      <4> QED  BY <1>4, <1>6, <1>7, <1>8, <4>1, <4>2 DEF Kid
    <3>3. CASE i > s
      <4>1. PICK j \in 0 .. x.nkeys : j = i + 1 /\ j \notin {s, s + 1}
        BY <1>1, <3>0, <3>3
      <4>2. m.lnk[i] = x.lnk[j]
        BY <1>1, <2>1, <3>0, <3>3, <4>1
      <4>3. From(m, a0, i) = From(x, a0, j) /\ To(m, z0, i) = To(x, z0, j)
        BY <2>2, <3>0, <3>3, <4>1
      <4> QED  BY <1>10, <2>3, <4>1, <4>2, <4>3
    <3> QED  BY <1>1, <3>0, <3>1, <3>2, <3>3
  <2>5. /\ p # ROOT => w.h[p] < w.h[ROOT]
        /\ Low <= a0 /\ z0 <= High
    BY <1>1 DEF NodeOK
  <2>6. B2[p] = m /\ w2.lo[p] = a0 /\ w2.hi[p] = z0 /\ w2.h[p] = w.h[p]
    BY <1>1, <1>6, <1>8 DEF m
  <2> QED  BY <1>11, <2>2, <2>4, <2>5, <2>6 DEF NodeOK
<1>14. ASSUME NEW a \in Used(B), a \notin {p, l, r} PROVE NodeOK(B2, w2, a)
  <2>1. /\ B2[a] = B[a] /\ w2.h[a] = w.h[a] /\ w2.lo[a] = w.lo[a]
        /\ w2.hi[a] = w.hi[a]
    BY <1>5, <1>8, <1>14
  <2> QED  BY <1>5, <1>10, <1>11, <1>14, <2>1 DEF NodeOK
<1>15. Apart(B2, w2)
  <2>1. ASSUME NEW c \in Used(B), c # p, w.h[c] >= w.h[p]
        PROVE  /\ w.lo[c] # k /\ w.hi[c] # k
               /\ \A i \in 0 .. B[c].nkeys - 1 : KeyAt(B[c], i) # k
    <3>1. w.lo[p] < k /\ k < w.hi[p]
      BY <1>1 DEF Within, k
    <3>2. /\ Clear(w, p, w.lo[c]) /\ Clear(w, p, w.hi[c])
          /\ \A i \in 0 .. B[c].nkeys - 1 : Clear(w, p, KeyAt(B[c], i))
      BY <1>1, <1>5, <2>1, ValuesApart
    <3> QED  BY <1>1, <1>3, <1>5, <2>1, <3>1, <3>2, SMTT(30) DEF Clear
  <2>2. ASSUME NEW c \in Used(B), c # l, NEW v \in Int, v # k,
               Clear(w, l, v), Clear(w, r, v)
        PROVE  Clear(w2, l, v)
    BY <1>3, <1>4, <1>5, <1>8, <2>2, SMTT(60) DEF Clear
  <2>3. ASSUME NEW c \in Used(B), NEW d \in Used(B), c \notin {l, r}, d # r,
               c # d, w.h[c] = w.h[d]
        PROVE  w2.hi[c] <= w2.lo[d] \/ w2.hi[d] <= w2.lo[c]
    <3>1. CASE d # l
      BY <1>5, <1>8, <2>3, <3>1 DEF Tree, Apart
    <3>2. CASE d = l
      <4>1. w.hi[c] <= w.lo[l] \/ w.hi[l] <= w.lo[c]
        BY <2>3, <3>2 DEF Tree, Apart
      <4>2. w.hi[c] <= w.lo[r] \/ w.hi[r] <= w.lo[c]
        BY <1>4, <2>3, <3>2 DEF Tree, Apart
      <4>3. w2.hi[c] = w.hi[c] /\ w2.lo[c] = w.lo[c] /\ w2.hi[d] = w.hi[r]
            /\ w2.lo[d] = w.lo[l]
        BY <1>5, <1>8, <2>3, <3>2
      <4>4. /\ w.lo[c] \in Int /\ w.hi[c] \in Int /\ w.lo[c] < w.hi[c]
            /\ w.lo[l] \in Int /\ w.hi[r] \in Int
        BY <1>4, <1>5
      <4> QED  BY <1>3, <1>4, <4>1, <4>2, <4>3, <4>4, SMTT(30)
    <3> QED  BY <3>1, <3>2
  <2>4. ASSUME NEW c \in Used(B2), NEW d \in Used(B2), c # d, w2.h[c] = w2.h[d]
        PROVE  w2.hi[c] <= w2.lo[d] \/ w2.hi[d] <= w2.lo[c]
    <3>1. CASE c # l
      BY <1>7, <1>8, <2>3, <2>4, <3>1
    <3>2. CASE d # l
      BY <1>7, <1>8, <2>3, <2>4, <3>2
    <3> QED  BY <2>4, <3>1, <3>2
  <2>5. ASSUME NEW c \in Used(B), c # r, NEW d \in Used(B), d # r,
               w.h[c] < w.h[d],
               NEW v \in Int, Clear(w, c, v), c = l => Clear(w, r, v) /\ v # k
        PROVE  Clear(w2, c, v)
    <3>1. CASE c = l
      BY <2>2, <2>5, <3>1, <1>4, <1>6
    <3>2. CASE c # l
      BY <1>5, <1>8, <2>5, <3>2 DEF Clear
    <3> QED  BY <3>1, <3>2
  <2>6. ASSUME NEW c \in Used(B2), NEW d \in Used(B2), w2.h[c] < w2.h[d]
        PROVE  /\ Clear(w2, c, w2.lo[d]) /\ Clear(w2, c, w2.hi[d])
               /\ \A i \in 0 .. B2[d].nkeys - 1 : Clear(w2, c, KeyAt(B2[d], i))
    <3>1. /\ c \in Used(B) /\ c # r /\ d \in Used(B) /\ d # r /\ w.h[c] < w.h[d]
      BY <1>7, <1>8, <2>6
    <3>2. /\ Clear(w, c, w.lo[d]) /\ Clear(w, c, w.hi[d])
          /\ \A i \in 0 .. B[d].nkeys - 1 : Clear(w, c, KeyAt(B[d], i))
          /\ w.lo[d] \in Int /\ w.hi[d] \in Int
          /\ \A i \in 0 .. B[d].nkeys - 1 : KeyAt(B[d], i) \in Int
      BY <1>5, <3>1 DEF Tree, Apart
    <3>3. CASE d = l
      <4>1. /\ Clear(w, c, w.lo[r]) /\ Clear(w, c, w.hi[r])
            /\ \A i \in 0 .. B[r].nkeys - 1 : Clear(w, c, KeyAt(B[r], i))
            /\ w.lo[r] \in Int /\ w.hi[r] \in Int
            /\ \A i \in 0 .. B[r].nkeys - 1 : KeyAt(B[r], i) \in Int
            /\ c # l
        BY <1>4, <1>5, <3>1, <3>3, SMTT(60) DEF Tree, Apart
      <4>2. \A i \in 0 .. n.nkeys - 1 :
              Clear(w, c, KeyAt(n, i)) /\ KeyAt(n, i) \in Int
        <5>1. Clear(w, c, k) /\ k \in Int
          BY <1>3, <1>4, <4>1
        <5>2. ASSUME NEW i \in 0 .. n.nkeys - 1
              PROVE  Clear(w, c, KeyAt(n, i)) /\ KeyAt(n, i) \in Int
          <6>1. CASE KeyAt(n, i) = k
            BY <5>1, <6>1
          <6>2. CASE \E j \in 0 .. B[l].nkeys - 1 : KeyAt(n, i) = KeyAt(B[l], j)
            BY <3>2, <3>3, <6>2
          <6>3. CASE \E j \in 0 .. B[r].nkeys - 1 : KeyAt(n, i) = KeyAt(B[r], j)
            BY <4>1, <6>3
          <6> QED  BY <1>9, <6>1, <6>2, <6>3
        <5> QED  BY <5>2
      <4>3. w2.lo[d] = w.lo[d] /\ w2.hi[d] = w.hi[r] /\ B2[d] = n
        BY <1>8, <3>3
      <4> QED  BY <2>5, <3>1, <3>2, <4>1, <4>2, <4>3
    <3>4. CASE d = p
      <4>1. c = l => /\ Clear(w, r, w.lo[p]) /\ Clear(w, r, w.hi[p])
                     /\ \A i \in 0 .. B[p].nkeys - 1 :
                          Clear(w, r, KeyAt(B[p], i))
        BY <1>1, <1>4, <1>5, SMTT(60) DEF Tree, Apart
      <4>2. w.lo[p] # k /\ w.hi[p] # k
        BY <1>1, <1>3 DEF Within, k
      <4>3. \A i \in 0 .. B[p].nkeys - 1 : i # s => KeyAt(B[p], i) # k
        BY <1>1, <1>5 DEF Sorted, k
      <4>4. \A i \in 0 .. B2[p].nkeys - 1 :
              \E j \in 0 .. x.nkeys - 1 : j # s /\ KeyAt(B2[p], i) = KeyAt(x, j)
        <5>1. B2[p] = RemKey(x, s) /\ s \in 0 .. x.nkeys - 1
          OBVIOUS
        <5> HIDE DEF x, a0, z0
        <5> QED  BY <1>1, <5>1, RemovedOrder
      <4>5. w2.lo[d] = w.lo[p] /\ w2.hi[d] = w.hi[p]
        BY <1>1, <1>6, <1>8, <3>4
      <4>6. ASSUME NEW j \in 0 .. x.nkeys - 1, j # s
            PROVE  Clear(w2, c, KeyAt(x, j))
        BY <2>5, <3>1, <3>2, <3>4, <4>1, <4>3, <4>6
      <4> QED  BY <2>5, <3>1, <3>2, <3>4, <4>1, <4>2, <4>4, <4>5, <4>6
    <3>5. CASE d # l /\ d # p
      <4>1. c = l => /\ Clear(w, r, w.lo[d]) /\ Clear(w, r, w.hi[d])
                     /\ \A i \in 0 .. B[d].nkeys - 1 :
                          Clear(w, r, KeyAt(B[d], i))
        BY <1>4, <1>5, <3>1 DEF Tree, Apart
      <4>2. c = l => /\ w.lo[d] # k /\ w.hi[d] # k
                     /\ \A i \in 0 .. B[d].nkeys - 1 : KeyAt(B[d], i) # k
        BY <1>1, <1>4, <1>5, <2>1, <3>1, <3>5, SMTT(60)
      <4>3. w2.lo[d] = w.lo[d] /\ w2.hi[d] = w.hi[d] /\ B2[d] = B[d]
        BY <1>5, <1>8, <3>1, <3>5
      <4> QED  BY <2>5, <3>1, <3>2, <4>1, <4>2, <4>3
    <3> QED  BY <3>3, <3>4, <3>5
  <2> QED  BY <2>4, <2>6 DEF Apart
<1>16. Tree(B2, w2)
  BY <1>7, <1>8, <1>11, <1>12, <1>13, <1>14, <1>15 DEF Tree
<1> QED  BY <1>4, <1>6, <1>7, <1>16 DEF w2

(* The other way: the parts of entries in order are in order.              *)
LEMMA DividedOrder ==
  ASSUME NEW x \in Block, NEW y \in Block, NEW n, NEW e \in Entry,
         Joined(n, x, e, y), NEW l \in Int, NEW m \in Int, NEW u \in Int,
         m = e.key,
         Sorted(n), Within(n, l, u)
  PROVE  /\ Sorted(x) /\ Within(x, l, m) /\ Sorted(y) /\ Within(y, m, u)
         /\ \A i \in 0 .. x.nkeys - 1 :
              i \in 0 .. n.nkeys - 1 /\ KeyAt(x, i) = KeyAt(n, i)
         /\ \A i \in 0 .. y.nkeys - 1 :
              /\ i + x.nkeys + 1 \in 0 .. n.nkeys - 1
              /\ KeyAt(y, i) = KeyAt(n, i + x.nkeys + 1)
<1>1. /\ x.nkeys \in Nat /\ \A i \in 0 .. x.nkeys - 1 : KeyAt(x, i) \in Int
      /\ y.nkeys \in Nat /\ \A i \in 0 .. y.nkeys - 1 : KeyAt(y, i) \in Int
      /\ n.nkeys = x.nkeys + y.nkeys + 1 /\ x.nkeys \in 0 .. n.nkeys - 1
  BY BlockKeys DEF Joined
<1>2. \A i \in 0 .. n.nkeys - 1 :
       /\ i < x.nkeys => i \in 0 .. x.nkeys - 1 /\ KeyAt(n, i) = KeyAt(x, i)
       /\ i = x.nkeys => KeyAt(n, i) = m
       /\ i > x.nkeys => /\ i - x.nkeys - 1 \in 0 .. y.nkeys - 1
                         /\ KeyAt(n, i) = KeyAt(y, i - x.nkeys - 1)
  BY <1>1 DEF Joined, KeyAt
<1>3. \A i \in 0 .. x.nkeys - 1 :
        i \in 0 .. n.nkeys - 1 /\ i < x.nkeys /\ KeyAt(x, i) = KeyAt(n, i)
  BY <1>1, <1>2
<1>4. ASSUME NEW i \in 0 .. y.nkeys - 1
      PROVE  /\ i + x.nkeys + 1 \in 0 .. n.nkeys - 1
             /\ i + x.nkeys + 1 > x.nkeys
             /\ KeyAt(y, i) = KeyAt(n, i + x.nkeys + 1)
  <2>1. PICK j \in 0 .. n.nkeys - 1 : j = i + x.nkeys + 1
    BY <1>1
  <2>2. j > x.nkeys /\ j - x.nkeys - 1 = i
    BY <1>1, <2>1
  <2> QED  BY <1>2, <2>1, <2>2
<1>5. KeyAt(n, x.nkeys) = m
  BY <1>1, <1>2
<1>6. Sorted(x)
  BY <1>3 DEF Sorted
<1>7. Sorted(y)
  <2> SUFFICES ASSUME NEW i \in 0 .. y.nkeys - 1, NEW j \in 0 .. y.nkeys - 1,
                      i < j
               PROVE  KeyAt(y, i) < KeyAt(y, j)
    BY DEF Sorted
  <2>1. i + x.nkeys + 1 < j + x.nkeys + 1
    BY <1>1
  <2> QED  BY <1>4, <2>1 DEF Sorted
<1>8. l < m /\ m < u
  BY <1>1, <1>5 DEF Within
<1>9. Within(x, l, m)
  BY <1>1, <1>3, <1>5, <1>8 DEF Within, Sorted
<1>10. Within(y, m, u)
  BY <1>1, <1>4, <1>5, <1>8 DEF Within, Sorted
<1> QED  BY <1>3, <1>4, <1>6, <1>7, <1>8, <1>9, <1>10

(* The witness after a split of the root at key m.                         *)
RootWitness(w, b1, b2, m) ==
  [h  |-> [w.h EXCEPT ![ROOT] = @ + 1, ![b1] = w.h[ROOT], ![b2] = w.h[ROOT]],
   lo |-> [w.lo EXCEPT ![b1] = Low, ![b2] = m],
   hi |-> [w.hi EXCEPT ![b1] = m, ![b2] = High]]

(* The root is split, by bsptbk: the tree grows by a level.                *)
LEMMA SplitRootTree ==
  ASSUME KeysBounded, NEW B, Sound(B), NEW w, Tree(B, w),
         NEW b1 \in Child, NEW b2 \in Child, b1 # b2,
         b1 \notin Used(B), b2 \notin Used(B),
         NEW x \in Block, NEW y \in Block, NEW e \in Entry,
         x.type = "inuse", y.type = "inuse", Joined(B[ROOT], x, e, y),
         B[ROOT].lnk = NoLinks => x.lnk = NoLinks /\ y.lnk = NoLinks,
         Linked(B[ROOT], x, y),
         NEW t \in Block, t.type = "root", t.nkeys = 1, t.ent[0] = e,
         t.lnk[0] = b1, t.lnk[1] = b2,
         NEW B2, B2 \in [Link -> Block], B2[ROOT] = t, B2[b1] = x, B2[b2] = y,
         \A a \in Link \ {ROOT, b1, b2} : B2[a] = B[a]
  PROVE  /\ Tree(B2, RootWitness(w, b1, b2, e.key))
         /\ Used(B2) = Used(B) \cup {b1, b2}
<1> DEFINE w2 == RootWitness(w, b1, b2, e.key)
           m == e.key
           f == B[ROOT]
           h == w.h[ROOT]
<1>1. /\ ROOT \in Used(B) /\ NodeOK(B, w, ROOT) /\ h \in Nat
      /\ Low \in Int /\ High \in Int /\ Low < High
      /\ w.lo[ROOT] = Low /\ w.hi[ROOT] = High
      /\ f \in Block /\ f.nkeys \in Nat /\ ROOT \in Link
      /\ Sorted(f) /\ Within(f, Low, High)
  <2>1. ROOT \in Used(B)
    BY DEF Used
  <2>2. NodeOK(B, w, ROOT) /\ h \in Nat
    BY <2>1, UsedWitness
  <2> QED  BY <2>1, <2>2, UsedBlock, EndsOfKeys DEF NodeOK, Tree
<1>2. m \in Int
  BY KeyConstants DEF Entry
<1>3. /\ Sorted(x) /\ Within(x, Low, m) /\ Sorted(y) /\ Within(y, m, High)
      /\ Low < m /\ m < High
      /\ \A i \in 0 .. x.nkeys - 1 :
           i \in 0 .. f.nkeys - 1 /\ KeyAt(x, i) = KeyAt(f, i)
      /\ \A i \in 0 .. y.nkeys - 1 :
           /\ i + x.nkeys + 1 \in 0 .. f.nkeys - 1
           /\ KeyAt(y, i) = KeyAt(f, i + x.nkeys + 1)
  <2>1. Joined(f, x, e, y) /\ m = e.key
    OBVIOUS
  <2>2. /\ m \in Int /\ Low \in Int /\ High \in Int
        /\ Sorted(f) /\ Within(f, Low, High)
    BY <1>1, <1>2
  <2> HIDE DEF f, m
  <2>3. /\ Sorted(x) /\ Within(x, Low, m) /\ Sorted(y) /\ Within(y, m, High)
        /\ \A i \in 0 .. x.nkeys - 1 :
             i \in 0 .. f.nkeys - 1 /\ KeyAt(x, i) = KeyAt(f, i)
        /\ \A i \in 0 .. y.nkeys - 1 :
             /\ i + x.nkeys + 1 \in 0 .. f.nkeys - 1
             /\ KeyAt(y, i) = KeyAt(f, i + x.nkeys + 1)
    BY <2>1, <2>2, DividedOrder, SMTT(30)
  <2>4. Low < m /\ m < High
    BY <2>3 DEF Within
  <2> QED  BY <2>3, <2>4
<1>4. \A a \in Used(B) :
         /\ a \in Link /\ a \in TreeBlk /\ NodeOK(B, w, a) /\ a # b1 /\ a # b2
         /\ w.h[a] \in Nat /\ w.lo[a] \in Int /\ w.hi[a] \in Int
         /\ w.lo[a] < w.hi[a] /\ a \in Int
         /\ Low <= w.lo[a] /\ w.hi[a] <= High
         /\ a # ROOT => w.h[a] < h
         /\ a # ROOT => B[a].type = "inuse" /\ a \in Child
         /\ B[a] \in Block /\ B[a].nkeys \in Nat
         /\ \A i \in 0 .. B[a].nkeys - 1 : KeyAt(B[a], i) \in Int
  BY UsedBlock, UsedWitness DEF NodeOK, Within
<1>5. /\ b1 \in Link /\ b2 \in Link /\ b1 # ROOT /\ b2 # ROOT
      /\ b1 \in TreeBlk /\ b2 \in TreeBlk /\ ROOT \in TreeBlk
  BY BlockNumbers, BlockConstants DEF TreeBlk, ChildOrNull
<1>6. Used(B2) = Used(B) \cup {b1, b2}
  BY <1>5, BlockNumbers DEF Used
<1>7. /\ w2 \in Witness
      /\ w2.h[ROOT] = h + 1 /\ w2.h[b1] = h /\ w2.h[b2] = h
      /\ w2.lo[ROOT] = Low /\ w2.lo[b1] = Low /\ w2.lo[b2] = m
      /\ w2.hi[ROOT] = High /\ w2.hi[b1] = m /\ w2.hi[b2] = High
      /\ \A a \in Used(B) \ {ROOT} :
           w2.h[a] = w.h[a] /\ w2.lo[a] = w.lo[a] /\ w2.hi[a] = w.hi[a]
  BY <1>1, <1>2, <1>4, <1>5 DEF RootWitness, Witness, Tree
<1> HIDE DEF w2, f, h, m
<1>8. ASSUME NEW c, NEW n, NEW l, NEW u, Kid(B, w, c, n, l, u)
      PROVE  Kid(B2, w2, c, n, l, u)
  BY <1>6, <1>7, <1>8 DEF Kid
<1>9. x.nkeys \in Nat /\ y.nkeys \in Nat /\ f.nkeys = x.nkeys + y.nkeys + 1
  BY BlockKeys DEF Joined, f
<1>10. \A i \in 0 .. f.nkeys : h # 0 =>
         Kid(B, w, f.lnk[i], h - 1, From(f, Low, i), To(f, High, i))
  BY <1>1 DEF NodeOK, f, h
<1>10a. /\ \A i \in 0 .. f.nkeys :
             /\ i <= x.nkeys => f.lnk[i] = x.lnk[i]
             /\ i > x.nkeys => f.lnk[i] = y.lnk[i - x.nkeys - 1]
        /\ f.lnk = NoLinks => x.lnk = NoLinks /\ y.lnk = NoLinks
        /\ h = 0 => f.lnk = NoLinks
        /\ KeyAt(f, x.nkeys) = m
  <2>1. h = 0 => f.lnk = NoLinks
    BY <1>1 DEF NodeOK, f, h
  <2>2. KeyAt(f, x.nkeys) = m
    BY <1>9 DEF Joined, KeyAt, f, m
  <2> QED  BY <2>1, <2>2 DEF Linked, f
<1>11. NodeOK(B2, w2, b1)
  <2>1. ASSUME h # 0, NEW i \in 0 .. x.nkeys
        PROVE  Kid(B2, w2, x.lnk[i], h - 1, From(x, Low, i), To(x, m, i))
    <3>1. i \in 0 .. f.nkeys /\ x.lnk[i] = f.lnk[i]
      BY <1>9, <1>10a
    <3>2. From(x, Low, i) = From(f, Low, i)
      BY <1>3, <1>9 DEF From
    <3>3. To(x, m, i) = To(f, High, i)
      <4>1. CASE i = x.nkeys
        BY <1>9, <1>10a, <4>1 DEF To
      <4>2. CASE i # x.nkeys
        <5>1. i \in 0 .. x.nkeys - 1 /\ i # f.nkeys
          BY <1>9, <4>2
        <5> QED  BY <1>3, <4>2, <5>1 DEF To
      <4> QED  BY <4>1, <4>2
    <3> QED  BY <1>8, <1>10, <2>1, <3>1, <3>2, <3>3
  <2> QED  BY <1>1, <1>2, <1>3, <1>5, <1>7, <1>10a, <2>1 DEF NodeOK
<1>12. NodeOK(B2, w2, b2)
  <2>1. ASSUME h # 0, NEW i \in 0 .. y.nkeys
        PROVE  Kid(B2, w2, y.lnk[i], h - 1, From(y, m, i), To(y, High, i))
    <3>0. PICK j \in 0 .. f.nkeys : j = i + x.nkeys + 1
      BY <1>9
    <3>1. j > x.nkeys /\ j - x.nkeys - 1 = i
      BY <1>9, <3>0
    <3>2. y.lnk[i] = f.lnk[j]
      BY <1>10a, <3>1
    <3>3. From(y, m, i) = From(f, Low, j)
      <4>1. CASE i = 0
        <5>1. j # 0 /\ j - 1 = x.nkeys
          BY <1>9, <3>0, <4>1
        <5> QED  BY <1>10a, <4>1, <5>1 DEF From
      <4>2. CASE i # 0
        <5>1. j # 0 /\ i - 1 \in 0 .. y.nkeys - 1 /\ j - 1 = i - 1 + x.nkeys + 1
          BY <1>9, <3>0, <4>2
        <5> QED  BY <1>3, <4>2, <5>1 DEF From
      <4> QED  BY <4>1, <4>2
    <3>4. To(y, High, i) = To(f, High, j)
      <4>1. CASE i = y.nkeys
        BY <1>9, <3>0, <4>1 DEF To
      <4>2. CASE i # y.nkeys
        <5>1. j # f.nkeys /\ i \in 0 .. y.nkeys - 1
          BY <1>9, <3>0, <4>2
        <5> QED  BY <1>3, <3>0, <4>2, <5>1 DEF To
      <4> QED  BY <4>1, <4>2
    <3> QED  BY <1>8, <1>10, <2>1, <3>2, <3>3, <3>4
  <2> QED  BY <1>1, <1>2, <1>3, <1>5, <1>7, <1>10a, <2>1 DEF NodeOK
<1>13. NodeOK(B2, w2, ROOT)
  <2>1. KeyAt(t, 0) = m
    BY DEF KeyAt, m
  <2>2. Sorted(t) /\ Within(t, Low, High)
    BY <1>1, <1>3, <2>1 DEF Sorted, Within
  <2>3. /\ From(t, Low, 0) = Low /\ To(t, High, 0) = m
        /\ From(t, Low, 1) = m /\ To(t, High, 1) = High
    BY <2>1 DEF From, To
  <2>4. \A i \in 0 .. t.nkeys :
          Kid(B2, w2, t.lnk[i], h + 1 - 1, From(t, Low, i), To(t, High, i))
    <3>1. /\ Kid(B2, w2, b1, h + 1 - 1, Low, m)
          /\ Kid(B2, w2, b2, h + 1 - 1, m, High)
      BY <1>1, <1>5, <1>6, <1>7 DEF Kid
    <3>2. 0 .. t.nkeys = {0, 1}
      OBVIOUS
    <3> QED  BY <2>3, <3>1, <3>2
  <2> QED  BY <1>1, <1>7, <2>2, <2>4 DEF NodeOK
<1>14. ASSUME NEW a \in Used(B), a # ROOT PROVE NodeOK(B2, w2, a)
  <2>1. /\ B2[a] = B[a] /\ w2.h[a] = w.h[a] /\ w2.lo[a] = w.lo[a]
        /\ w2.hi[a] = w.hi[a]
    BY <1>4, <1>7, <1>14
  <2>2. w2.h[a] < w2.h[ROOT]
    BY <1>1, <1>4, <1>7, <1>14, <2>1
  <2> QED  BY <1>4, <1>8, <1>14, <2>1, <2>2 DEF NodeOK
<1>15. Apart(B2, w2)
  <2> DEFINE old(c) == c \in Used(B) \ {ROOT}
  <2>1. \A c \in Used(B2) : old(c) \/ c = ROOT \/ c = b1 \/ c = b2
    BY <1>6
  <2>2. ASSUME NEW c, old(c)
        PROVE  /\ c \in Used(B) /\ w2.h[c] = w.h[c] /\ w.h[c] \in Nat
               /\ w.h[c] < h
               /\ w2.lo[c] = w.lo[c] /\ w2.hi[c] = w.hi[c]
               /\ w.lo[c] \in Int /\ w.hi[c] \in Int
               /\ Low <= w.lo[c] /\ w.hi[c] <= High /\ B2[c] = B[c]
               /\ Clear(w, c, m) /\ Clear(w, c, Low) /\ Clear(w, c, High)
               /\ \A i \in 0 .. f.nkeys - 1 : Clear(w, c, KeyAt(f, i))
    <3>1. c \in Used(B) /\ c # ROOT /\ w.h[c] < w.h[ROOT] /\ ROOT \in Used(B)
      BY <1>1, <1>4, <2>2 DEF h
    <3>2. \A i \in 0 .. f.nkeys - 1 : Clear(w, c, KeyAt(f, i))
      BY <3>1 DEF Tree, Apart, f
    <3>3. Clear(w, c, m)
      BY <1>9, <1>10a, <3>2
    <3> QED  BY <1>1, <1>4, <1>7, <3>1, <3>2, <3>3 DEF Clear
  <2>3. ASSUME NEW c \in Used(B2), NEW d \in Used(B2), c # d, w2.h[c] = w2.h[d]
        PROVE  w2.hi[c] <= w2.lo[d] \/ w2.hi[d] <= w2.lo[c]
    <3>1. CASE old(c) /\ old(d)
      BY <2>2, <2>3, <3>1 DEF Tree, Apart
    <3>2. CASE ~old(c) /\ old(d)
      BY <1>1, <1>7, <2>1, <2>2, <2>3, <3>2
    <3>3. CASE old(c) /\ ~old(d)
      BY <1>1, <1>7, <2>1, <2>2, <2>3, <3>3
    <3>4. CASE ~old(c) /\ ~old(d)
      <4>1. {c, d} = {b1, b2}
        BY <1>1, <1>7, <2>1, <2>3, <3>4
      <4> QED  BY <1>2, <1>7, <4>1
    <3> QED  BY <3>1, <3>2, <3>3, <3>4
  <2>4. ASSUME NEW c \in Used(B2), NEW d \in Used(B2), w2.h[c] < w2.h[d]
        PROVE  /\ Clear(w2, c, w2.lo[d]) /\ Clear(w2, c, w2.hi[d])
               /\ \A i \in 0 .. B2[d].nkeys - 1 : Clear(w2, c, KeyAt(B2[d], i))
    <3>1. CASE old(c) /\ old(d)
      BY <2>2, <2>4, <3>1 DEF Tree, Apart, Clear
    <3>2. CASE old(c) /\ ~old(d)
      <4>1. \A v : Clear(w, c, v) => Clear(w2, c, v)
        BY <2>2, <3>2 DEF Clear
      <4>2. CASE d = ROOT
        <5>1. KeyAt(t, 0) = m
          BY DEF KeyAt, m
        <5> QED  BY <1>7, <2>2, <3>2, <4>1, <4>2, <5>1
      <4>3. CASE d = b1
        BY <1>3, <1>7, <2>2, <3>2, <4>1, <4>3
      <4>4. CASE d = b2
        BY <1>3, <1>7, <2>2, <3>2, <4>1, <4>4
      <4> QED  BY <2>1, <3>2, <4>2, <4>3, <4>4
    <3>3. CASE ~old(c)
      <4>1. d = ROOT /\ c \in {b1, b2}
        <5>1. ~old(d)
          BY <1>1, <1>7, <2>1, <2>2, <2>4, <3>3
        <5> QED  BY <1>1, <1>7, <2>1, <2>4, <3>3, <5>1
      <4>2. \A i \in 0 .. t.nkeys - 1 : KeyAt(t, i) = m
        BY DEF KeyAt, m
      <4>3. Clear(w2, c, Low) /\ Clear(w2, c, High) /\ Clear(w2, c, m)
        BY <1>1, <1>2, <1>3, <1>7, <4>1 DEF Clear
      <4> QED  BY <1>7, <4>1, <4>2, <4>3
    <3> QED  BY <3>1, <3>2, <3>3
  <2> QED  BY <2>3, <2>4 DEF Apart
<1>16. Tree(B2, w2)
  BY <1>6, <1>7, <1>11, <1>12, <1>13, <1>14, <1>15 DEF Tree
<1> QED  BY <1>6, <1>16 DEF w2

(* A value, once the separator k is replaced by m; a value on which this   *)
(* keeps the order.                                                        *)
Subst(v, k, m) == IF v = k THEN m ELSE v
Side(v, k, m)  == v # k => (v < k <=> v < m) /\ (v > k <=> v > m)

MoveWitness(w, k, m) ==
  [h |-> w.h, lo |-> [c \in TreeBlk |-> Subst(w.lo[c], k, m)],
              hi |-> [c \in TreeBlk |-> Subst(w.hi[c], k, m)]]

(* The separator at position s of p is replaced, and leaves are rewritten. *)
LEMMA MoveTree ==
  ASSUME KeysBounded, NEW B, Sound(B), NEW w, Tree(B, w),
         NEW p \in Used(B), w.h[p] # 0, NEW s \in 0 .. B[p].nkeys - 1,
         NEW e \in Entry, NEW k, k = KeyAt(B[p], s), NEW m, m = e.key,
         \A c \in Used(B) :
           /\ Side(w.lo[c], k, m) /\ Side(w.hi[c], k, m)
           /\ w.h[c] # 0 =>
                \A i \in 0 .. B[c].nkeys - 1 : Side(KeyAt(B[c], i), k, m),
         NEW B2, B2 \in [Link -> Block],
         B2[p] = RepKey(B[p], s, e, B[p].lnk[s], B[p].lnk[s + 1]),
         \A c \in Used(B) : w.h[c] = 0 =>
           /\ B2[c].type = B[c].type /\ Sorted(B2[c]) /\ B2[c].lnk = NoLinks
           /\ Within(B2[c], Subst(w.lo[c], k, m), Subst(w.hi[c], k, m)),
         \A c \in Used(B) : w.h[c] # 0 /\ c # p => B2[c] = B[c],
         \A c \in Link \ Used(B) : B2[c] = B[c]
  PROVE  Tree(B2, MoveWitness(w, k, m)) /\ Used(B2) = Used(B)
<1> DEFINE x == B[p]
           y == RepKey(B[p], s, e, B[p].lnk[s], B[p].lnk[s + 1])
           w2 == MoveWitness(w, k, m)
<1>1. /\ NodeOK(B, w, p) /\ w.h[p] \in Nat /\ w.lo[p] \in Int /\ w.hi[p] \in Int
      /\ x \in Block /\ x.nkeys \in Nat /\ p \in Link /\ p \in TreeBlk
      /\ Sorted(x) /\ Within(x, w.lo[p], w.hi[p]) /\ ROOT \in Used(B)
      /\ \A i \in 0 .. x.nkeys - 1 : KeyAt(x, i) \in Int
  BY UsedWitness, UsedBlock DEF NodeOK, Used
<1>2. /\ m \in Key /\ m \in Int /\ k \in Int /\ Low < m /\ m < High
      /\ Low \in Int /\ High \in Int
  BY <1>1, EndsOfKeys DEF Entry
<1>3. w.lo[p] < k /\ k < w.hi[p]
  BY <1>1 DEF Within
<1>4. \A a \in Used(B) :
         /\ a \in Link /\ a \in TreeBlk /\ NodeOK(B, w, a)
         /\ w.h[a] \in Nat /\ w.lo[a] \in Int /\ w.hi[a] \in Int
         /\ w.lo[a] < w.hi[a]
         /\ Low <= w.lo[a] /\ w.hi[a] <= High
         /\ B[a] \in Block /\ B[a].nkeys \in Nat
         /\ Sorted(B[a]) /\ Within(B[a], w.lo[a], w.hi[a])
         /\ \A i \in 0 .. B[a].nkeys - 1 : KeyAt(B[a], i) \in Int
  BY UsedBlock, UsedWitness DEF NodeOK, Within
<1>5. ASSUME NEW a \in Int, NEW b \in Int, Side(a, k, m), Side(b, k, m)
      PROVE  /\ a <= b => Subst(a, k, m) <= Subst(b, k, m)
             /\ a < b => Subst(a, k, m) < Subst(b, k, m)
             /\ Subst(a, k, m) \in Int
  BY <1>2, <1>5 DEF Side, Subst
<1>6. ASSUME NEW c \in Used(B), w.h[c] # 0, c # p, NEW i \in 0 .. B[c].nkeys - 1
      PROVE  KeyAt(B[c], i) # k
  <2>1. CASE w.h[p] <= w.h[c]
    <3>1. Clear(w, p, KeyAt(B[c], i))
      BY <1>6, <2>1, ValuesApart
    <3> QED  BY <1>1, <1>2, <1>3, <1>4, <3>1 DEF Clear
  <2>2. CASE w.h[c] <= w.h[p]
    <3>1. Clear(w, c, KeyAt(B[p], s))
      BY <1>6, <2>2, ValuesApart
    <3> QED  BY <1>2, <1>4, <1>6, <3>1 DEF Clear, Within
  <2> QED  BY <1>1, <1>4, <2>1, <2>2
<1>7. /\ w2 \in Witness /\ w2.h = w.h
      /\ \A a \in Used(B) : /\ w2.lo[a] = Subst(w.lo[a], k, m)
                            /\ w2.hi[a] = Subst(w.hi[a], k, m)
  <2>1. \A a \in TreeBlk : w.lo[a] \in Int /\ w.hi[a] \in Int
    BY DEF Tree, Witness
  <2> QED  BY <1>2, <1>4, <2>1 DEF MoveWitness, Witness, Subst, Tree
<1> HIDE DEF w2
<1>8. /\ y.type = x.type /\ y.nkeys = x.nkeys /\ y.lnk = x.lnk
      /\ \A i \in 0 .. x.nkeys - 1 : KeyAt(y, i) = Subst(KeyAt(x, i), k, m)
  <2>1. /\ x.lnk \in [0 .. MXKEY -> ChildOrNull] /\ x.nkeys <= MXKEY
        /\ MXKEY \in Nat
        /\ x.ent \in [0 .. MXKEY - 1 -> Entry \cup {NoEnt}]
    BY <1>1, BlockFacts, BlockKeys, BlockConstants, SMTT(30)
  <2>2. y.type = x.type /\ y.nkeys = x.nkeys
    BY <1>1, BlockFacts DEF RepKey
  <2>3. /\ y.ent = [x.ent EXCEPT ![s] = e]
        /\ y.lnk = [x.lnk EXCEPT ![s] = x.lnk[s], ![s + 1] = x.lnk[s + 1]]
    BY <1>1, BlockFacts DEF RepKey
  <2>4. y.lnk = x.lnk
    BY <1>1, <2>1, <2>3
  <2>5. ASSUME NEW i \in 0 .. x.nkeys - 1
        PROVE  KeyAt(y, i) = Subst(KeyAt(x, i), k, m)
    <3>1. CASE i = s
      BY <1>1, <2>1, <2>3, <3>1 DEF KeyAt, Subst
    <3>2. CASE i # s
      <4>1. KeyAt(x, i) # k
        BY <1>1, <3>2 DEF Sorted
      <4>2. y.ent[i] = x.ent[i]
        BY <1>1, <2>1, <2>3, <3>2, SMTT(30)
      <4> QED  BY <4>1, <4>2 DEF KeyAt, Subst
    <3> QED  BY <3>1, <3>2
  <2> QED  BY <2>2, <2>4, <2>5
<1> HIDE DEF y
<1>9. B2[p] = y
  BY DEF y
<1>10. \A c \in Used(B) : B2[c].type = B[c].type
  BY <1>8, <1>9
<1>11. Used(B2) = Used(B)
  <2>1. \A c \in Child : c \notin Used(B) => B2[c] = B[c]
    BY BlockNumbers
  <2> QED  BY <1>10, <2>1, BlockNumbers DEF Used
<1>12. ASSUME NEW c \in Used(B), w.h[c] # 0
       PROVE  /\ B2[c].nkeys = B[c].nkeys /\ B2[c].lnk = B[c].lnk
              /\ \A i \in 0 .. B[c].nkeys - 1 :
                   KeyAt(B2[c], i) = Subst(KeyAt(B[c], i), k, m)
  <2>1. CASE c = p
    BY <1>8, <1>9, <2>1
  <2>2. CASE c # p
    BY <1>6, <1>12, <2>2 DEF Subst
  <2> QED  BY <2>1, <2>2
<1>13. /\ w2.lo[ROOT] = Low /\ w2.hi[ROOT] = High
       /\ \A c \in Used(B) : Low <= w2.lo[c] /\ w2.hi[c] <= High
  <2>1. w.lo[ROOT] = Low /\ w.hi[ROOT] = High
    BY DEF Tree
  <2>2. Low < k /\ k < High
    BY <1>1, <1>2, <1>3, <1>4
  <2> QED  BY <1>1, <1>2, <1>4, <1>7, <2>1, <2>2 DEF Subst
<1>14. ASSUME NEW c \in Used(B), w.h[c] # 0 PROVE NodeOK(B2, w2, c)
  <2> DEFINE n == B[c].nkeys  l == w.lo[c]  u == w.hi[c]
  <2>1. /\ Side(l, k, m) /\ Side(u, k, m) /\ l \in Int /\ u \in Int
        /\ \A i \in 0 .. n - 1 : /\ Side(KeyAt(B[c], i), k, m)
                                 /\ KeyAt(B[c], i) \in Int
    BY <1>4, <1>14
  <2>2. Sorted(B2[c])
    BY <1>4, <1>5, <1>12, <1>14, <2>1 DEF Sorted
  <2>3. Within(B2[c], w2.lo[c], w2.hi[c])
    BY <1>4, <1>5, <1>7, <1>12, <1>14, <2>1 DEF Within
  <2>4. ASSUME NEW i \in 0 .. n
        PROVE  /\ From(B2[c], w2.lo[c], i) = Subst(From(B[c], l, i), k, m)
               /\ To(B2[c], w2.hi[c], i) = Subst(To(B[c], u, i), k, m)
    <3>0. n \in Nat /\ n = B2[c].nkeys
      BY <1>4, <1>12, <1>14
    <3>1. From(B2[c], w2.lo[c], i) = Subst(From(B[c], l, i), k, m)
      <4>1. CASE i = 0
        BY <1>7, <4>1 DEF From
      <4>2. CASE i # 0
        <5>1. i - 1 \in 0 .. n - 1
          BY <3>0, <4>2
        <5> QED  BY <1>12, <1>14, <4>2, <5>1 DEF From
      <4> QED  BY <4>1, <4>2
    <3>2. To(B2[c], w2.hi[c], i) = Subst(To(B[c], u, i), k, m)
      <4>1. CASE i = n
        BY <1>7, <3>0, <4>1 DEF To
      <4>2. CASE i # n
        <5>1. i \in 0 .. n - 1
          BY <3>0, <4>2
        <5> QED  BY <1>12, <1>14, <3>0, <4>2, <5>1 DEF To
      <4> QED  BY <4>1, <4>2
    <3> QED  BY <3>1, <3>2
  <2>5. ASSUME NEW i \in 0 .. n
        PROVE  Kid(B2, w2, B[c].lnk[i], w.h[c] - 1,
                   From(B2[c], w2.lo[c], i), To(B2[c], w2.hi[c], i))
    <3>1. Kid(B, w, B[c].lnk[i], w.h[c] - 1, From(B[c], l, i), To(B[c], u, i))
      BY <1>4, <1>14 DEF NodeOK
    <3> QED  BY <1>7, <1>11, <2>4, <3>1 DEF Kid
  <2>6. c # ROOT => w2.h[c] < w2.h[ROOT]
    BY <1>4, <1>7 DEF NodeOK
  <2> QED  BY <1>7, <1>12, <1>13, <1>14, <2>2, <2>3, <2>5, <2>6 DEF NodeOK
<1>15. ASSUME NEW c \in Used(B), w.h[c] = 0 PROVE NodeOK(B2, w2, c)
  <2>1. c # ROOT => w2.h[c] < w2.h[ROOT]
    BY <1>4, <1>7 DEF NodeOK
  <2> QED  BY <1>7, <1>13, <1>15, <2>1 DEF NodeOK
<1>16. Apart(B2, w2)
  <2>1. ASSUME NEW c \in Used(B), NEW d \in Used(B), c # d, w.h[c] = w.h[d]
        PROVE  w2.hi[c] <= w2.lo[d] \/ w2.hi[d] <= w2.lo[c]
    <3>1. w.hi[c] <= w.lo[d] \/ w.hi[d] <= w.lo[c]
      BY <2>1 DEF Tree, Apart
    <3> QED  BY <1>4, <1>5, <1>7, <3>1
  <2>2. ASSUME NEW c \in Used(B), NEW v \in Int, Side(v, k, m), Clear(w, c, v)
        PROVE  Clear(w2, c, Subst(v, k, m))
    BY <1>4, <1>5, <1>7, <2>2 DEF Clear
  <2>3. ASSUME NEW c \in Used(B), NEW d \in Used(B), w.h[c] < w.h[d]
        PROVE  /\ Clear(w2, c, w2.lo[d]) /\ Clear(w2, c, w2.hi[d])
               /\ \A i \in 0 .. B2[d].nkeys - 1 : Clear(w2, c, KeyAt(B2[d], i))
    <3>1. /\ Clear(w, c, w.lo[d]) /\ Clear(w, c, w.hi[d])
          /\ \A i \in 0 .. B[d].nkeys - 1 : Clear(w, c, KeyAt(B[d], i))
      BY <2>3 DEF Tree, Apart
    <3>2. w.h[d] # 0
      BY <1>4, <2>3
    <3>3. Clear(w2, c, w2.lo[d]) /\ Clear(w2, c, w2.hi[d])
      BY <1>4, <1>7, <2>2, <3>1
    <3>4. \A i \in 0 .. B[d].nkeys - 1 : Clear(w2, c, KeyAt(B2[d], i))
      BY <1>4, <1>12, <2>2, <3>1, <3>2
    <3> QED  BY <1>12, <3>2, <3>3, <3>4
  <2> QED  BY <1>7, <1>11, <2>1, <2>3 DEF Apart
<1>17. Tree(B2, w2)
  BY <1>7, <1>11, <1>13, <1>14, <1>15, <1>16 DEF Tree
<1> QED  BY <1>11, <1>17 DEF w2

(* bdelk1: the key on the right of a leaf is replaced by one that was the  *)
(* last of the leaf.                                                       *)
Predecessor(B, w, p, s, e, b) ==
  /\ p \in Used(B) /\ w.h[p] # 0 /\ s \in 0 .. B[p].nkeys - 1 /\ e \in Entry
  /\ b \in Used(B) /\ w.h[b] = 0 /\ w.hi[b] = KeyAt(B[p], s)
  /\ w.lo[b] < e.key /\ e.key < KeyAt(B[p], s)
  /\ \A i \in 0 .. B[b].nkeys - 1 : KeyAt(B[b], i) < e.key

Separate(B, p, s, e) == RepKey(B[p], s, e, B[p].lnk[s], B[p].lnk[s + 1])

(* The key at s of p gives way to its predecessor.                         *)
LEMMA ReplaceTree ==
  ASSUME KeysBounded, NEW B, Sound(B), NEW w, Tree(B, w),
         NEW p, NEW s, NEW e, NEW b, Predecessor(B, w, p, s, e, b),
         NEW B2, B2 = Write(B, p, Separate(B, p, s, e))
  PROVE  /\ Tree(B2, MoveWitness(w, KeyAt(B[p], s), e.key))
         /\ Used(B2) = Used(B)
<1> DEFINE y == RepKey(B[p], s, e, B[p].lnk[s], B[p].lnk[s + 1])
<1>. PICK k, m : k = KeyAt(B[p], s) /\ m = e.key
  OBVIOUS
<1>0. /\ p \in Used(B) /\ w.h[p] # 0 /\ s \in 0 .. B[p].nkeys - 1 /\ e \in Entry
      /\ b \in Used(B) /\ w.h[b] = 0 /\ w.hi[b] = k
      /\ w.lo[b] < m /\ m < k
      /\ \A i \in 0 .. B[b].nkeys - 1 : KeyAt(B[b], i) < m
  BY DEF Predecessor
<1>1. /\ p \in Link /\ B[p] \in Block /\ B \in [Link -> Block]
      /\ B[p].nkeys \in Nat /\ B[p].nkeys <= MXKEY /\ MXKEY \in Nat
      /\ \A i \in 0 .. B[p].nkeys - 1 : KeyAt(B[p], i) \in Int
      /\ m \in Int /\ k \in Int
  <2>1. /\ p \in Link /\ B[p] \in Block /\ B \in [Link -> Block]
        /\ B[p].nkeys \in Nat /\ B[p].nkeys <= MXKEY /\ MXKEY \in Nat
        /\ \A i \in 0 .. B[p].nkeys - 1 : KeyAt(B[p], i) \in Int
    BY <1>0, UsedBlock, BlockConstants DEF Sound
  <2>2. m \in Int
    BY <1>0, KeyConstants DEF Entry
  <2>3. k \in Int
    BY <1>0, <2>1
  <2> QED  BY <2>1, <2>2, <2>3
<1>2. \A a \in Used(B) :
         /\ a \in Link /\ NodeOK(B, w, a)
         /\ w.h[a] \in Nat /\ w.lo[a] \in Int /\ w.hi[a] \in Int
         /\ B[a] \in Block /\ B[a].nkeys \in Nat
         /\ Sorted(B[a]) /\ Within(B[a], w.lo[a], w.hi[a])
         /\ \A i \in 0 .. B[a].nkeys - 1 : KeyAt(B[a], i) \in Int
         /\ w.h[a] = 0 => B[a].lnk = NoLinks
  BY UsedBlock, UsedWitness DEF NodeOK
<1>3. y \in Block
  <2>1. B[p].lnk \in [0 .. MXKEY -> ChildOrNull]
    BY <1>1, BlockFacts
  <2>2. s \in 0 .. MXKEY - 1 /\ s + 1 \in 0 .. MXKEY /\ s \in 0 .. MXKEY
    BY <1>0, <1>1
  <2>3. B[p].lnk[s] \in ChildOrNull /\ B[p].lnk[s + 1] \in ChildOrNull
    BY <2>1, <2>2
  <2> QED  BY <1>0, <1>1, <2>2, <2>3, RepKeyBlock
<1> HIDE DEF y
<1>4. /\ B2 \in [Link -> Block] /\ B2[p] = y
      /\ \A c \in Link : c # p => B2[c] = B[c]
  BY <1>1, <1>3 DEF Write, Separate, y
<1>5. ASSUME NEW v \in Int, Clear(w, b, v) PROVE Side(v, k, m)
  BY <1>0, <1>1, <1>2, <1>5 DEF Clear, Side
<1>6. ASSUME NEW c \in Used(B)
      PROVE  /\ Side(w.lo[c], k, m) /\ Side(w.hi[c], k, m)
             /\ w.h[c] # 0 =>
                  \A i \in 0 .. B[c].nkeys - 1 : Side(KeyAt(B[c], i), k, m)
  <2>1. CASE c = b
    BY <1>0, <1>1, <1>2, <1>5, <2>1 DEF Clear
  <2>2. CASE c # b
    <3>1. /\ Clear(w, b, w.lo[c]) /\ Clear(w, b, w.hi[c])
          /\ \A i \in 0 .. B[c].nkeys - 1 : Clear(w, b, KeyAt(B[c], i))
      BY <1>0, <1>2, <2>2, ValuesApart
    <3> QED  BY <1>2, <1>5, <3>1
  <2> QED  BY <2>1, <2>2
<1>7. ASSUME NEW c \in Used(B), w.h[c] = 0
      PROVE  /\ B2[c].type = B[c].type /\ Sorted(B2[c]) /\ B2[c].lnk = NoLinks
             /\ Within(B2[c], Subst(w.lo[c], k, m), Subst(w.hi[c], k, m))
  <2>1. B2[c] = B[c]
    BY <1>0, <1>2, <1>4, <1>7
  <2>2. Within(B[c], Subst(w.lo[c], k, m), Subst(w.hi[c], k, m))
    <3>1. CASE c = b
      <4>1. w.lo[c] # k /\ w.hi[c] = k
        BY <1>0, <1>1, <1>2, <3>1
      <4> QED  BY <1>0, <1>1, <1>2, <3>1, <4>1 DEF Subst, Within
    <3>2. CASE c # b
      <4>1. w.hi[c] # k
        <5>1. w.hi[b] <= w.lo[c] \/ w.hi[c] <= w.lo[b]
          BY <1>0, <1>2, <1>7, <3>2 DEF Tree, Apart
        <5> QED  BY <1>0, <1>1, <1>2, <5>1 DEF Within
      <4>2. w.lo[c] = k => m < w.hi[c]
        BY <1>0, <1>1, <1>2 DEF Within
      <4>3. /\ w.lo[c] < w.hi[c] /\ w.lo[c] \in Int /\ w.hi[c] \in Int
            /\ \A i \in 0 .. B[c].nkeys - 1 :
                 KeyAt(B[c], i) \in Int /\ w.lo[c] < KeyAt(B[c], i)
                   /\ KeyAt(B[c], i) < w.hi[c]
        BY <1>2 DEF Within
      <4> QED  BY <1>0, <1>1, <4>1, <4>2, <4>3 DEF Subst, Within
    <3> QED  BY <3>1, <3>2
  <2> QED  BY <1>2, <1>7, <2>1, <2>2
<1>8. \A c \in Used(B) : w.h[c] # 0 /\ c # p => B2[c] = B[c]
  BY <1>2, <1>4
<1>9. \A c \in Link \ Used(B) : B2[c] = B[c]
  BY <1>0, <1>4
<1>10. Tree(B2, MoveWitness(w, k, m)) /\ Used(B2) = Used(B)
  BY <1>0, <1>4, <1>6, <1>7, <1>8, <1>9, MoveTree DEF y
<1> QED  BY <1>10

(* balbk1: two leaves share their entries and the separator anew.          *)
LEMMA BalanceTree ==
  ASSUME KeysBounded, NEW B, Sound(B), NEW w, Tree(B, w),
         NEW p \in Used(B), w.h[p] # 0, NEW s \in 0 .. B[p].nkeys - 1,
         NEW l, l = B[p].lnk[s], NEW r, r = B[p].lnk[s + 1], w.h[l] = 0,
         NEW v, Joined(v, B[l], B[p].ent[s], B[r]),
         NEW x \in Block, NEW y \in Block, NEW e \in Entry, Joined(v, x, e, y),
         x.type = "inuse", y.type = "inuse", x.lnk = NoLinks, y.lnk = NoLinks,
         NEW B2, B2 \in [Link -> Block],
         B2[p] = RepKey(B[p], s, e, l, r), B2[l] = x, B2[r] = y,
         \A c \in Link \ {p, l, r} : B2[c] = B[c]
  PROVE  /\ Tree(B2, MoveWitness(w, KeyAt(B[p], s), e.key))
         /\ Used(B2) = Used(B)
         /\ p # l /\ p # r /\ l # r
         /\ l \in Used(B) /\ r \in Used(B)
<1> DEFINE e1 == B[p].ent[s]
           k == KeyAt(B[p], s)
           m == e.key
           q == B[p]
<1>1. /\ NodeOK(B, w, p) /\ w.h[p] \in Nat /\ w.lo[p] \in Int /\ w.hi[p] \in Int
      /\ q \in Block /\ q.nkeys \in Nat /\ p \in Link
      /\ Sorted(q) /\ Within(q, w.lo[p], w.hi[p])
      /\ s \in 0 .. q.nkeys /\ s + 1 \in 0 .. q.nkeys
      /\ s # q.nkeys /\ s + 1 # 0 /\ s + 1 - 1 = s
  BY UsedWitness, UsedBlock DEF NodeOK
<1>2. /\ Kid(B, w, l, w.h[p] - 1, From(q, w.lo[p], s), To(q, w.hi[p], s))
      /\ Kid(B, w, r, w.h[p] - 1, From(q, w.lo[p], s + 1),
             To(q, w.hi[p], s + 1))
  BY <1>1 DEF NodeOK
<1>3. e1 \in Entry /\ k \in Int /\ k = e1.key /\ m \in Int
  <2>1. e1 \in Entry /\ KeyAt(q, s) \in Int
    BY <1>1, BlockKeys
  <2> QED  BY <2>1, KeyConstants DEF KeyAt, Entry
<1>4. To(q, w.hi[p], s) = k /\ From(q, w.lo[p], s + 1) = k
  BY <1>1 DEF From, To
<1>5. /\ l \in Used(B) /\ r \in Used(B) /\ l # ROOT /\ r # ROOT
      /\ w.h[r] = 0 /\ w.hi[l] = k /\ w.lo[r] = k
      /\ w.lo[l] = From(q, w.lo[p], s) /\ w.hi[r] = To(q, w.hi[p], s + 1)
  BY <1>2, <1>4 DEF Kid
<1>6. \A a \in Used(B) :
         /\ a \in Link /\ NodeOK(B, w, a)
         /\ w.h[a] \in Nat /\ w.lo[a] \in Int /\ w.hi[a] \in Int
         /\ w.lo[a] < w.hi[a]
         /\ B[a] \in Block /\ B[a].nkeys \in Nat
         /\ Sorted(B[a]) /\ Within(B[a], w.lo[a], w.hi[a])
         /\ \A i \in 0 .. B[a].nkeys - 1 : KeyAt(B[a], i) \in Int
         /\ w.h[a] = 0 => B[a].lnk = NoLinks
         /\ a # ROOT => B[a].type = "inuse"
  BY UsedBlock, UsedWitness, SMTT(30) DEF NodeOK, Within
<1> HIDE DEF k, q, e1, m
<1>7. p # l /\ p # r /\ l # r
  BY <1>5, <1>6, SMTT(30)
<1>8. /\ Sorted(x) /\ Within(x, w.lo[l], m) /\ Sorted(y)
      /\ Within(y, m, w.hi[r])
      /\ w.lo[l] < m /\ m < w.hi[r]
  <2>1. PICK bl, br, a, z : bl = B[l] /\ br = B[r] /\ a = w.lo[l] /\ z = w.hi[r]
    OBVIOUS
  <2>2. /\ bl \in Block /\ br \in Block /\ a \in Int /\ z \in Int
        /\ Sorted(bl) /\ Sorted(br) /\ Within(bl, a, k) /\ Within(br, k, z)
    BY <1>5, <1>6, <2>1
  <2>3. Joined(v, bl, e1, br) /\ Joined(v, x, e, y) /\ m = e.key
    BY <2>1 DEF e1, q, m
  <2>4. Sorted(v) /\ Within(v, a, z)
    BY <1>3, <2>2, <2>3, JoinedOrder
  <2>5. Sorted(x) /\ Within(x, a, m) /\ Sorted(y) /\ Within(y, m, z)
    BY <1>3, <2>2, <2>3, <2>4, DividedOrder
  <2>6. a < m /\ m < z
    BY <2>5 DEF Within
  <2> QED  BY <2>1, <2>5, <2>6
<1>9. ASSUME NEW a \in Int, Clear(w, l, a), Clear(w, r, a) PROVE Side(a, k, m)
  BY <1>3, <1>5, <1>6, <1>8, <1>9, SMTT(30) DEF Clear, Side
<1>10. ASSUME NEW c \in Used(B)
       PROVE  /\ Side(w.lo[c], k, m) /\ Side(w.hi[c], k, m)
              /\ w.h[c] # 0 =>
                   \A i \in 0 .. B[c].nkeys - 1 : Side(KeyAt(B[c], i), k, m)
  <2>0. w.lo[l] < k /\ k < w.hi[r]
    BY <1>5, <1>6
  <2>1. CASE c = l
    BY <1>3, <1>5, <1>6, <1>9, <2>0, <2>1, SMTT(60) DEF Clear
  <2>2. CASE c = r
    BY <1>3, <1>5, <1>6, <1>9, <2>0, <2>2, SMTT(60) DEF Clear
  <2>3. CASE c # l /\ c # r
    <3>1. /\ Clear(w, l, w.lo[c]) /\ Clear(w, l, w.hi[c])
          /\ \A i \in 0 .. B[c].nkeys - 1 : Clear(w, l, KeyAt(B[c], i))
      BY <1>5, <1>6, <2>3, ValuesApart
    <3>2. /\ Clear(w, r, w.lo[c]) /\ Clear(w, r, w.hi[c])
          /\ \A i \in 0 .. B[c].nkeys - 1 : Clear(w, r, KeyAt(B[c], i))
      BY <1>5, <1>6, <2>3, ValuesApart, SMTT(30)
    <3> QED  BY <1>6, <1>9, <3>1, <3>2
  <2> QED  BY <2>1, <2>2, <2>3
<1>11. ASSUME NEW c \in Used(B), w.h[c] = 0
       PROVE  /\ B2[c].type = B[c].type /\ Sorted(B2[c]) /\ B2[c].lnk = NoLinks
              /\ Within(B2[c], Subst(w.lo[c], k, m), Subst(w.hi[c], k, m))
  <2>1. CASE c = l
    <3>1. Subst(w.lo[c], k, m) = w.lo[c] /\ Subst(w.hi[c], k, m) = m
      BY <1>5, <1>6, <2>1, SMTT(30) DEF Subst
    <3> QED  BY <1>5, <1>6, <1>8, <2>1, <3>1
  <2>2. CASE c = r
    <3>1. Subst(w.lo[c], k, m) = m /\ Subst(w.hi[c], k, m) = w.hi[c]
      BY <1>5, <1>6, <2>2, SMTT(30) DEF Subst
    <3> QED  BY <1>5, <1>6, <1>8, <2>2, <3>1
  <2>3. CASE c # l /\ c # r
    <3>1. B2[c] = B[c]
      <4>1. c # p /\ c \in Link
        BY <1>6, <1>11
      <4> QED  BY <2>3, <4>1
    <3>2. w.lo[c] # k /\ w.hi[c] # k
      <4>1. w.hi[c] <= w.lo[l] \/ w.hi[l] <= w.lo[c]
        BY <1>5, <1>11, <2>3 DEF Tree, Apart
      <4>2. w.hi[c] <= w.lo[r] \/ w.hi[r] <= w.lo[c]
        BY <1>5, <1>11, <2>3 DEF Tree, Apart
      <4>3. /\ w.lo[c] \in Int /\ w.hi[c] \in Int /\ w.lo[c] < w.hi[c]
            /\ w.lo[l] \in Int /\ w.hi[r] \in Int /\ w.lo[l] < k /\ k < w.hi[r]
        BY <1>5, <1>6
      <4> QED  BY <1>3, <1>5, <4>1, <4>2, <4>3
    <3> QED  BY <1>6, <1>11, <3>1, <3>2 DEF Subst
  <2> QED  BY <2>1, <2>2, <2>3
<1>12. \A c \in Used(B) : w.h[c] # 0 /\ c # p => B2[c] = B[c]
  BY <1>5, <1>6
<1>13. \A c \in Link \ Used(B) : B2[c] = B[c]
  BY <1>5
<1>14. B2[p] = RepKey(B[p], s, e, B[p].lnk[s], B[p].lnk[s + 1])
  OBVIOUS
<1>15. k = KeyAt(B[p], s) /\ m = e.key
  BY DEF k, m, q
<1>16. Tree(B2, MoveWitness(w, k, m)) /\ Used(B2) = Used(B)
  BY <1>10, <1>11, <1>12, <1>13, <1>14, <1>15, MoveTree
<1> QED  BY <1>5, <1>7, <1>16 DEF k, m, q

(* The witness after the root took over the keys of c.                     *)
ShrinkWitness(w, c) ==
  [h |-> [w.h EXCEPT ![ROOT] = w.h[c]], lo |-> w.lo, hi |-> w.hi]

(* bdemte at the root: its only child becomes the root.                    *)
LEMMA ShrinkTree ==
  ASSUME NEW B, Sound(B), NEW w, Tree(B, w),
         w.h[ROOT] # 0, B[ROOT].nkeys = 0, NEW c, c = B[ROOT].lnk[0],
         NEW B2, B2 \in [Link -> Block], B2[ROOT].type = "root",
         B2[ROOT].nkeys = B[c].nkeys,
         \A i \in 0 .. B[c].nkeys - 1 : B2[ROOT].ent[i] = B[c].ent[i],
         \A i \in 0 .. B[c].nkeys : B2[ROOT].lnk[i] = B[c].lnk[i],
         B[c].lnk = NoLinks => B2[ROOT].lnk = NoLinks,
         B2[c].type = "free", \A a \in Link \ {ROOT, c} : B2[a] = B[a]
  PROVE  /\ Tree(B2, ShrinkWitness(w, c)) /\ Used(B2) = Used(B) \ {c}
         /\ c # ROOT /\ c \in Used(B)
<1> DEFINE w2 == ShrinkWitness(w, c)
           h == w.h[ROOT]
           x == B2[ROOT]
<1>1. \A a \in Used(B) :
         /\ a \in Link /\ a \in TreeBlk /\ NodeOK(B, w, a)
         /\ w.h[a] \in Nat /\ w.lo[a] \in Int /\ w.hi[a] \in Int
         /\ w.lo[a] < w.hi[a] /\ w.h[a] <= h
         /\ Low <= w.lo[a] /\ w.hi[a] <= High
         /\ B[a] \in Block /\ B[a].nkeys \in Nat
         /\ Sorted(B[a]) /\ Within(B[a], w.lo[a], w.hi[a])
         /\ \A i \in 0 .. B[a].nkeys - 1 : KeyAt(B[a], i) \in Int
         /\ a # ROOT => B[a].type = "inuse" /\ w.h[a] < h
  BY UsedBlock, UsedWitness, SMTT(30) DEF NodeOK, Within
<1>2. /\ ROOT \in Used(B) /\ w.lo[ROOT] = Low /\ w.hi[ROOT] = High
      /\ Low \in Int /\ High \in Int
  <2>1. ROOT \in Used(B)
    BY DEF Used
  <2> QED  BY <2>1, UsedWitness DEF Tree
<1>3. Kid(B, w, c, h - 1, Low, High)
  <2>1. Kid(B, w, B[ROOT].lnk[0], h - 1, From(B[ROOT], Low, 0),
            To(B[ROOT], High, 0))
    BY <1>1, <1>2, SMTT(30) DEF NodeOK
  <2> QED  BY <2>1 DEF From, To
<1>4. /\ c \in Used(B) /\ c # ROOT /\ w.h[c] = h - 1 /\ w.lo[c] = Low
      /\ w.hi[c] = High
  BY <1>3 DEF Kid
<1>5. Used(B2) = Used(B) \ {c}
  <2>1. \A a \in Child : a # c => B2[a] = B[a]
    BY BlockNumbers DEF ChildOrNull
  <2> QED  BY <1>4, <2>1, SMTT(30) DEF Used
<1>6. /\ w2 \in Witness /\ w2.h[ROOT] = w.h[c] /\ w2.lo = w.lo /\ w2.hi = w.hi
      /\ \A a \in Used(B) : a # ROOT => w2.h[a] = w.h[a]
  BY <1>1, <1>2, <1>4 DEF ShrinkWitness, Witness, Tree
<1> HIDE DEF w2, h, x
<1>7. ASSUME NEW a \in Used(B), a # c, a # ROOT PROVE w.h[a] < w.h[c]
  <2>1. w.h[a] # w.h[c]
    <3>1. w.h[a] = w.h[c] => w.hi[a] <= w.lo[c] \/ w.hi[c] <= w.lo[a]
      BY <1>4, <1>7 DEF Tree, Apart
    <3> QED  BY <1>1, <1>2, <1>4, <1>7, <3>1, SMTT(30)
  <2>2. w.h[a] < h /\ w.h[a] \in Nat /\ w.h[c] \in Nat /\ h \in Nat
    BY <1>1, <1>2, <1>4, <1>7 DEF h
  <2> QED  BY <1>4, <2>1, <2>2, SMTT(30)
<1>8. ASSUME NEW a \in Used(B), a # ROOT, w.h[a] # 0, NEW j \in 0 .. B[a].nkeys
      PROVE  Kid(B2, w2, B[a].lnk[j], w.h[a] - 1,
                 From(B[a], w.lo[a], j), To(B[a], w.hi[a], j))
  <2>1. Kid(B, w, B[a].lnk[j], w.h[a] - 1,
            From(B[a], w.lo[a], j), To(B[a], w.hi[a], j))
    BY <1>1, <1>8 DEF NodeOK
  <2>2. B[a].lnk[j] # c
    <3>1. w.h[B[a].lnk[j]] = w.h[a] - 1
      BY <2>1 DEF Kid
    <3>2. w.h[a] <= w.h[c] /\ w.h[a] \in Nat /\ w.h[c] \in Nat
      BY <1>1, <1>4, <1>7, <1>8, SMTT(30)
    <3> QED  BY <3>1, <3>2, SMTT(30)
  <2> QED  BY <1>5, <1>6, <2>1, <2>2 DEF Kid
<1>9. ASSUME NEW a \in Used(B), a # ROOT, a # c PROVE NodeOK(B2, w2, a)
  <2>1. B2[a] = B[a]
    BY <1>1, <1>9
  <2>2. w2.h[a] < w2.h[ROOT]
    BY <1>6, <1>7, <1>9
  <2> QED  BY <1>1, <1>6, <1>8, <1>9, <2>1, <2>2, SMTT(60) DEF NodeOK
<1>10. \A i \in 0 .. B[c].nkeys - 1 : KeyAt(x, i) = KeyAt(B[c], i)
  BY DEF KeyAt, x
<1>11. NodeOK(B2, w2, ROOT)
  <2>1. /\ Sorted(B[c]) /\ Within(B[c], Low, High) /\ B[c].nkeys \in Nat
        /\ w.h[c] = 0 => B[c].lnk = NoLinks
    BY <1>1, <1>4 DEF NodeOK
  <2>2. Sorted(x) /\ Within(x, Low, High)
    BY <1>10, <2>1, SMTT(60) DEF Sorted, Within, x
  <2>3. ASSUME w.h[c] # 0, NEW i \in 0 .. x.nkeys
        PROVE  Kid(B2, w2, x.lnk[i], w.h[c] - 1, From(x, Low, i),
                   To(x, High, i))
    <3>1. /\ From(x, Low, i) = From(B[c], Low, i)
          /\ To(x, High, i) = To(B[c], High, i)
          /\ i \in 0 .. B[c].nkeys /\ x.lnk[i] = B[c].lnk[i]
      BY <1>10, <2>1, <2>3, SMTT(60) DEF From, To, x
    <3> QED  BY <1>4, <1>8, <2>3, <3>1
  <2> QED  BY <1>2, <1>6, <2>1, <2>2, <2>3, SMTT(60) DEF NodeOK, x
<1>12. Apart(B2, w2)
  <2>1. ASSUME NEW a \in Used(B2), NEW b \in Used(B2), a # b, w2.h[a] = w2.h[b]
        PROVE  w2.hi[a] <= w2.lo[b] \/ w2.hi[b] <= w2.lo[a]
    <3>1. a # ROOT /\ b # ROOT
      BY <1>1, <1>4, <1>5, <1>6, <1>7, <2>1, SMTT(30)
    <3> QED  BY <1>5, <1>6, <2>1, <3>1, SMTT(30) DEF Tree, Apart
  <2>2. ASSUME NEW a \in Used(B2), NEW b \in Used(B2), w2.h[a] < w2.h[b]
        PROVE  /\ Clear(w2, a, w2.lo[b]) /\ Clear(w2, a, w2.hi[b])
               /\ \A i \in 0 .. B2[b].nkeys - 1 : Clear(w2, a, KeyAt(B2[b], i))
    <3>1. a # ROOT /\ a # c /\ a \in Used(B) /\ w2.h[a] = w.h[a]
      BY <1>1, <1>4, <1>5, <1>6, <1>7, <2>2, SMTT(30)
    <3>2. \A v : Clear(w, a, v) => Clear(w2, a, v)
      BY <1>6 DEF Clear
    <3>3. CASE b = ROOT
      <4>1. w.h[a] < w.h[c]
        BY <1>7, <3>1
      <4>2. \A i \in 0 .. B[c].nkeys - 1 : Clear(w, a, KeyAt(B[c], i))
        BY <1>4, <3>1, <4>1 DEF Tree, Apart
      <4>3. Clear(w, a, Low) /\ Clear(w, a, High)
        BY <1>4, <3>1, <4>1 DEF Tree, Apart
      <4> QED  BY <1>2, <1>6, <1>10, <3>2, <3>3, <4>2, <4>3, SMTT(30) DEF x
    <3>4. CASE b # ROOT
      <4>1. b \in Used(B) /\ b # c /\ B2[b] = B[b] /\ w.h[a] < w.h[b]
        BY <1>1, <1>5, <1>6, <2>2, <3>1, <3>4
      <4>2. /\ Clear(w, a, w.lo[b]) /\ Clear(w, a, w.hi[b])
            /\ \A i \in 0 .. B[b].nkeys - 1 : Clear(w, a, KeyAt(B[b], i))
        BY <3>1, <4>1 DEF Tree, Apart
      <4> QED  BY <1>6, <3>2, <4>1, <4>2
    <3> QED  BY <3>3, <3>4
  <2> QED  BY <2>1, <2>2 DEF Apart
<1>13. Tree(B2, w2)
  BY <1>2, <1>5, <1>6, <1>9, <1>11, <1>12 DEF Tree
<1> QED  BY <1>4, <1>5, <1>13 DEF w2

(* The free list: a block is taken from it, or the file grows.             *)
LEMMA TakeFile ==
  ASSUME NEW B, Sound(B), NEW s, SuperOK(s), NEW f, FreeIs(B, s, f),
         \A a \in Used(B) : a < s.blkmx,
         NEW b, b = GetFree(s, B), b # ZNULL, NEW t, t = Taken(s, B)
  PROVE  /\ b \in Child /\ b \notin Used(B) /\ b < t.blkmx
         /\ SuperOK(t) /\ s.blkmx <= t.blkmx
         /\ \E g : /\ FreeIs(B, t, g) /\ \A i \in 1 .. t.nfree : g[i] # b
                   /\ \A i \in 1 .. t.nfree :
                        \E j \in 1 .. s.nfree : g[i] = f[j]
<1>1. /\ b \in Child /\ SuperOK(t)
      /\ s.nfree \in Nat /\ s.blkmx \in Nat /\ b \in Int
  <2>1. b \in ChildOrNull /\ SuperOK(t)
    BY GetFreeSound
  <2>2. b \in Child
    BY <2>1 DEF ChildOrNull
  <2> QED  BY <2>1, <2>2, BlockConstants DEF SuperOK, FreeIs, Child
<1>2. CASE s.freep # ZNULL
  <2>1. s.nfree # 0 /\ s.freep = f[1] /\ 1 \in 1 .. s.nfree
    BY <1>1, <1>2 DEF FreeIs
  <2>2. b = f[1] /\ B[b].type = "free" /\ b < s.blkmx
    BY <1>2, <2>1 DEF GetFree, FreeIs
  <2>3. t = [s EXCEPT !.freep = B[b].nxt, !.nfree = s.nfree - 1]
    BY <1>2, <2>1, <2>2 DEF Taken
  <2>4. t.nfree = s.nfree - 1 /\ t.freep = B[b].nxt /\ t.blkmx = s.blkmx
    BY <2>3 DEF SuperOK
  <2> DEFINE g == [i \in 1 .. t.nfree |-> f[i + 1]]
  <2>5. \A i \in 1 .. t.nfree :
          /\ i + 1 \in 1 .. s.nfree /\ g[i] = f[i + 1] /\ i + 1 # 1
          /\ i = t.nfree <=> i + 1 = s.nfree
    BY <1>1, <2>4
  <2>6. \A i \in 1 .. t.nfree : g[i] # b
    BY <2>1, <2>2, <2>5 DEF FreeIs
  <2>7. FreeIs(B, t, g)
    <3>1. t.nfree \in Nat /\ g \in [1 .. t.nfree -> Child]
      BY <1>1, <2>1, <2>4, <2>5 DEF FreeIs
    <3>2. \A i, j \in 1 .. t.nfree : g[i] = g[j] => i = j
      <4> TAKE i, j \in 1 .. t.nfree
      <4>1. f[i + 1] = f[j + 1] => i + 1 = j + 1
        BY <2>5 DEF FreeIs
      <4> QED  BY <2>5, <4>1
    <3>3. t.freep = IF t.nfree = 0 THEN ZNULL ELSE g[1]
      <4>1. B[b].nxt = IF 1 = s.nfree THEN ZNULL ELSE f[1 + 1]
        BY <2>1, <2>2 DEF FreeIs
      <4> QED  BY <1>1, <2>1, <2>4, <4>1
    <3>4. \A i \in 1 .. t.nfree :
            /\ B[g[i]].type = "free" /\ g[i] < t.blkmx
            /\ B[g[i]].nxt = IF i = t.nfree THEN ZNULL ELSE g[i + 1]
      <4> TAKE i \in 1 .. t.nfree
      <4>1. /\ B[f[i + 1]].type = "free" /\ f[i + 1] < s.blkmx
            /\ B[f[i + 1]].nxt = IF i + 1 = s.nfree THEN ZNULL ELSE f[i + 1 + 1]
        BY <2>5 DEF FreeIs
      <4>2. i # t.nfree => g[i + 1] = f[i + 1 + 1]
        BY <1>1, <2>4
      <4> QED  BY <2>4, <2>5, <4>1, <4>2
    <3> HIDE DEF g
    <3> QED  BY <3>1, <3>2, <3>3, <3>4 DEF FreeIs
  <2>8. b \notin Used(B)
    BY <1>1, <2>2, BlockNumbers DEF Used, ChildOrNull
  <2> HIDE DEF g
  <2>9. \A i \in 1 .. t.nfree : \E j \in 1 .. s.nfree : g[i] = f[j]
    BY <2>5
  <2> QED  BY <1>1, <2>2, <2>4, <2>6, <2>7, <2>8, <2>9
<1>3. CASE s.freep = ZNULL
  <2>1. b = s.blkmx /\ t = [s EXCEPT !.blkmx = s.blkmx + 1]
    BY <1>3 DEF GetFree, Taken
  <2>2. t.nfree = s.nfree /\ t.freep = ZNULL /\ t.blkmx = s.blkmx + 1
    BY <1>3, <2>1 DEF SuperOK
  <2>3. s.nfree = 0
    <3>1. s.nfree # 0 => f[1] = ZNULL /\ f[1] \in Child
      BY <1>1, <1>3 DEF FreeIs
    <3> QED  BY <3>1, BlockNumbers
  <2>4. FreeIs(B, t, f)
    BY <1>1, <2>2, <2>3 DEF FreeIs
  <2>5. b \notin Used(B)
    BY <1>1, <2>1
  <2>6. \A i \in 1 .. t.nfree : f[i] # b /\ \E j \in 1 .. s.nfree : f[i] = f[j]
    BY <2>2, <2>3
  <2> QED  BY <1>1, <2>1, <2>2, <2>4, <2>5, <2>6
<1> QED  BY <1>2, <1>3

(* The free list depends on its own blocks only.                           *)
LEMMA KeepFile ==
  ASSUME NEW B, NEW s, NEW f, FreeIs(B, s, f),
         NEW B2, \A i \in 1 .. s.nfree : B2[f[i]] = B[f[i]]
  PROVE  FreeIs(B2, s, f)
  BY DEF FreeIs

(* A block is put on the free list.                                        *)
LEMMA GiveFile ==
  ASSUME NEW B, NEW s, SuperOK(s), NEW f, FreeIs(B, s, f),
         NEW r \in Child, r < s.blkmx, \A i \in 1 .. s.nfree : f[i] # r,
         NEW B2, B2 = FreeBlock(s, B, r), B \in [Link -> Block]
  PROVE  \E g : FreeIs(B2, FreeSuper(s, r), g)
<1> DEFINE t == FreeSuper(s, r)
           g == [i \in 1 .. s.nfree + 1 |-> IF i = 1 THEN r ELSE f[i - 1]]
<1>1. t.nfree = s.nfree + 1 /\ t.freep = r /\ t.blkmx = s.blkmx
  BY DEF FreeSuper, SuperOK
<1>2. /\ r \in Link /\ B2[r].type = "free" /\ B2[r].nxt = s.freep
      /\ \A c \in Link : c # r => B2[c] = B[c]
  BY BlockNumbers DEF FreeBlock, FreshBlock
<1>3. s.nfree \in Nat /\ f \in [1 .. s.nfree -> Child]
  BY DEF FreeIs
<1>4. /\ \A i \in 1 .. s.nfree + 1 : i # 1 =>
           i - 1 \in 1 .. s.nfree /\ g[i] = f[i - 1]
      /\ g[1] = r /\ g \in [1 .. s.nfree + 1 -> Child]
  BY <1>3
<1> HIDE DEF g, t
<1>5. \A i, j \in 1 .. s.nfree + 1 : g[i] = g[j] => i = j
  <2> TAKE i, j \in 1 .. s.nfree + 1
  <2>1. CASE i = 1 \/ j = 1
    BY <1>4, <2>1
  <2>2. CASE i # 1 /\ j # 1
    <3>1. f[i - 1] = f[j - 1] => i - 1 = j - 1
      BY <1>4, <2>2 DEF FreeIs
    <3> QED  BY <1>4, <2>2, <3>1
  <2> QED  BY <2>1, <2>2
<1>6. ASSUME NEW i \in 1 .. s.nfree + 1
      PROVE  /\ B2[g[i]].type = "free" /\ g[i] < s.blkmx
             /\ B2[g[i]].nxt = IF i = s.nfree + 1 THEN ZNULL ELSE g[i + 1]
  <2>1. CASE i = 1
    <3>1. s.freep = IF s.nfree = 0 THEN ZNULL ELSE f[1]
      BY DEF FreeIs
    <3>2. s.nfree # 0 => g[2] = f[1]
      <4>1. s.nfree # 0 => 2 \in 1 .. s.nfree + 1 /\ 2 # 1 /\ 2 - 1 = 1
        BY <1>3
      <4> QED  BY <1>4, <4>1
    <3> QED  BY <1>2, <1>3, <1>4, <2>1, <3>1, <3>2
  <2>2. CASE i # 1
    <3>1. PICK j \in 1 .. s.nfree : j = i - 1 /\ g[i] = f[j]
      BY <1>4, <2>2
    <3>2. /\ B[f[j]].type = "free" /\ f[j] < s.blkmx
          /\ B[f[j]].nxt = IF j = s.nfree THEN ZNULL ELSE f[j + 1]
          /\ f[j] # r /\ f[j] \in Link
      BY <1>3, BlockNumbers DEF FreeIs
    <3>3. B2[f[j]] = B[f[j]]
      BY <1>2, <3>2
    <3>4. j # s.nfree => g[i + 1] = f[j + 1]
      <4>1. j # s.nfree =>
              i + 1 \in 1 .. s.nfree + 1 /\ i + 1 # 1 /\ i + 1 - 1 = j + 1
        BY <1>3, <3>1
      <4> QED  BY <1>4, <4>1
    <3> QED  BY <1>3, <3>1, <3>2, <3>3, <3>4
  <2> QED  BY <2>1, <2>2
<1>7. FreeIs(B2, t, g)
  BY <1>1, <1>3, <1>4, <1>5, <1>6 DEF FreeIs
<1> QED  BY <1>7 DEF t

(* No write but that of bmkfre touches the free list.                      *)
LEMMA SameFile ==
  ASSUME NEW B, B \in [Link -> Block], NEW s, FileOK(B, s),
         NEW B2, \A a \in Link : B[a].type = "free" => B2[a] = B[a],
         Used(B2) \subseteq Used(B)
  PROVE  FileOK(B2, s)
<1>1. PICK f : FreeIs(B, s, f)
  BY DEF FileOK
<1>2. \A i \in 1 .. s.nfree : B2[f[i]] = B[f[i]]
  BY <1>1, BlockNumbers DEF FreeIs
<1>3. FreeIs(B2, s, f)
  BY <1>1, <1>2, KeepFile
<1> QED  BY <1>3 DEF FileOK

(* A block of the tree is freed.                                           *)
LEMMA FreeFile ==
  ASSUME NEW B, B \in [Link -> Block], NEW s, SuperOK(s), FileOK(B, s),
         NEW r \in Child, r \in Used(B),
         NEW B1, B1 \in [Link -> Block],
         \A a \in Link : B[a].type = "free" => B1[a] = B[a],
         NEW B2, B2 = FreeBlock(s, B1, r), Used(B2) \subseteq Used(B)
  PROVE  FileOK(B2, FreeSuper(s, r))
<1>1. PICK f : FreeIs(B, s, f)
  BY DEF FileOK
<1>2. \A i \in 1 .. s.nfree : B1[f[i]] = B[f[i]] /\ f[i] # r
  BY <1>1, BlockNumbers DEF FreeIs, Used, ChildOrNull
<1>3. FreeIs(B1, s, f)
  BY <1>1, <1>2, KeepFile
<1>4. r < s.blkmx
  BY DEF FileOK
<1>5. PICK g : FreeIs(B2, FreeSuper(s, r), g)
  BY <1>2, <1>3, <1>4, GiveFile
<1>6. FreeSuper(s, r).blkmx = s.blkmx
  BY DEF FreeSuper, SuperOK
<1> QED  BY <1>5, <1>6 DEF FileOK

(* A block is taken for the tree, or lost.                                 *)
LEMMA TakenFile ==
  ASSUME NEW B, Sound(B), NEW s, SuperOK(s), FileOK(B, s),
         NEW b, b = GetFree(s, B), b # ZNULL, NEW t, t = Taken(s, B),
         NEW B2, \A a \in Link : B[a].type = "free" /\ a # b => B2[a] = B[a],
         Used(B2) \subseteq Used(B) \cup {b}
  PROVE  FileOK(B2, t) /\ b \in Child /\ b \notin Used(B) /\ SuperOK(t)
<1>1. PICK f : FreeIs(B, s, f)
  BY DEF FileOK
<1>2. /\ b \in Child /\ b \notin Used(B) /\ b < t.blkmx
      /\ SuperOK(t) /\ s.blkmx <= t.blkmx
      /\ \E g : FreeIs(B, t, g) /\ \A i \in 1 .. t.nfree : g[i] # b
  BY <1>1, TakeFile DEF FileOK
<1>3. PICK g : FreeIs(B, t, g) /\ \A i \in 1 .. t.nfree : g[i] # b
  BY <1>2
<1>4. \A i \in 1 .. t.nfree : B2[g[i]] = B[g[i]]
  BY <1>3, BlockNumbers DEF FreeIs
<1>5. FreeIs(B2, t, g)
  BY <1>3, <1>4, KeepFile
<1>6. \A a \in Used(B2) : a < t.blkmx
  <2>1. s.blkmx \in Int /\ t.blkmx \in Int /\ \A a \in Used(B) : a \in Int
    BY <1>2, UsedBlock DEF SuperOK
  <2> QED  BY <1>2, <2>1 DEF FileOK
<1> QED  BY <1>2, <1>5, <1>6 DEF FileOK

(* Two blocks are taken for the halves of the root.                        *)
LEMMA TwoTakenFile ==
  ASSUME NEW B, Sound(B), NEW s, SuperOK(s), FileOK(B, s),
         NEW b1, b1 = GetFree(s, B), b1 # ZNULL, NEW s1, s1 = Taken(s, B),
         NEW b2, b2 = GetFree(s1, B), b2 # ZNULL, NEW t, t = Taken(s1, B),
         NEW B2, \A a \in Link : B[a].type = "free" /\ a # b1 /\ a # b2 =>
                   B2[a] = B[a],
         Used(B2) \subseteq Used(B) \cup {b1, b2}
  PROVE  /\ FileOK(B2, t) /\ b1 \in Child /\ b1 \notin Used(B)
         /\ b2 \in Child /\ b2 \notin Used(B) /\ b1 # b2
<1>1. PICK f : FreeIs(B, s, f)
  BY DEF FileOK
<1>2. /\ b1 \in Child /\ b1 \notin Used(B) /\ b1 < s1.blkmx
      /\ SuperOK(s1) /\ s.blkmx <= s1.blkmx
      /\ \E g : FreeIs(B, s1, g) /\ \A i \in 1 .. s1.nfree : g[i] # b1
  BY <1>1, TakeFile DEF FileOK
<1>3. PICK g : FreeIs(B, s1, g) /\ \A i \in 1 .. s1.nfree : g[i] # b1
  BY <1>2
<1>4. s.blkmx \in Int /\ s1.blkmx \in Int /\ \A a \in Used(B) : a \in Int
  BY <1>2, UsedBlock DEF SuperOK
<1>5. \A a \in Used(B) : a < s1.blkmx
  BY <1>2, <1>4 DEF FileOK
<1>6. /\ b2 \in Child /\ b2 \notin Used(B) /\ b2 < t.blkmx
      /\ SuperOK(t) /\ s1.blkmx <= t.blkmx
      /\ \E d : /\ FreeIs(B, t, d) /\ \A i \in 1 .. t.nfree : d[i] # b2
                /\ \A i \in 1 .. t.nfree :
                     \E j \in 1 .. s1.nfree : d[i] = g[j]
  BY <1>2, <1>3, <1>5, TakeFile
<1>7. PICK d : /\ FreeIs(B, t, d) /\ \A i \in 1 .. t.nfree : d[i] # b2
               /\ \A i \in 1 .. t.nfree :
                     \E j \in 1 .. s1.nfree : d[i] = g[j]
  BY <1>6
<1>8. b1 # b2
  <2>1. CASE s1.freep # ZNULL
    <3>1. b2 = s1.freep
      BY <2>1 DEF GetFree
    <3>2. s1.nfree # 0 /\ s1.nfree \in Nat /\ s1.freep = g[1]
      BY <1>3, <2>1 DEF FreeIs
    <3> QED  BY <1>3, <3>1, <3>2
  <2>2. CASE s1.freep = ZNULL
    <3>1. b2 = s1.blkmx
      BY <2>2 DEF GetFree
    <3> QED  BY <1>2, <1>4, <3>1
  <2> QED  BY <2>1, <2>2
<1>9. \A i \in 1 .. t.nfree : B2[d[i]] = B[d[i]]
  BY <1>3, <1>7, BlockNumbers DEF FreeIs
<1>10. FreeIs(B2, t, d)
  BY <1>7, <1>9, KeepFile
<1>11. \A a \in Used(B2) : a < t.blkmx
  <2>1. t.blkmx \in Int /\ b1 \in Int
    BY <1>2, <1>6, BlockNumbers DEF SuperOK, Child
  <2> QED  BY <1>2, <1>4, <1>5, <1>6, <2>1
<1> QED  BY <1>2, <1>6, <1>8, <1>10, <1>11 DEF FileOK

----------------------------------------------------------------------------
(* The path from the root.                                                 *)

(* Block c is the root, or the child at the position of the last find.     *)
GoesTo(B, w, S, f, c) ==
  /\ f.blk = ZNULL <=> S = <<>>
  /\ f.blk = ZNULL => c = ROOT
  /\ f.blk # ZNULL => /\ w.h[f.blk] # 0 /\ f.pos \in 0 .. B[f.blk].nkeys
                      /\ c = B[f.blk].lnk[f.pos]

(* The stack grows with the block and the position of the last find.       *)
Grown(S, f, S2) ==
  \E fr \in Frame : fr = [blk |-> f.blk, pos |-> f.pos] /\ S2 = Append(S, fr)

(* A push makes the path one block longer.                                 *)
LEMMA PathPush ==
  ASSUME NEW B, NEW w, Tree(B, w), w.h[ROOT] \in Nat,
         NEW S \in Seq(Frame), NEW f, PathOK(B, w, S, f),
         NEW c, GoesTo(B, w, S, f, c), NEW S2, Grown(S, f, S2),
         NEW f2, f2.blk = c
  PROVE  /\ PathOK(B, w, S2, f2) /\ Len(S2) = Len(S) + 1
         /\ c \in Used(B) /\ w.h[c] = w.h[ROOT] - Len(S)
         /\ Passed(S2, f2) \subseteq Passed(S, f) \cup {c}
<1>. PICK fr \in Frame : /\ fr = [blk |-> f.blk, pos |-> f.pos]
                         /\ S2 = Append(S, fr)
  BY DEF Grown
<1>0. /\ f.blk = ZNULL <=> S = <<>>
      /\ f.blk = ZNULL => c = ROOT
      /\ f.blk # ZNULL => /\ w.h[f.blk] # 0 /\ f.pos \in 0 .. B[f.blk].nkeys
                          /\ c = B[f.blk].lnk[f.pos]
  BY DEF GoesTo
<1>1. PICK n \in Nat : n = Len(S)
  OBVIOUS
<1>2. /\ Len(S2) = n + 1 /\ \A i \in 1 .. n : S2[i] = S[i]
      /\ S2[n + 1] = fr
  BY <1>1
<1>3. CASE f.blk = ZNULL
  <2>1. n = 0
    BY <1>0, <1>1, <1>3
  <2>2. c = ROOT /\ ROOT \in Used(B) /\ ROOT # ZNULL
    BY <1>0, <1>3, BlockNumbers DEF Used
  <2>3. PathOK(B, w, S2, f2)
    BY <1>2, <2>1, <2>2 DEF PathOK
  <2> QED  BY <1>1, <1>2, <2>1, <2>2, <2>3 DEF Passed
<1>4. CASE f.blk # ZNULL
  <2>1. n >= 1
    BY <1>0, <1>1, <1>4
  <2>2. f.blk \in Used(B) /\ w.h[f.blk] = w.h[ROOT] - (n - 1)
    BY <1>1, <1>4 DEF PathOK
  <2>3. Kid(B, w, c, w.h[f.blk] - 1, From(B[f.blk], w.lo[f.blk], f.pos),
            To(B[f.blk], w.hi[f.blk], f.pos))
    BY <1>0, <1>4, <2>2 DEF Tree, NodeOK
  <2>4. c \in Used(B) /\ w.h[c] = w.h[ROOT] - n
    <3>1. c \in Used(B) /\ w.h[c] = w.h[f.blk] - 1
      BY <2>3 DEF Kid
    <3>2. PICK a, b, d : a = w.h[c] /\ b = w.h[f.blk] /\ d = w.h[ROOT]
      OBVIOUS
    <3>3. d \in Nat /\ b = d - (n - 1) /\ a = b - 1
      BY <2>2, <3>1, <3>2
    <3>4. a = d - n
      BY <3>3
    <3> QED  BY <3>1, <3>2, <3>4
  <2>5. S2[n + 1].blk = f.blk /\ S2[n + 1].pos = f.pos
    BY <1>2
  <2>6. ASSUME NEW i \in 2 .. n + 1
        PROVE  /\ S2[i].blk \in Used(B) /\ w.h[S2[i].blk] = w.h[ROOT] - (i - 2)
               /\ w.h[S2[i].blk] # 0
               /\ S2[i].pos \in 0 .. B[S2[i].blk].nkeys
               /\ B[S2[i].blk].lnk[S2[i].pos] =
                    IF i = n + 1 THEN c ELSE S2[i + 1].blk
    <3>1. CASE i = n + 1
      <4>1. n - 1 = i - 2
        BY <3>1
      <4> QED  BY <1>0, <1>4, <2>2, <2>5, <3>1, <4>1
    <3>2. CASE i # n + 1
      <4>1. i \in 2 .. n /\ i \in 1 .. n /\ S2[i] = S[i]
        BY <1>2, <3>2
      <4>2. S2[i + 1].blk = IF i = n THEN f.blk ELSE S[i + 1].blk
        <5>1. CASE i = n
          BY <2>5, <5>1
        <5>2. CASE i # n
          <6>1. i + 1 \in 1 .. n
            BY <4>1, <5>2
          <6> QED  BY <1>2, <5>2, <6>1
        <5> QED  BY <5>1, <5>2
      <4> QED  BY <1>1, <3>2, <4>1, <4>2 DEF PathOK
    <3> QED  BY <3>1, <3>2
  <2>7. PathOK(B, w, S2, f2)
    <3>1. /\ (n + 1) - 1 = n /\ Len(S2) = n + 1 /\ f2.blk = c
          /\ c \in Used(B) /\ w.h[c] = w.h[ROOT] - n
      BY <1>2, <2>4
    <3>2. w.h[f2.blk] = w.h[ROOT] - (Len(S2) - 1) /\ f2.blk \in Used(B)
      BY <3>1
    <3>3. \A i \in 2 .. Len(S2) :
            /\ S2[i].blk \in Used(B) /\ w.h[S2[i].blk] = w.h[ROOT] - (i - 2)
            /\ w.h[S2[i].blk] # 0
            /\ S2[i].pos \in 0 .. B[S2[i].blk].nkeys
            /\ B[S2[i].blk].lnk[S2[i].pos] =
                 IF i = Len(S2) THEN f2.blk ELSE S2[i + 1].blk
      BY <2>6, <3>1, ZenonT(40)
    <3> QED  BY <3>2, <3>3 DEF PathOK
  <2>8. Passed(S2, f2) \subseteq Passed(S, f) \cup {c}
    <3>1. ASSUME NEW i \in 2 .. n + 1 PROVE S2[i].blk \in Passed(S, f)
      BY <1>1, <1>2, <1>4, <2>5 DEF Passed
    <3> QED  BY <1>2, <3>1, SMTT(30) DEF Passed
  <2> QED  BY <1>1, <1>2, <2>4, <2>7, <2>8
<1> QED  BY <1>3, <1>4

(* ... and shrinks by a parent.                                            *)
Shrunk(S, S2, f2) ==
  /\ S \in Seq(Frame) /\ Len(S) >= 2
  /\ S2 = SubSeq(S, 1, Len(S) - 1)
  /\ f2.blk = S[Len(S)].blk /\ f2.pos = S[Len(S)].pos

(* Last find f2 is at the parent of the block of f, at the link to it.     *)
AtParent(B, w, S, f, f2) ==
  /\ f2.blk \in Used(B) /\ w.h[f2.blk] # 0
  /\ f2.pos \in 0 .. B[f2.blk].nkeys /\ B[f2.blk].lnk[f2.pos] = f.blk
  /\ w.h[f2.blk] = w.h[ROOT] - (Len(S) - 2)

(* A pull makes the path one block shorter.                                *)
LEMMA PathPop ==
  ASSUME NEW B, NEW w, w.h[ROOT] \in Nat,
         NEW S, NEW f, PathOK(B, w, S, f), NEW S2, NEW f2, Shrunk(S, S2, f2)
  PROVE  /\ PathOK(B, w, S2, f2) /\ AtParent(B, w, S, f, f2)
         /\ Passed(S2, f2) \subseteq Passed(S, f)
<1>0. PICK t : t = S[Len(S)] /\ f2.blk = t.blk /\ f2.pos = t.pos
  BY DEF Shrunk
<1>1. PICK n \in Nat : n = Len(S) - 1 /\ n >= 1 /\ Len(S) = n + 1
  BY DEF Shrunk
<1>2. Len(S2) = n /\ \A i \in 1 .. n : S2[i] = S[i]
  BY <1>1 DEF Shrunk
<1>3. n + 1 \in 2 .. Len(S) /\ t = S[n + 1]
  BY <1>0, <1>1
<1>4. /\ t.blk \in Used(B) /\ w.h[t.blk] # 0
      /\ t.pos \in 0 .. B[t.blk].nkeys /\ B[t.blk].lnk[t.pos] = f.blk
      /\ w.h[t.blk] = w.h[ROOT] - (n - 1)
  BY <1>1, <1>3 DEF PathOK
<1>5. ASSUME NEW i \in 2 .. n
      PROVE  /\ S2[i].blk \in Used(B) /\ w.h[S2[i].blk] = w.h[ROOT] - (i - 2)
             /\ w.h[S2[i].blk] # 0
             /\ S2[i].pos \in 0 .. B[S2[i].blk].nkeys
             /\ B[S2[i].blk].lnk[S2[i].pos] =
                  IF i = n THEN t.blk ELSE S2[i + 1].blk
  <2>1. i \in 2 .. Len(S) /\ i # Len(S) /\ S2[i] = S[i]
    BY <1>1, <1>2
  <2>2. S[i + 1].blk = IF i = n THEN t.blk ELSE S2[i + 1].blk
    BY <1>0, <1>2, <1>3
  <2> QED  BY <2>1, <2>2 DEF PathOK
<1>6. PathOK(B, w, S2, f2)
  BY <1>0, <1>2, <1>4, <1>5 DEF PathOK
<1>7. Passed(S2, f2) \subseteq Passed(S, f)
  BY <1>0, <1>1, <1>2, <1>3 DEF Passed
<1>8. AtParent(B, w, S, f, f2)
  BY <1>0, <1>1, <1>4 DEF AtParent
<1> QED  BY <1>6, <1>7, <1>8

(* The blocks on the stack are higher than the block of the last find.     *)
LEMMA PathAbove ==
  ASSUME NEW B, NEW w, w.h[ROOT] \in Nat,
         NEW S \in Seq(Frame), NEW f, PathOK(B, w, S, f), f.blk # ZNULL,
         w.h[f.blk] \in Nat, NEW i \in 2 .. Len(S)
  PROVE  /\ w.h[f.blk] < w.h[S[i].blk] /\ S[i].blk # f.blk
         /\ S[i].blk \in Used(B)
<1>1. /\ w.h[f.blk] = w.h[ROOT] - (Len(S) - 1) /\ S[i].blk \in Used(B)
      /\ w.h[S[i].blk] = w.h[ROOT] - (i - 2)
  BY DEF PathOK
<1>2. PICK n, h, x, y : /\ n = Len(S) /\ h = w.h[ROOT]
                        /\ x = w.h[f.blk] /\ y = w.h[S[i].blk]
  OBVIOUS
<1>3. n \in Nat /\ h \in Nat /\ x \in Nat /\ i \in 2 .. n
  BY <1>2
<1>4. x = h - (n - 1) /\ y = h - (i - 2)
  BY <1>1, <1>2
<1>5. x < y
  BY <1>3, <1>4
<1>6. S[i].blk # f.blk
  BY <1>2, <1>3, <1>5
<1> QED  BY <1>1, <1>2, <1>5, <1>6

(* A path survives a change of blocks that are not on it.                  *)
LEMMA PathKept ==
  ASSUME NEW B, NEW w, NEW B2, NEW w2, NEW S \in Seq(Frame), NEW f,
         PathOK(B, w, S, f), w2.h[ROOT] = w.h[ROOT],
         f.blk # ZNULL => f.blk \in Used(B2) /\ w2.h[f.blk] = w.h[f.blk],
         \A i \in 2 .. Len(S) :
           /\ S[i].blk \in Used(B2) /\ w2.h[S[i].blk] = w.h[S[i].blk]
           /\ B2[S[i].blk].nkeys = B[S[i].blk].nkeys
           /\ B2[S[i].blk].lnk = B[S[i].blk].lnk
  PROVE  PathOK(B2, w2, S, f)
BY SMTT(30) DEF PathOK
===============================================================================
