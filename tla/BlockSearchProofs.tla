------------------------- MODULE BlockSearchProofs -------------------------
(***************************************************************************)
(* The binary search of bsrhbk is right on every sorted block, whatever    *)
(* the block size and the set of keys.  What the search has excluded is    *)
(* the argument: the keys before lo are smaller than the one searched for, *)
(* the keys after hi are larger, and lo and hi never pass each other by    *)
(* more than one.                                                          *)
(***************************************************************************)
EXTENDS BlockSearch, FiniteSetTheorems, TLAPS

(* What the search needs to know of the array it reads.                    *)
LEMMA ArrayFacts ==
  ASSUME NEW b \in KeyArray
  PROVE  /\ b.nkeys \in 0 .. MXKEY
         /\ b.nkeys \in Int /\ b.nkeys >= 0
         /\ \A i \in 0 .. b.nkeys - 1 : b.ent[i].key \in Int
<1>1. PICK n \in 0 .. MXKEY : b \in [nkeys : {n}, ent : [0 .. n - 1 -> Entry]]
  BY DEF KeyArray
<1>2. b.nkeys = n /\ b.ent \in [0 .. n - 1 -> Entry]
  BY <1>1
<1>3. n \in Int /\ n >= 0
  BY BlockConstants
<1>4. ASSUME NEW i \in 0 .. n - 1 PROVE b.ent[i].key \in Int
  <2>1. b.ent[i] \in Entry
    BY <1>2
  <2> QED
    BY <2>1, KeyConstants DEF Entry
<1> QED
  BY <1>2, <1>3, <1>4

(* In a sorted block where the keys before p are smaller than k and those  *)
(* from p on are not, p is the gap of k.                                   *)
LEMMA GapIs ==
  ASSUME NEW b \in KeyArray, NEW k \in Int, NEW p \in 0 .. b.nkeys,
         \A i \in 0 .. b.nkeys - 1 : (i < p) <=> (b.ent[i].key < k)
  PROVE  Gap(b, k) = p
<1>1. b.nkeys \in Nat
  BY ArrayFacts
<1>2. Below(b, k) = 0 .. p - 1
  BY <1>1 DEF Below
<1>3. Cardinality(0 .. p - 1) = p
  BY <1>1, FS_Interval
<1> QED
  BY <1>2, <1>3 DEF Gap

----------------------------------------------------------------------------
(* The inductive invariant.                                                *)
Excluded ==
  /\ \A i \in 0 .. blk.nkeys - 1 : i < lo => blk.ent[i].key < key
  /\ \A i \in 0 .. blk.nkeys - 1 : i > hi => key < blk.ent[i].key
  /\ lo <= hi + 1

Exits ==
  /\ pc = "loop" /\ quit => lo > hi
  /\ pc = "done" /\ result # 0 => lo > hi
  /\ pc = "loop" => result # 0
  /\ result = 0 => md >= 0 /\ blk.ent[md].key = key
  /\ result > 0 => md = lo - 1
  /\ result < 0 /\ md >= 0 => md = hi + 1
  /\ md = -1 => lo = 0 /\ hi = blk.nkeys - 1 /\ result = -1

BSInv == BSTypeOK /\ Sorted(blk) /\ Excluded /\ Exits

(* strcmp's result by its sign.                                            *)
LEMMA SignFacts ==
  ASSUME NEW x \in Int, NEW y \in Int
  PROVE  /\ Sign(x - y) \in {-1, 0, 1}
         /\ Sign(x - y) = 0 => x = y
         /\ Sign(x - y) > 0 => y < x
         /\ Sign(x - y) < 0 => x < y
  BY DEF Sign

(* The search begins with the invariant of its loop.                       *)
LEMMA InitInv == BSInit => BSInv
<1> SUFFICES ASSUME BSInit PROVE BSInv
  OBVIOUS
<1>1. blk \in KeyArray /\ Sorted(blk)
  BY DEF BSInit
<1>2. blk.nkeys \in Int /\ blk.nkeys >= 0
  BY <1>1, ArrayFacts
<1>3. BSTypeOK
  <2>1. quit \in BOOLEAN
    BY Zenon DEF BSInit
  <2>2. lo = 0 /\ hi = blk.nkeys - 1 /\ md = -1 /\ result = -1 /\ pc = "loop"
    BY Zenon DEF BSInit
  <2>3. key \in Key
    BY DEF BSInit
  <2> QED
    BY <1>1, <1>2, <2>1, <2>2, <2>3 DEF BSTypeOK
<1>4. Excluded
  BY <1>1, <1>2 DEF BSInit, Excluded
<1>5. Exits
  BY <1>1, <1>2 DEF BSInit, Exits
<1> QED
  BY <1>1, <1>3, <1>4, <1>5 DEF BSInv

(* A turn of bsrhbk's loop keeps the invariant.                            *)
LEMMA TurnInv == BSInv /\ Turn => BSInv'
<1> SUFFICES ASSUME BSInv, Turn PROVE BSInv'
  OBVIOUS
<1> DEFINE m == (lo + hi) \div 2
           r == Sign(key - blk.ent[m].key)
<1>1. /\ blk \in KeyArray /\ key \in Int /\ key \in Key
      /\ lo \in Int /\ hi \in Int /\ 0 <= lo /\ lo <= hi /\ hi <= blk.nkeys - 1
      /\ blk.nkeys \in Int
  BY ArrayFacts, KeyConstants DEF BSInv, BSTypeOK, Turn, Again
<1>2. m \in Int /\ lo <= m /\ m <= hi
  BY <1>1
<1>3. blk.ent[m].key \in Int
  BY <1>1, <1>2, ArrayFacts
<1>4. /\ r = 0 => blk.ent[m].key = key
      /\ r > 0 => blk.ent[m].key < key
      /\ r < 0 => key < blk.ent[m].key
      /\ r \in {-1, 0, 1}
  BY <1>1, <1>3, SignFacts
<1>5. /\ blk' = blk /\ key' = key /\ md' = m /\ result' = r
      /\ quit' = (lo = hi)
      /\ lo' = (IF r > 0 THEN m + 1 ELSE lo)
      /\ hi' = (IF r < 0 THEN m - 1 ELSE hi)
      /\ pc' = (IF r = 0 THEN "done" ELSE "loop")
  BY DEF Turn
<1> HIDE DEF r, m
<1>6. Sorted(blk)'
  BY <1>5 DEF BSInv, Sorted
<1>7. BSTypeOK'
  BY <1>1, <1>2, <1>4, <1>5 DEF BSTypeOK
<1>8. \A i \in 0 .. blk.nkeys - 1 : blk.ent[i].key \in Int
  BY <1>1, ArrayFacts
<1>9. ASSUME NEW i \in 0 .. blk.nkeys - 1
      PROVE  /\ i < lo' => blk.ent[i].key < key
             /\ i > hi' => key < blk.ent[i].key
  <2>1. blk.ent[i].key \in Int /\ i \in Int /\ m \in 0 .. blk.nkeys - 1
    BY <1>1, <1>2, <1>8
  <2>2. /\ i < m => blk.ent[i].key < blk.ent[m].key
        /\ m < i => blk.ent[m].key < blk.ent[i].key
    BY <2>1 DEF BSInv, Sorted
  <2>3. /\ i < lo => blk.ent[i].key < key
        /\ i > hi => key < blk.ent[i].key
    BY DEF BSInv, Excluded
  <2> QED
    BY <1>1, <1>2, <1>3, <1>4, <1>5, <2>1, <2>2, <2>3
<1>10. Excluded'
  BY <1>1, <1>2, <1>4, <1>5, <1>9 DEF Excluded
<1>11. Exits'
  <2>1. quit' => lo' > hi' \/ r = 0
    <3>1. /\ lo' = (IF r > 0 THEN m + 1 ELSE lo)
          /\ hi' = (IF r < 0 THEN m - 1 ELSE hi)
      BY <1>5, Zenon
    <3>2. CASE lo = hi
      <4>1. m = lo /\ m = hi
        BY <1>1, <1>2, <3>2
      <4>2. CASE r > 0
        BY <1>1, <1>4, <3>1, <4>1, <4>2
      <4>3. CASE r < 0
        BY <1>1, <1>4, <3>1, <4>1, <4>3
      <4> QED
        BY <1>4, <4>2, <4>3
    <3>3. quit' => lo = hi
      BY <1>5, Zenon
    <3> QED
      BY <3>2, <3>3, Zenon
  <2>2. /\ (pc = "loop" /\ quit)' => lo' > hi'
        /\ (pc = "done" /\ result # 0)' => lo' > hi'
        /\ (pc = "loop")' => result' # 0
    BY <1>5, <2>1
  <2>3. result' = 0 => md' >= 0 /\ blk'.ent[md'].key = key'
    BY <1>1, <1>2, <1>4, <1>5
  <2>4. /\ result' > 0 => md' = lo' - 1
        /\ result' < 0 /\ md' >= 0 => md' = hi' + 1
    BY <1>1, <1>2, <1>4, <1>5
  <2>5. md' # -1
    BY <1>1, <1>2, <1>5
  <2> QED
    BY <2>2, <2>3, <2>4, <2>5 DEF Exits
<1> QED
  BY <1>6, <1>7, <1>10, <1>11 DEF BSInv

(* So does leaving the loop.                                               *)
LEMMA LeaveInv == BSInv /\ Leave => BSInv'
  BY DEF BSInv, Leave, Again, BSTypeOK, Sorted, Excluded, Exits

(* bsrhbk reads keyblk within the block's keys, on every block.            *)
THEOREM SearchInv == BSSpec => []BSInv
<1>1. BSInv /\ UNCHANGED bsvars => BSInv'
  BY DEF BSInv, bsvars, BSTypeOK, Sorted, Excluded, Exits
<1> QED
  BY <1>1, InitInv, TurnInv, LeaveInv, PTL DEF BSSpec, BSNext

(* The type invariant of the search, for every block size.                 *)
THEOREM SearchTypeOK == BSSpec => []BSTypeOK
<1>1. BSInv => BSTypeOK
  BY DEF BSInv
<1> QED
  BY <1>1, SearchInv, PTL

(* When bsrhbk returns, bfndky has the position of the key or its gap, and *)
(* the result is zero exactly when the block holds the key.                *)
LEMMA InvSearchRight == BSInv => SearchRight
<1> SUFFICES ASSUME BSInv, pc = "done"
             PROVE  IF blk.nkeys = 0 THEN md = -1 /\ result = -1
                    ELSE /\ Position = Gap(blk, key)
                         /\ (result = 0) <=> Hit(blk, key)
  BY DEF SearchRight
<1>1. /\ blk \in KeyArray /\ key \in Int
      /\ blk.nkeys \in Int /\ blk.nkeys >= 0
      /\ lo \in 0 .. blk.nkeys /\ hi \in -1 .. blk.nkeys - 1
      /\ md \in -1 .. blk.nkeys - 1
      /\ result \in {-1, 0, 1}
      /\ \A i \in 0 .. blk.nkeys - 1 : blk.ent[i].key \in Int
  BY ArrayFacts, KeyConstants DEF BSInv, BSTypeOK
<1>2. CASE blk.nkeys = 0
  BY <1>1, <1>2 DEF BSInv, Exits
<1>3. CASE blk.nkeys # 0 /\ result = 0
  <2>1. md \in 0 .. blk.nkeys - 1 /\ blk.ent[md].key = key
    BY <1>1, <1>3 DEF BSInv, Exits
  <2>2. \A i \in 0 .. blk.nkeys - 1 : (i < md) <=> (blk.ent[i].key < key)
    BY <1>1, <2>1 DEF BSInv, Sorted
  <2>3. md \in 0 .. blk.nkeys
    BY <1>1, <2>1
  <2>4. Gap(blk, key) = md
    BY <1>1, <2>2, <2>3, GapIs
  <2> QED
    BY <1>1, <1>3, <2>1, <2>4 DEF Position, Hit
<1>4. CASE blk.nkeys # 0 /\ result # 0
  <2>1. lo = hi + 1 /\ md >= 0 /\ Position = lo
    BY <1>1, <1>4 DEF BSInv, Exits, Excluded, Position
  <2>2. \A i \in 0 .. blk.nkeys - 1 : (i < lo) <=> (blk.ent[i].key < key)
    BY <1>1, <2>1 DEF BSInv, Excluded
  <2>3. Gap(blk, key) = lo
    BY <1>1, <2>2, GapIs
  <2>4. lo < blk.nkeys => blk.ent[lo].key # key
    BY <1>1, <2>1 DEF BSInv, Excluded
  <2> QED
    BY <1>1, <1>4, <2>1, <2>3, <2>4 DEF Hit
<1> QED
  BY <1>2, <1>3, <1>4

(* bsrhbk gives bfndky the position of the key or of its gap, and a zero   *)
(* result exactly when the key is there, for every sorted block.           *)
THEOREM SearchCorrect == BSSpec => []SearchRight
  BY SearchInv, InvSearchRight, PTL
=============================================================================
