----------------------------- MODULE DataProofs -----------------------------
(***************************************************************************)
(* Theorems about data records (module DataRecords): the lists of blocks   *)
(* stay sound, every byte is accounted for, and what is read is what was   *)
(* written (module RecordStore), for files, blocks, keys and records of    *)
(* any size.                                                               *)
(*                                                                         *)
(* SegmentProofs has what bgtfre, mkdblk, insdat, deldat and bmkfre do to  *)
(* the lists and to the space of a store.  Here the segments are divided   *)
(* among the records, the call under way and the lost ones.                *)
(***************************************************************************)
EXTENDS DataProps, SegmentProofs, SequenceTheorems

(* A byte of a record, and what a segment holds.                           *)
Byte == Key \X Nat \X Nat
Data == Seq(Byte) \cup {NoData}

----------------------------------------------------------------------------
(* Chains of segments.                                                     *)

Nxt(s, a) == SegAt(s, a).next
Links(s) == [p \in Addr |-> Nxt(s, p)]

(* Chains end, at a segment that is there.                                 *)
Chains(s) ==
  \A a \in Used(s) : Nxt(s, a) \in Used(s) \cup {0} /\ a \notin SegsOf(s, Nxt(s, a))

(* The segments of key k; gone is a key of which the record is deleted.    *)
Owns(s, ix, gone, k) ==
  IF ix[k] = ZNULL \/ k = gone THEN {} ELSE SegsOf(s, ix[k])

(* Each segment is one of a record, of the call under way (cur) or lost,   *)
(* and only one of these.                                                  *)
Cover(s, ix, gone, cur, lo) ==
  /\ \A a \in Used(s) :
       a \in lo \/ a \in cur \/ \E k \in Key : a \in Owns(s, ix, gone, k)
  /\ lo \subseteq Used(s) /\ cur \subseteq Used(s)
  /\ \A k \in Key : Owns(s, ix, gone, k) \subseteq Used(s)
  /\ \A j, k \in Key : j # k =>
       \A a \in Owns(s, ix, gone, j) : a \notin Owns(s, ix, gone, k)
  /\ \A k \in Key : \A a \in Owns(s, ix, gone, k) : a \notin lo /\ a \notin cur
  /\ \A a \in lo : a \notin cur /\ Nxt(s, a) \in lo \cup {0}

(* Links are what trails are about.                                        *)
LEMMA LinkFacts ==
  ASSUME NEW D, NEW s \in Store(D)
  PROVE  /\ Links(s) \in [Addr -> Int] /\ Addr \in SUBSET Int
         /\ IsFiniteSet(Addr) /\ 0 \notin Addr /\ 0 \in Int
         /\ Addr \subseteq Int
         /\ \A a \in Addr : Links(s)[a] = Nxt(s, a) /\ Nxt(s, a) \in Addr \cup {0}
         /\ \A a : SegsOf(s, a) = Trail(Links(s), a)
<1>1. Addr \subseteq Int /\ 0 \notin Addr
  BY AddrParts
<1>2. \A a \in Addr : Nxt(s, a) \in Addr \cup {0}
  BY StoreFields DEF Nxt, SegRec
<1>3. \A a \in Addr : Links(s)[a] = Nxt(s, a)
  BY DEF Links
<1>4. Links(s) \in [Addr -> Int]
  <2>1. Addr \cup {0} \subseteq Int
    BY <1>1
  <2>2. \A a \in Addr : Nxt(s, a) \in Int
    BY <1>2, <2>1
  <2> QED  BY <2>2 DEF Links
<1>5. \A a : SegsOf(s, a) = Trail(Links(s), a)
  BY DEF SegsOf, Links, Nxt
<1> QED  BY <1>1, <1>2, <1>3, <1>4, <1>5, FinitePlaces

(* A chain has its first segment, and the rest.                            *)
LEMMA ChainStep ==
  ASSUME NEW D, NEW s \in Store(D)
  PROVE  /\ SegsOf(s, 0) = {}
         /\ \A a \in Addr : SegsOf(s, a) = {a} \cup SegsOf(s, Nxt(s, a))
         /\ \A p \in Int : SegsOf(s, p) \subseteq Addr
         /\ \A p \in Int : \A q \in SegsOf(s, p) :
              SegsOf(s, q) \subseteq SegsOf(s, p)
              /\ SegsOf(s, Nxt(s, q)) \subseteq SegsOf(s, p)
              /\ Nxt(s, q) \in SegsOf(s, p) \cup {0}
<1>0. /\ Links(s) \in [Addr -> Int] /\ Addr \in SUBSET Int
      /\ IsFiniteSet(Addr) /\ 0 \notin Addr /\ 0 \in Int
      /\ Addr \subseteq Int
      /\ \A a \in Addr : Links(s)[a] = Nxt(s, a) /\ Nxt(s, a) \in Addr \cup {0}
      /\ \A a : SegsOf(s, a) = Trail(Links(s), a)
  BY LinkFacts
<1>1. SegsOf(s, 0) = {}
  BY <1>0, TrailClosed
<1>2. ASSUME NEW a \in Addr PROVE SegsOf(s, a) = {a} \cup SegsOf(s, Nxt(s, a))
  BY <1>0, TrailStep
<1>3. ASSUME NEW p \in Int PROVE SegsOf(s, p) \subseteq Addr
  BY <1>0, TrailClosed
<1>4. ASSUME NEW p \in Int, NEW q \in SegsOf(s, p)
      PROVE  /\ SegsOf(s, q) \subseteq SegsOf(s, p)
             /\ SegsOf(s, Nxt(s, q)) \subseteq SegsOf(s, p)
             /\ Nxt(s, q) \in SegsOf(s, p) \cup {0}
  <2>1. q \in Trail(Links(s), p)
    BY <1>0
  <2>2. q \in Addr /\ Trail(Links(s), q) \subseteq Trail(Links(s), p)
    BY <1>0, <2>1, TrailSub
  <2>3. Trail(Links(s), Links(s)[q]) \subseteq Trail(Links(s), p)
    BY <1>0, <2>1, TrailNext
  <2>4. Links(s)[q] \in Addr => Links(s)[q] \in Trail(Links(s), Links(s)[q])
    BY <1>0, TrailClosed
  <2> QED  BY <1>0, <2>2, <2>3, <2>4
<1> QED  BY <1>1, <1>2, <1>3, <1>4

(* A chain is the same when its links are.                                 *)
LEMMA ChainFrame ==
  ASSUME NEW D, NEW s \in Store(D), NEW r \in Store(D), NEW p \in Int,
         \A q \in SegsOf(s, p) : Nxt(r, q) = Nxt(s, q)
  PROVE  SegsOf(r, p) = SegsOf(s, p)
<1>1. /\ Links(s) \in [Addr -> Int] /\ Addr \in SUBSET Int
      /\ IsFiniteSet(Addr)
      /\ \A a \in Addr : Links(s)[a] = Nxt(s, a)
      /\ \A a : SegsOf(s, a) = Trail(Links(s), a)
  BY LinkFacts
<1>2. /\ Links(r) \in [Addr -> Int]
      /\ \A a \in Addr : Links(r)[a] = Nxt(r, a)
      /\ \A a : SegsOf(r, a) = Trail(Links(r), a)
  BY LinkFacts
<1>3. \A q \in Trail(Links(s), p) : Links(r)[q] = Links(s)[q]
  <2>1. SegsOf(s, p) \subseteq Addr
    BY ChainStep
  <2> QED  BY <1>1, <1>2, <2>1
<1>4. Trail(Links(r), p) = Trail(Links(s), p)
  BY <1>1, <1>2, <1>3, TrailFrame
<1> QED  BY <1>1, <1>2, <1>4

(* Links that all stay.                                                    *)
LEMMA CoverSame ==
  ASSUME NEW D, NEW s \in Store(D), NEW r \in Store(D), Used(r) = Used(s),
         \A a \in Used(s) : Nxt(r, a) = Nxt(s, a), Chains(s)
  PROVE  /\ Chains(r)
         /\ \A p \in Used(s) \cup {0} : SegsOf(r, p) = SegsOf(s, p)
         /\ \A p \in Used(s) \cup {0} : SegsOf(s, p) \subseteq Used(s)
<1>1. Used(s) \subseteq Addr /\ Addr \subseteq Int /\ 0 \in Int
  BY LinkFacts DEF Used
<1>2. ASSUME NEW p \in Used(s) \cup {0} PROVE SegsOf(s, p) \subseteq Used(s)
  <2>1. CASE p = 0
    BY <2>1, ChainStep
  <2>2. CASE p \in Used(s)
    <3>1. Closed(Used(s) \cap Addr, Addr, Links(s))
      BY <1>1, LinkFacts, ZenonT(40) DEF Closed, Chains
    <3>2. Trail(Links(s), p) \subseteq Used(s)
      BY <1>1, <2>2, <3>1, LinkFacts, TrailLeast
    <3> QED  BY <3>2, LinkFacts
  <2> QED  BY <2>1, <2>2
<1>3. ASSUME NEW p \in Used(s) \cup {0} PROVE SegsOf(r, p) = SegsOf(s, p)
  <2>1. p \in Int /\ \A q \in SegsOf(s, p) : Nxt(r, q) = Nxt(s, q)
    BY <1>1, <1>2
  <2> QED  BY <2>1, ChainFrame
<1>4. Chains(r)
  BY <1>3 DEF Chains
<1> QED  BY <1>2, <1>3, <1>4

(* The segments of a key do not see other segments.                        *)
LEMMA OwnsFrame ==
  ASSUME NEW D, NEW s \in Store(D), NEW r \in Store(D),
         NEW ix \in [Key -> Addr \cup {ZNULL}], NEW gone, NEW k \in Key,
         \A q \in Owns(s, ix, gone, k) : Nxt(r, q) = Nxt(s, q)
  PROVE  Owns(r, ix, gone, k) = Owns(s, ix, gone, k)
<1>1. CASE ix[k] = ZNULL \/ k = gone
  BY <1>1 DEF Owns
<1>2. CASE ~(ix[k] = ZNULL \/ k = gone)
  <2>1. Owns(s, ix, gone, k) = SegsOf(s, ix[k]) /\ ix[k] \in Int
        /\ Owns(r, ix, gone, k) = SegsOf(r, ix[k])
    BY <1>2, LinkFacts DEF Owns
  <2> QED  BY <2>1, ChainFrame
<1> QED  BY <1>1, <1>2

(* A record that has a segment has those behind it.                        *)
LEMMA OwnsChain ==
  ASSUME NEW D, NEW s \in Store(D), NEW ix \in [Key -> Addr \cup {ZNULL}],
         NEW gone, NEW k \in Key
  PROVE  /\ \A q \in Owns(s, ix, gone, k) :
              /\ Nxt(s, q) \in Owns(s, ix, gone, k) \cup {0}
              /\ SegsOf(s, q) \subseteq Owns(s, ix, gone, k)
              /\ SegsOf(s, Nxt(s, q)) \subseteq Owns(s, ix, gone, k)
              /\ ix[k] \in Addr /\ ix[k] \in Int
              /\ Owns(s, ix, gone, k) = SegsOf(s, ix[k])
         /\ ix[k] # ZNULL /\ k # gone => ix[k] \in Owns(s, ix, gone, k)
<1>1. ASSUME NEW q \in Owns(s, ix, gone, k)
      PROVE  /\ Nxt(s, q) \in Owns(s, ix, gone, k) \cup {0}
             /\ SegsOf(s, q) \subseteq Owns(s, ix, gone, k)
             /\ SegsOf(s, Nxt(s, q)) \subseteq Owns(s, ix, gone, k)
             /\ ix[k] \in Addr /\ ix[k] \in Int
             /\ Owns(s, ix, gone, k) = SegsOf(s, ix[k])
  <2>1. /\ Owns(s, ix, gone, k) = SegsOf(s, ix[k]) /\ ix[k] \in Addr
        /\ ix[k] \in Int
    BY LinkFacts DEF Owns
  <2> QED  BY <2>1, ChainStep
<1>2. ASSUME ix[k] # ZNULL, k # gone PROVE ix[k] \in Owns(s, ix, gone, k)
  <2>1. Owns(s, ix, gone, k) = SegsOf(s, ix[k]) /\ ix[k] \in Addr
    BY <1>2 DEF Owns
  <2> QED  BY <2>1, ChainStep
<1> QED  BY <1>1, <1>2

(* A segment stored in front of the chain at x.                            *)
LEMMA CoverAdd ==
  ASSUME NEW D, NEW s \in Store(D), NEW r \in Store(D),
         NEW ix \in [Key -> Addr \cup {ZNULL}], NEW gone, NEW lo,
         NEW x \in Addr \cup {0}, NEW a \in Addr, a \notin Used(s),
         Chains(s), Cover(s, ix, gone, SegsOf(s, x), lo),
         Used(r) = Used(s) \cup {a}, Nxt(r, a) = x,
         \A c \in Addr \ {a} : Nxt(r, c) = Nxt(s, c)
  PROVE  /\ Chains(r) /\ Cover(r, ix, gone, SegsOf(r, a), lo)
         /\ \A k \in Key : Owns(r, ix, gone, k) = Owns(s, ix, gone, k)
         /\ SegsOf(r, a) = {a} \cup SegsOf(s, x)
         /\ SegsOf(r, x) = SegsOf(s, x)
<1> DEFINE O(k) == Owns(s, ix, gone, k)
<1>1. Used(s) \subseteq Addr /\ Addr \subseteq Int /\ 0 \in Int /\ 0 \notin Addr
  BY LinkFacts DEF Used
<1>2. \A c \in Used(s) : c \in Addr /\ c # a /\ Nxt(r, c) = Nxt(s, c)
  BY <1>1
<1>3. SegsOf(s, x) \subseteq Used(s)
  BY DEF Cover
<1>4. SegsOf(r, x) = SegsOf(s, x)
  <2>1. x \in Int
    BY <1>1
  <2> QED  BY <1>2, <1>3, <2>1, ChainFrame
<1>5. SegsOf(r, a) = {a} \cup SegsOf(s, x)
  BY <1>4, ChainStep
<1>6. \A k \in Key : O(k) \subseteq Used(s)
  BY DEF Cover
<1>7. ASSUME NEW k \in Key PROVE Owns(r, ix, gone, k) = O(k)
  BY <1>2, <1>6, OwnsFrame
<1>8. ASSUME NEW p \in Used(s) \cup {0}
      PROVE  SegsOf(r, p) = SegsOf(s, p) /\ SegsOf(s, p) \subseteq Used(s)
  <2>1. \A c \in Used(s) : Nxt(s, c) = Nxt(s, c)
    OBVIOUS
  <2>2. SegsOf(s, p) \subseteq Used(s)
    BY CoverSame
  <2>3. p \in Int /\ \A q \in SegsOf(s, p) : Nxt(r, q) = Nxt(s, q)
    BY <1>1, <1>2, <2>2
  <2> QED  BY <2>2, <2>3, ChainFrame
<1>9. x \in Used(s) \cup {0}
  <2>1. x \in Addr => x \in SegsOf(s, x)
    BY ChainStep
  <2> QED  BY <1>3, <2>1
<1>10. Chains(r)
  <2> SUFFICES ASSUME NEW c \in Used(r)
               PROVE  /\ Nxt(r, c) \in Used(r) \cup {0}
                      /\ c \notin SegsOf(r, Nxt(r, c))
    BY DEF Chains
  <2>1. CASE c = a
    BY <1>3, <1>4, <1>9, <2>1
  <2>2. CASE c # a
    <3>1. /\ c \in Used(s) /\ Nxt(r, c) = Nxt(s, c)
          /\ Nxt(s, c) \in Used(s) \cup {0} /\ c \notin SegsOf(s, Nxt(s, c))
      BY <1>2, <2>2 DEF Chains
    <3> QED  BY <1>8, <3>1
  <2> QED  BY <2>1, <2>2
<1>11. Cover(r, ix, gone, SegsOf(r, a), lo)
  <2>1. \A c \in lo : c \in Used(s) /\ Nxt(r, c) = Nxt(s, c)
    BY <1>2 DEF Cover
  <2> HIDE DEF O
  <2>2. /\ \A c \in Used(s) : c \in lo \/ c \in SegsOf(s, x)
                              \/ \E k \in Key : c \in O(k)
        /\ \A j, k \in Key : j # k => \A c \in O(j) : c \notin O(k)
        /\ \A k \in Key : \A c \in O(k) : c \notin lo /\ c \notin SegsOf(s, x)
        /\ \A c \in lo : c \notin SegsOf(s, x) /\ Nxt(s, c) \in lo \cup {0}
        /\ lo \subseteq Used(s)
    BY DEF Cover, O
  <2> QED  BY <1>2, <1>3, <1>5, <1>6, <1>7, <2>1, <2>2 DEF Cover
<1> QED  BY <1>4, <1>5, <1>7, <1>10, <1>11

(* The first segment of the chain of the call deleted.                     *)
LEMMA CoverDrop ==
  ASSUME NEW D, NEW s \in Store(D), NEW r \in Store(D),
         NEW ix \in [Key -> Addr \cup {ZNULL}], NEW gone, NEW lo,
         NEW a \in Used(s),
         Chains(s), Cover(s, ix, gone, SegsOf(s, a), lo),
         Used(r) = Used(s) \ {a},
         \A c \in Addr \ {a} : Nxt(r, c) = Nxt(s, c)
  PROVE  /\ Chains(r) /\ Cover(r, ix, gone, SegsOf(r, Nxt(s, a)), lo)
         /\ \A k \in Key : Owns(r, ix, gone, k) = Owns(s, ix, gone, k)
         /\ SegsOf(r, Nxt(s, a)) = SegsOf(s, Nxt(s, a))
<1> DEFINE O(k) == Owns(s, ix, gone, k)  x == Nxt(s, a)  C == SegsOf(s, a)
<1>1. Used(s) \subseteq Addr /\ Addr \subseteq Int /\ 0 \in Int /\ 0 \notin Addr
  BY LinkFacts DEF Used
<1>2. \A c \in Used(r) : c \in Addr /\ c # a /\ Nxt(r, c) = Nxt(s, c)
                         /\ c \in Used(s)
  BY <1>1
<1>3. /\ C = {a} \cup SegsOf(s, x) /\ a \notin SegsOf(s, x)
      /\ x \in Used(s) \cup {0} /\ x \in Int
      /\ \A c \in SegsOf(s, x) : Nxt(s, c) \in SegsOf(s, x) \cup {0}
  <2>1. x \in Used(s) \cup {0} /\ a \notin SegsOf(s, x)
    BY DEF Chains
  <2>2. x \in Int
    BY <1>1, <2>1
  <2> QED  BY <1>1, <2>1, <2>2, ChainStep
<1>4. /\ \A c \in Used(s) : c \in lo \/ c \in C \/ \E k \in Key : c \in O(k)
      /\ \A j, k \in Key : j # k => \A c \in O(j) : c \notin O(k)
      /\ \A k \in Key : \A c \in O(k) : c \notin lo /\ c \notin C
      /\ \A c \in lo : c \notin C /\ Nxt(s, c) \in lo \cup {0}
      /\ lo \subseteq Used(s) /\ C \subseteq Used(s)
      /\ \A k \in Key : O(k) \subseteq Used(s)
  BY DEF Cover
<1>5. \A k \in Key : \A c \in O(k) : Nxt(s, c) \in O(k) \cup {0}
  BY OwnsChain
<1> HIDE DEF O, C, x
<1>6. a \in C /\ a # 0
  BY <1>1, <1>3
<1>7. ASSUME NEW c \in Used(r) PROVE Nxt(s, c) \in Used(r) \cup {0}
  <2>1. c \in Used(s) /\ c # a
    BY <1>2
  <2>2. Nxt(s, c) \in Used(s) \cup {0}
    BY <2>1 DEF Chains
  <2>3. Nxt(s, c) # a
    BY <1>3, <1>4, <1>5, <1>6, <2>1
  <2> QED  BY <2>2, <2>3
<1>8. ASSUME NEW p \in Int, a \notin SegsOf(s, p), SegsOf(s, p) \subseteq Used(s)
      PROVE  SegsOf(r, p) = SegsOf(s, p)
  <2>1. \A q \in SegsOf(s, p) : Nxt(r, q) = Nxt(s, q)
    BY <1>1, <1>8
  <2> QED  BY <2>1, ChainFrame
<1>9. SegsOf(r, x) = SegsOf(s, x)
  BY <1>3, <1>4, <1>8
<1>10. ASSUME NEW k \in Key PROVE Owns(r, ix, gone, k) = O(k)
  <2>1. \A q \in O(k) : Nxt(r, q) = Nxt(s, q)
    BY <1>1, <1>4, <1>6
  <2> QED  BY <2>1, OwnsFrame DEF O
<1>11. Chains(r)
  <2> SUFFICES ASSUME NEW c \in Used(r)
               PROVE  /\ Nxt(r, c) \in Used(r) \cup {0}
                      /\ c \notin SegsOf(r, Nxt(r, c))
    BY DEF Chains
  <2>1. PICK y : y = Nxt(s, c)
    OBVIOUS
  <2>2. /\ Nxt(r, c) = y /\ y \in Used(r) \cup {0} /\ y \in Int
        /\ c \notin SegsOf(s, y)
    BY <1>1, <1>2, <1>7, <2>1 DEF Chains
  <2>3. SegsOf(s, y) \subseteq Used(s)
    <3>1. \A e \in Used(s) : Nxt(s, e) = Nxt(s, e)
      OBVIOUS
    <3> QED  BY <2>2, CoverSame
  <2>4. a \notin SegsOf(s, y)
    (* what leads to a is a, as the chain of each segment is of its owner *)
    <3>1. c \in lo \/ c \in SegsOf(s, x) \/ \E k \in Key : c \in O(k)
      BY <1>2, <1>3, <1>4
    <3>2. CASE c \in SegsOf(s, x)
      <4>1. SegsOf(s, y) \subseteq SegsOf(s, x)
        BY <1>3, <2>1, <3>2, ChainStep
      <4> QED  BY <1>3, <4>1
    <3>3. CASE \E k \in Key : c \in O(k)
      <4>1. PICK k \in Key : c \in O(k)
        BY <3>3
      <4>2. SegsOf(s, y) \subseteq O(k)
        BY <2>1, <4>1, OwnsChain DEF O
      <4> QED  BY <1>4, <1>6, <4>2
    <3>4. CASE c \in lo
      <4>1. Closed(lo \cap Addr, Addr, Links(s))
        <5>1. \A e \in Addr : Links(s)[e] = Nxt(s, e)
          BY LinkFacts
        <5>2. \A e \in lo : Nxt(s, e) \in lo \cup {0}
          BY <1>4
        <5> QED  BY <1>1, <5>1, <5>2 DEF Closed
      <4>2. y \in Addr => y \in lo
        BY <1>1, <1>4, <2>1, <3>4
      <4>3. Trail(Links(s), y) \subseteq lo
        BY <2>2, <4>1, <4>2, LinkFacts, TrailLeast
      <4> QED  BY <1>4, <1>6, <4>3, LinkFacts
    <3> QED  BY <3>1, <3>2, <3>3, <3>4
  <2> QED  BY <1>8, <2>2, <2>3, <2>4
<1>12. Cover(r, ix, gone, SegsOf(r, x), lo)
  <2>1. \A c \in lo : c \in Used(r) /\ Nxt(r, c) = Nxt(s, c)
    BY <1>2, <1>4, <1>6
  <2>2. SegsOf(r, x) = C \ {a}
    BY <1>3, <1>9 DEF C
  <2>3. \A k \in Key : O(k) \subseteq Used(r)
    BY <1>4, <1>6
  <2> QED  BY <1>4, <1>10, <2>1, <2>2, <2>3 DEF Cover
<1> QED  BY <1>9, <1>10, <1>11, <1>12 DEF O, x

(* A segment made the last of its chain.                                   *)
LEMMA ChainsCut ==
  ASSUME NEW D, NEW s \in Store(D), NEW r \in Store(D), NEW a \in Used(s),
         Chains(s), Used(r) = Used(s), Nxt(r, a) = 0,
         \A c \in Addr \ {a} : Nxt(r, c) = Nxt(s, c)
  PROVE  /\ Chains(r)
         /\ \A p \in Int : SegsOf(r, p) = IF a \in SegsOf(s, p)
                             THEN SegsOf(s, p) \ SegsOf(s, Nxt(s, a))
                             ELSE SegsOf(s, p)
         /\ SegsOf(r, Nxt(s, a)) = SegsOf(s, Nxt(s, a))
         /\ a \notin SegsOf(s, Nxt(s, a)) /\ Nxt(s, a) \in Used(s) \cup {0}
         /\ Nxt(s, a) \in Int
<1>1. /\ Used(s) \subseteq Addr /\ Addr \subseteq Int /\ 0 \in Int
      /\ 0 \notin Addr /\ a \in Addr
  BY LinkFacts DEF Used
<1>2. /\ a \notin SegsOf(s, Nxt(s, a)) /\ Nxt(s, a) \in Used(s) \cup {0}
      /\ Nxt(s, a) \in Int
  BY <1>1 DEF Chains
<1>3. /\ Links(s) \in [Addr -> Int] /\ Links(r) \in [Addr -> Int]
      /\ Addr \in SUBSET Int /\ IsFiniteSet(Addr)
      /\ \A c \in Addr : Links(s)[c] = Nxt(s, c) /\ Links(r)[c] = Nxt(r, c)
      /\ \A p : SegsOf(s, p) = Trail(Links(s), p)
      /\ \A p : SegsOf(r, p) = Trail(Links(r), p)
  BY LinkFacts
<1>4. ASSUME NEW p \in Int, a \notin SegsOf(s, p)
      PROVE  SegsOf(r, p) = SegsOf(s, p)
  <2>1. SegsOf(s, p) \subseteq Addr
    BY ChainStep
  <2>2. \A q \in SegsOf(s, p) : Nxt(r, q) = Nxt(s, q)
    BY <1>4, <2>1
  <2> QED  BY <2>2, ChainFrame
<1>5. ASSUME NEW p \in Int, a \in SegsOf(s, p)
      PROVE  SegsOf(r, p) = SegsOf(s, p) \ SegsOf(s, Nxt(s, a))
  <2>1. a \in Trail(Links(s), p) /\ a \notin Trail(Links(s), Links(s)[a])
    BY <1>1, <1>2, <1>3, <1>5
  <2>2. Links(r)[a] \notin Addr
    BY <1>1, <1>3
  <2>3. \A q \in Trail(Links(s), p) \ {a} : Links(r)[q] = Links(s)[q]
    <3>1. Trail(Links(s), p) \subseteq Addr
      BY <1>3, ChainStep
    <3> QED  BY <1>3, <3>1
  <2>4. Trail(Links(r), p) = Trail(Links(s), p) \ Trail(Links(s), Links(s)[a])
    BY <1>3, <2>1, <2>2, <2>3, TrailCut
  <2> QED  BY <1>1, <1>3, <2>4
<1>6. Chains(r)
  <2> SUFFICES ASSUME NEW c \in Used(s)
               PROVE  /\ Nxt(r, c) \in Used(s) \cup {0}
                      /\ c \notin SegsOf(r, Nxt(r, c))
    BY DEF Chains
  <2>1. CASE c = a
    BY <2>1, ChainStep
  <2>2. CASE c # a
    <3>1. PICK y : y = Nxt(s, c)
      OBVIOUS
    <3>2. /\ Nxt(r, c) = y /\ y \in Used(s) \cup {0} /\ c \notin SegsOf(s, y)
          /\ y \in Int
      BY <1>1, <2>2, <3>1 DEF Chains
    <3>3. SegsOf(r, y) \subseteq SegsOf(s, y)
      BY <1>4, <1>5, <3>2
    <3> QED  BY <3>2, <3>3
  <2> QED  BY <2>1, <2>2
<1> QED  BY <1>2, <1>4, <1>5, <1>6

(* The record of k0 ends at a; the rest is the call's.                     *)
LEMMA CoverCut ==
  ASSUME NEW D, NEW s \in Store(D), NEW r \in Store(D),
         NEW ix \in [Key -> Addr \cup {ZNULL}], NEW gone, NEW lo,
         NEW k0 \in Key, NEW a \in Owns(s, ix, gone, k0),
         Chains(s), Cover(s, ix, gone, {}, lo),
         Used(r) = Used(s), Nxt(r, a) = 0,
         \A c \in Addr \ {a} : Nxt(r, c) = Nxt(s, c)
  PROVE  /\ Chains(r) /\ Cover(r, ix, gone, SegsOf(r, Nxt(s, a)), lo)
         /\ \A k \in Key \ {k0} : Owns(r, ix, gone, k) = Owns(s, ix, gone, k)
         /\ a \in Owns(r, ix, gone, k0)
         /\ SegsOf(r, Nxt(s, a)) = SegsOf(s, Nxt(s, a))
<1> DEFINE O(k) == Owns(s, ix, gone, k)  P(k) == Owns(r, ix, gone, k)
           C == SegsOf(s, Nxt(s, a))
<1>1. Used(s) \subseteq Addr /\ Addr \subseteq Int /\ 0 \in Int /\ 0 \notin Addr
  BY LinkFacts DEF Used
<1>2. /\ \A c \in Used(s) : c \in lo \/ \E k \in Key : c \in O(k)
      /\ \A j, k \in Key : j # k => \A c \in O(j) : c \notin O(k)
      /\ \A k \in Key : \A c \in O(k) : c \notin lo
      /\ \A c \in lo : Nxt(s, c) \in lo \cup {0}
      /\ lo \subseteq Used(s)
      /\ \A k \in Key : O(k) \subseteq Used(s)
  BY DEF Cover
<1>3. a \in Used(s) /\ a \in Addr
  BY <1>1, <1>2
<1>4. /\ Chains(r)
      /\ \A p \in Int : SegsOf(r, p) = IF a \in SegsOf(s, p)
                          THEN SegsOf(s, p) \ C ELSE SegsOf(s, p)
      /\ SegsOf(r, Nxt(s, a)) = C
      /\ a \notin C
  BY <1>3, ChainsCut
<1>5. C \subseteq O(k0)
  BY OwnsChain
<1>6. P(k0) = O(k0) \ C
  <2>1. ix[k0] \in Int /\ O(k0) = SegsOf(s, ix[k0]) /\ P(k0) = SegsOf(r, ix[k0])
    BY OwnsChain DEF Owns
  <2> QED  BY <1>4, <2>1
<1>7. ASSUME NEW k \in Key \ {k0} PROVE P(k) = O(k)
  <2>1. \A q \in O(k) : Nxt(r, q) = Nxt(s, q)
    BY <1>1, <1>2
  <2> QED  BY <2>1, OwnsFrame
<1> HIDE DEF O, P, C
<1>8. Cover(r, ix, gone, C, lo)
  <2>1. \A c \in lo : Nxt(r, c) = Nxt(s, c)
    BY <1>1, <1>2 DEF O
  <2> QED  BY <1>2, <1>5, <1>6, <1>7, <2>1 DEF Cover, P
<1> QED  BY <1>4, <1>6, <1>7, <1>8 DEF O, P, C

(* The first segment of the chain of the call is lost.                     *)
LEMMA CoverLose ==
  ASSUME NEW D, NEW s \in Store(D), NEW r \in Store(D),
         NEW ix \in [Key -> Addr \cup {ZNULL}], NEW gone, NEW lo,
         NEW a \in Used(s),
         Chains(s), Cover(s, ix, gone, SegsOf(s, a), lo),
         Used(r) = Used(s), Nxt(r, a) = 0,
         \A c \in Addr \ {a} : Nxt(r, c) = Nxt(s, c)
  PROVE  /\ Chains(r)
         /\ Cover(r, ix, gone, SegsOf(r, Nxt(s, a)), lo \cup {a})
         /\ \A k \in Key : Owns(r, ix, gone, k) = Owns(s, ix, gone, k)
         /\ SegsOf(r, Nxt(s, a)) = SegsOf(s, Nxt(s, a))
<1> DEFINE O(k) == Owns(s, ix, gone, k)  P(k) == Owns(r, ix, gone, k)
           C == SegsOf(s, a)  B == SegsOf(s, Nxt(s, a))
<1>1. /\ Used(s) \subseteq Addr /\ Addr \subseteq Int /\ 0 \in Int
      /\ 0 \notin Addr /\ a \in Addr
  BY LinkFacts DEF Used
<1>2. /\ \A c \in Used(s) : c \in lo \/ c \in C \/ \E k \in Key : c \in O(k)
      /\ \A j, k \in Key : j # k => \A c \in O(j) : c \notin O(k)
      /\ \A k \in Key : \A c \in O(k) : c \notin lo /\ c \notin C
      /\ \A c \in lo : c \notin C /\ Nxt(s, c) \in lo \cup {0}
      /\ lo \subseteq Used(s) /\ C \subseteq Used(s)
      /\ \A k \in Key : O(k) \subseteq Used(s)
  BY DEF Cover
<1>3. Chains(r) /\ SegsOf(r, Nxt(s, a)) = B /\ a \notin B
  BY ChainsCut
<1>4. C = {a} \cup B
  BY <1>1, ChainStep
<1>5. ASSUME NEW k \in Key PROVE P(k) = O(k)
  <2>1. a \notin O(k)
    BY <1>2, <1>4
  <2>2. \A q \in O(k) : Nxt(r, q) = Nxt(s, q)
    BY <1>1, <1>2, <2>1
  <2> QED  BY <2>2, OwnsFrame
<1> HIDE DEF O, P, C, B
<1>6. Cover(r, ix, gone, B, lo \cup {a})
  <2>1. \A c \in lo : Nxt(r, c) = Nxt(s, c)
    BY <1>1, <1>2, <1>4 DEF O
  <2> QED  BY <1>2, <1>3, <1>4, <1>5, <2>1 DEF Cover, P
<1> QED  BY <1>3, <1>5, <1>6 DEF O, P, B

(* The chain of the call put behind the last segment of a record.          *)
LEMMA CoverJoin ==
  ASSUME NEW D, NEW s \in Store(D), NEW r \in Store(D),
         NEW ix \in [Key -> Addr \cup {ZNULL}], NEW gone, NEW lo,
         NEW k0 \in Key, NEW a \in Owns(s, ix, gone, k0), Nxt(s, a) = 0,
         NEW x \in Addr \cup {0},
         Chains(s), Cover(s, ix, gone, SegsOf(s, x), lo),
         Used(r) = Used(s), Nxt(r, a) = x,
         \A c \in Addr \ {a} : Nxt(r, c) = Nxt(s, c)
  PROVE  /\ Chains(r) /\ Cover(r, ix, gone, {}, lo)
         /\ \A k \in Key \ {k0} : Owns(r, ix, gone, k) = Owns(s, ix, gone, k)
         /\ SegsOf(r, x) = SegsOf(s, x)
<1> DEFINE O(k) == Owns(s, ix, gone, k)  P(k) == Owns(r, ix, gone, k)
           C == SegsOf(s, x)
<1>1. /\ Used(s) \subseteq Addr /\ Addr \subseteq Int /\ 0 \in Int
      /\ 0 \notin Addr /\ x \in Int
  BY LinkFacts DEF Used
<1>2. /\ \A c \in Used(s) : c \in lo \/ c \in C \/ \E k \in Key : c \in O(k)
      /\ \A j, k \in Key : j # k => \A c \in O(j) : c \notin O(k)
      /\ \A k \in Key : \A c \in O(k) : c \notin lo /\ c \notin C
      /\ \A c \in lo : c \notin C /\ Nxt(s, c) \in lo \cup {0}
      /\ lo \subseteq Used(s) /\ C \subseteq Used(s)
      /\ \A k \in Key : O(k) \subseteq Used(s)
  BY DEF Cover
<1>3. a \in Used(s) /\ a \in Addr /\ a \notin C
  BY <1>1, <1>2
<1>4. /\ Links(s) \in [Addr -> Int] /\ Links(r) \in [Addr -> Int]
      /\ Addr \in SUBSET Int /\ IsFiniteSet(Addr)
      /\ \A c \in Addr : Links(s)[c] = Nxt(s, c) /\ Links(r)[c] = Nxt(r, c)
      /\ \A p : SegsOf(s, p) = Trail(Links(s), p)
      /\ \A p : SegsOf(r, p) = Trail(Links(r), p)
  BY LinkFacts
<1>5. ix[k0] \in Int /\ O(k0) = SegsOf(s, ix[k0]) /\ P(k0) = SegsOf(r, ix[k0])
  BY OwnsChain DEF Owns
<1>6. /\ P(k0) = O(k0) \cup C /\ SegsOf(r, x) = C
      /\ \A p \in Int : SegsOf(r, p) \subseteq SegsOf(s, p) \cup C
  <2>1. a \in Trail(Links(s), ix[k0]) /\ Links(r)[a] = x
    BY <1>3, <1>4, <1>5
  <2>2. Links(s)[a] \notin Addr /\ a \notin Trail(Links(s), Links(r)[a])
    BY <1>1, <1>3, <1>4, <2>1
  <2>3. \A q \in Addr \ {a} : Links(r)[q] = Links(s)[q]
    BY <1>4
  <2>4. /\ Trail(Links(r), ix[k0]) =
             Trail(Links(s), ix[k0]) \cup Trail(Links(s), Links(r)[a])
        /\ Trail(Links(r), Links(r)[a]) = Trail(Links(s), Links(r)[a])
        /\ \A p \in Int : Trail(Links(r), p) \subseteq
             Trail(Links(s), p) \cup Trail(Links(s), Links(r)[a])
    BY <1>4, <1>5, <2>1, <2>2, <2>3, TrailJoin
  <2> QED  BY <1>4, <1>5, <2>1, <2>4
<1>7. ASSUME NEW k \in Key \ {k0} PROVE P(k) = O(k)
  <2>1. \A q \in O(k) : Nxt(r, q) = Nxt(s, q)
    BY <1>1, <1>2
  <2> QED  BY <2>1, OwnsFrame
<1>8. ASSUME NEW c \in C PROVE Nxt(s, c) \in C \cup {0}
                               /\ SegsOf(s, Nxt(s, c)) \subseteq C
  BY <1>1, ChainStep
<1>9. x \in Used(s) \cup {0}
  <2>1. x \in Addr => x \in C
    BY ChainStep
  <2> QED  BY <1>2, <2>1
<1>10. Chains(r)
  <2> SUFFICES ASSUME NEW c \in Used(s)
               PROVE  /\ Nxt(r, c) \in Used(s) \cup {0}
                      /\ c \notin SegsOf(r, Nxt(r, c))
    BY DEF Chains
  <2>1. CASE c = a
    BY <1>3, <1>6, <1>9, <2>1
  <2>2. CASE c # a
    <3>1. PICK y : y = Nxt(s, c)
      OBVIOUS
    <3>2. /\ Nxt(r, c) = y /\ y \in Used(s) \cup {0} /\ c \notin SegsOf(s, y)
          /\ y \in Int
      BY <1>1, <2>2, <3>1 DEF Chains
    <3>3. CASE c \notin C
      BY <1>6, <3>2, <3>3
    <3>4. CASE c \in C
      <4>1. SegsOf(s, y) \subseteq C
        BY <1>8, <3>1, <3>4
      <4>2. \A q \in SegsOf(s, y) : Nxt(r, q) = Nxt(s, q)
        BY <1>1, <1>2, <1>3, <4>1
      <4>3. SegsOf(r, y) = SegsOf(s, y)
        BY <3>2, <4>2, ChainFrame
      <4> QED  BY <3>2, <4>3
    <3> QED  BY <3>3, <3>4
  <2> QED  BY <2>1, <2>2
<1> HIDE DEF O, P, C
<1>11. Cover(r, ix, gone, {}, lo)
  <2>1. \A c \in lo : Nxt(r, c) = Nxt(s, c)
    BY <1>1, <1>2 DEF O
  <2> QED  BY <1>2, <1>6, <1>7, <2>1 DEF Cover, P
<1> QED  BY <1>6, <1>7, <1>10, <1>11 DEF O, P, C

----------------------------------------------------------------------------
(* The inductive invariant.                                                *)

Routines == {"idle", "binsdt", "binsky", "relink", "bupddt", "bdeldt",
             "bseldt", "brecsz"}
CallNames == {"none", "ins", "upd", "del", "sel", "recs"}

TypeInv ==
  /\ st \in Store(Data) /\ index \in [Key -> Addr \cup {ZNULL}]
  /\ lf \in [key : Key \cup {NoKey}, exct : BOOLEAN]
  /\ pc \in Routines
  /\ op \in [name : CallNames, key : Key \cup {NoKey}, rec : Seq(Byte),
             size : Nat]
  /\ d \in Addr \cup {0} /\ rem \in Int /\ base \in Nat
  /\ tail \in Addr \cup {0}

(* A block to which no segment was added yet: the next step adds one.      *)
Fresh(b) == pc = "binsdt" /\ b = st.head["data"] /\ st.blk[b].first = 0
Full(s) == \A a \in Used(s) : SegAt(s, a).data \in Seq(Byte)
                              /\ Len(SegAt(s, a).data) = SegAt(s, a).size

StoreInv ==
  /\ ListsOK(st) /\ SpaceOK(st, "data")
  /\ \A b \in Blk : st.blk[b].type # "dup"
  /\ \A b \in BlocksOf(st, "data") : UsedIn(st, b) # {} \/ Fresh(b)
  /\ Full(st)

(* The segments of the call under way that no record has: those stored so  *)
(* far, those still to delete, and those cut off.                          *)
Cut == pc = "bupddt" /\ tail # 0 /\ rem <= 0
Cur == IF pc \in {"binsdt", "binsky", "relink", "bdeldt"} \/ Cut
       THEN SegsOf(st, d) ELSE {}
Gone == IF pc = "bdeldt" /\ op.name = "del" THEN op.key ELSE NoKey
Kept(k) == Owns(st, index, Gone, k)

OwnInv == Chains(st) /\ Cover(st, index, Gone, Cur, lost)

(* Which call runs which routine.                                          *)
CallInv ==
  /\ pc = "idle" <=> op.name = "none"
  /\ pc = "binsdt" => op.name \in {"ins", "upd"}
  /\ pc = "binsky" => op.name = "ins" /\ d # 0
  /\ pc \in {"relink", "bupddt"} => op.name = "upd"
  /\ pc = "bdeldt" => op.name \in {"ins", "upd", "del"}
  /\ pc = "bseldt" => op.name = "sel"
  /\ pc = "brecsz" => op.name = "recs"
  /\ pc # "idle" => op.key \in Key
  /\ op.name \in {"upd", "del", "sel", "recs"} => index[op.key] # ZNULL

(* Where bupddt is in the record, and the segment it will link to.         *)
Ended == tail \in Kept(op.key) /\ Nxt(st, tail) = 0
UpdInv ==
  /\ rem >= -1 /\ base <= Len(op.rec)
  /\ rem >= 0 => base + rem = Len(op.rec)
  /\ tail = 0 => d = index[op.key] /\ rem >= 0
  /\ tail # 0 /\ rem > 0 => tail \in Kept(op.key) /\ Nxt(st, tail) = d
  /\ tail # 0 /\ rem = 0 => Ended

PosInv ==
  /\ pc = "binsdt" => rem >= 0 /\ base + rem <= Len(op.rec)
  /\ pc = "bupddt" => UpdInv
  /\ pc = "relink" => Ended
  /\ pc = "binsdt" /\ op.name = "upd" => Ended

Inv == TypeInv /\ StoreInv /\ OwnInv /\ CallInv /\ PosInv

(* Constants.                                                              *)
LEMMA RecordFacts ==
  /\ Key \subseteq Nat /\ NoKey \notin Key /\ NoData \notin Seq(Byte)
  /\ NoRec \notin Seq(Byte) /\ MaxTree \in Nat
  /\ \A k \in Key : \A rec \in RecordFor(k) : rec \in Seq(Byte)
  /\ \A n \in Space : n \in Nat
  /\ NoSeg \in SegRec(Data)
<1>1. /\ Key \subseteq Nat /\ NoKey \notin Key /\ NoData \notin Seq(Byte)
      /\ NoRec \notin Seq(Byte) /\ MaxTree \in Nat
      /\ \A n \in Space : n \in Nat
  BY RecordConstants DEF Byte
<1>2. ASSUME NEW k \in Key, NEW rec \in RecordFor(k) PROVE rec \in Seq(Byte)
  <2>1. PICK n \in Sizes[k] : rec = [i \in 1 .. n |-> <<k, n, i>>]
    BY <1>1 DEF RecordFor
  <2>2. n \in Nat
    BY RecordConstants
  <2>3. \A i \in 1 .. n : <<k, n, i>> \in Byte
    BY <2>2 DEF Byte
  <2> QED  BY <2>1, <2>2, <2>3
<1>3. NoSeg \in SegRec(Data)
  BY BlkFacts DEF NoSeg, SegRec, Data
<1> QED  BY <1>1, <1>2, <1>3

(* The invariant holds in the beginning.                                   *)
LEMMA InitInv == Init => Inv
<1> SUFFICES ASSUME Init PROVE Inv
  OBVIOUS
<1>1. PICK n \in Limits : st = NewStore(n)
  BY DEF Init
<1>2. /\ index = [k \in Key |-> ZNULL] /\ pc = "idle" /\ op = NoOp
      /\ lf = [key |-> NoKey, exct |-> FALSE]
      /\ d = 0 /\ rem = 0 /\ base = 0 /\ tail = 0 /\ lost = {}
  BY DEF Init
<1>3. /\ st.blk = [b \in Blk |-> NewBlock] /\ st.head = [t \in Seg |-> ZNULL]
      /\ st.freep = ZNULL /\ st.nfree = 0 /\ st.blkmx = 2 /\ st.limit = n
  BY <1>1 DEF NewStore
<1>4. NewBlock \in BlkRec(Data) /\ NewBlock.type = "none"
      /\ NewBlock.seg = [o \in Offset |-> NoSeg]
  <2>1. [o \in Offset |-> NoSeg] \in [Offset -> SegRec(Data)]
    BY RecordFacts
  <2> QED  BY <2>1, BlkFacts DEF NewBlock, BlkRec, BlkType
<1>5. st \in Store(Data)
  <2>1. [b \in Blk |-> NewBlock] \in [Blk -> BlkRec(Data)]
    BY <1>4
  <2>2. [t \in Seg |-> ZNULL] \in [Seg -> Blk \cup {ZNULL}]
    OBVIOUS
  <2> QED  BY <1>1, <2>1, <2>2 DEF NewStore, Store
<1>6. TypeInv
  BY <1>2, <1>5 DEF TypeInv, Routines, CallNames, NoOp
<1>7. \A b \in Blk : st.blk[b].type = "none"
  BY <1>3, <1>4
<1>8. \A a \in Addr : SegAt(st, a) = NoSeg
  BY <1>3, <1>4, AddrParts DEF SegAt
<1>9. Used(st) = {}
  BY <1>8 DEF Used
<1>10. ListsOK(st)
  <2>1. BlocksOf(st, "free") = {} /\ BlocksOf(st, "data") = {}
        /\ BlocksOf(st, "dup") = {}
    BY <1>7 DEF BlocksOf
  <2>2. FreeList(st) = {}
    <3>1. /\ Nexts(st) \in [Blk -> Int] /\ IsFiniteSet(Blk)
          /\ Blk \in SUBSET Int /\ st.freep \in Int /\ st.freep \notin Blk
      BY <1>3, <1>5, StoreFields, FinitePlaces, BlkFacts
    <3>2. Trail(Nexts(st), st.freep) = {}
      BY <3>1, TrailClosed
    <3> QED  BY <3>2, FollowTrail
  <2>3. FreeOK(st)
    BY <1>3, <2>1, <2>2, FS_EmptySet DEF FreeOK
  <2>4. st.blkmx \in 2 .. st.limit
    BY <1>3, BlkFacts
  <2> QED  BY <1>3, <1>7, <2>1, <2>3, <2>4 DEF ListsOK, ListOK, Seg
<1>11. StoreInv
  <2>1. SpaceOK(st, "data") /\ Full(st)
    BY <1>7, <1>9 DEF SpaceOK, Full, BlocksOf
  <2> QED  BY <1>7, <1>10, <2>1 DEF StoreInv, BlocksOf
<1>12. OwnInv
  <2>1. Gone = NoKey /\ Cur = {} /\ Chains(st)
    BY <1>2, <1>9 DEF Gone, Cur, Cut, Chains
  <2>2. \A k \in Key : Owns(st, index, NoKey, k) = {}
    BY <1>2 DEF Owns
  <2> QED  BY <1>2, <1>9, <2>1, <2>2 DEF OwnInv, Cover
<1>13. CallInv /\ PosInv
  BY <1>2 DEF CallInv, PosInv, NoOp
<1> QED  BY <1>6, <1>11, <1>12, <1>13 DEF Inv

----------------------------------------------------------------------------
(* Segments that change hands.                                             *)

(* The record of k begins to be deleted.                                   *)
LEMMA CoverGone ==
  ASSUME NEW s, NEW ix, NEW lo, NEW k0 \in Key, ix[k0] # ZNULL,
         Cover(s, ix, NoKey, {}, lo)
  PROVE  Cover(s, ix, k0, SegsOf(s, ix[k0]), lo)
<1>1. /\ Owns(s, ix, k0, k0) = {} /\ Owns(s, ix, NoKey, k0) = SegsOf(s, ix[k0])
      /\ \A k \in Key \ {k0} : Owns(s, ix, k0, k) = Owns(s, ix, NoKey, k)
  BY RecordFacts DEF Owns
<1> QED  BY <1>1 DEF Cover

(* The key is removed.                                                     *)
LEMMA CoverEnd ==
  ASSUME NEW s, NEW ix \in [Key -> Addr \cup {ZNULL}], NEW lo, NEW cur,
         NEW k0 \in Key, Cover(s, ix, k0, cur, lo)
  PROVE  Cover(s, [ix EXCEPT ![k0] = ZNULL], NoKey, cur, lo)
<1>1. \A k \in Key : Owns(s, [ix EXCEPT ![k0] = ZNULL], NoKey, k) =
                     Owns(s, ix, k0, k)
  BY RecordFacts DEF Owns
<1> QED  BY <1>1 DEF Cover

(* The key of a new record is inserted.                                    *)
LEMMA CoverKey ==
  ASSUME NEW s, NEW ix \in [Key -> Addr \cup {ZNULL}], NEW lo,
         NEW k0 \in Key, ix[k0] = ZNULL, NEW x \in Addr, x # ZNULL,
         Cover(s, ix, NoKey, SegsOf(s, x), lo)
  PROVE  Cover(s, [ix EXCEPT ![k0] = x], NoKey, {}, lo)
<1> DEFINE iy == [ix EXCEPT ![k0] = x]  C == SegsOf(s, x)
           O(k) == Owns(s, ix, NoKey, k)  P(k) == Owns(s, iy, NoKey, k)
<1>1. /\ P(k0) = C /\ O(k0) = {}
      /\ \A k \in Key \ {k0} : P(k) = O(k)
  BY RecordFacts DEF Owns
<1>2. /\ \A a \in Used(s) : a \in lo \/ a \in C \/ \E k \in Key : a \in O(k)
      /\ \A j, k \in Key : j # k => \A a \in O(j) : a \notin O(k)
      /\ \A k \in Key : \A a \in O(k) : a \notin lo /\ a \notin C
      /\ \A a \in lo : a \notin C /\ Nxt(s, a) \in lo \cup {0}
      /\ lo \subseteq Used(s) /\ C \subseteq Used(s)
      /\ \A k \in Key : O(k) \subseteq Used(s)
  BY DEF Cover
<1> HIDE DEF C, O, P, iy
<1>3. Cover(s, iy, NoKey, {}, lo)
  <2>1. \A a \in Used(s) : a \in lo \/ \E k \in Key : a \in P(k)
    <3> SUFFICES ASSUME NEW a \in Used(s), a \notin lo
                 PROVE  \E k \in Key : a \in P(k)
      OBVIOUS
    <3>1. CASE a \in C
      BY <1>1, <3>1
    <3>2. CASE a \notin C
      <4>1. PICK k \in Key : a \in O(k)
        BY <1>2, <3>2
      <4> QED  BY <1>1, <4>1
    <3> QED  BY <3>1, <3>2
  <2>2. \A j, k \in Key : j # k => \A a \in P(j) : a \notin P(k)
    BY <1>1, <1>2
  <2>3. \A k \in Key : \A a \in P(k) : a \notin lo
    BY <1>1, <1>2
  <2>4. \A k \in Key : P(k) \subseteq Used(s)
    BY <1>1, <1>2
  <2> QED  BY <1>2, <2>1, <2>2, <2>3, <2>4 DEF Cover, P
<1> QED  BY <1>3 DEF iy

(* What was stored is lost.                                                *)
LEMMA CoverLost ==
  ASSUME NEW D, NEW s \in Store(D), NEW ix, NEW gone, NEW lo,
         NEW x \in Addr \cup {0}, Cover(s, ix, gone, SegsOf(s, x), lo)
  PROVE  Cover(s, ix, gone, {}, lo \cup SegsOf(s, x))
<1>1. x \in Int
  BY LinkFacts
<1>2. \A a \in SegsOf(s, x) : Nxt(s, a) \in SegsOf(s, x) \cup {0}
  BY <1>1, ChainStep
<1> QED  BY <1>2 DEF Cover

(* No segment changes its link.                                            *)
LEMMA CoverLike ==
  ASSUME NEW D, NEW s \in Store(D), NEW r \in Store(D),
         NEW ix \in [Key -> Addr \cup {ZNULL}], NEW gone, NEW lo, NEW x \in Int,
         Chains(s), Cover(s, ix, gone, SegsOf(s, x), lo),
         Used(r) = Used(s), \A a \in Used(s) : Nxt(r, a) = Nxt(s, a)
  PROVE  /\ Chains(r) /\ Cover(r, ix, gone, SegsOf(r, x), lo)
         /\ \A k \in Key : Owns(r, ix, gone, k) = Owns(s, ix, gone, k)
         /\ SegsOf(r, x) = SegsOf(s, x)
<1>1. Chains(r)
  BY CoverSame
<1>2. SegsOf(s, x) \subseteq Used(s) /\ lo \subseteq Used(s)
      /\ \A k \in Key : Owns(s, ix, gone, k) \subseteq Used(s)
  BY DEF Cover
<1>3. SegsOf(r, x) = SegsOf(s, x)
  BY <1>2, ChainFrame
<1>4. ASSUME NEW k \in Key PROVE Owns(r, ix, gone, k) = Owns(s, ix, gone, k)
  BY <1>2, OwnsFrame
<1>5. Cover(r, ix, gone, SegsOf(r, x), lo)
  BY <1>2, <1>3, <1>4 DEF Cover
<1> QED  BY <1>1, <1>3, <1>4, <1>5

----------------------------------------------------------------------------
(* How calls start and end.                                                *)

(* The segments of the call, by routine.                                   *)
LEMMA CurIs ==
  ASSUME TypeInv
  PROVE  /\ pc \in {"idle", "bseldt", "brecsz"} => Cur = {}
         /\ pc \in {"binsdt", "binsky", "relink", "bdeldt"} => Cur = SegsOf(st, d)
         /\ pc = "bupddt" /\ (tail = 0 \/ rem > 0) => Cur = {}
         /\ pc = "bupddt" /\ tail # 0 /\ rem <= 0 => Cur = SegsOf(st, d)
         /\ pc # "bdeldt" => Gone = NoKey
         /\ SegsOf(st, 0) = {}
<1>1. SegsOf(st, 0) = {}
  BY ChainStep DEF TypeInv
<1>2. rem > 0 => ~(rem <= 0)
  BY DEF TypeInv
<1> QED  BY <1>1, <1>2 DEF Cur, Cut, Gone

(* A store that stays is as good as it was, if a block without segments    *)
(* still waits for one.                                                    *)
LEMMA StoreStays ==
  ASSUME StoreInv, st' = st, pc = "binsdt" => pc' = "binsdt"
  PROVE  StoreInv'
BY DEF StoreInv, Fresh

(* A call ends.                                                            *)
LEMMA ReturnInv ==
  ASSUME TypeInv, NEW e, Return(e), st' \in Store(Data), StoreInv',
         index' \in [Key -> Addr \cup {ZNULL}],
         lf' \in [key : Key \cup {NoKey}, exct : BOOLEAN],
         Chains(st'), Cover(st', index', NoKey, {}, lost')
  PROVE  Inv'
<1>1. /\ pc' = "idle" /\ op' = NoOp /\ d' = 0 /\ rem' = 0 /\ base' = 0
      /\ tail' = 0
  BY DEF Return
<1>2. TypeInv'
  BY <1>1 DEF TypeInv, Routines, CallNames, NoOp
<1>3. OwnInv'
  BY <1>1 DEF OwnInv, Gone, Cur, Cut
<1>4. CallInv' /\ PosInv'
  BY <1>1 DEF CallInv, PosInv, NoOp
<1> QED  BY <1>2, <1>3, <1>4 DEF Inv

(* A call that is refused changes nothing.                                 *)
LEMMA RefuseInv ==
  ASSUME Inv, NEW e, Refuse(e),
         lf' \in [key : Key \cup {NoKey}, exct : BOOLEAN]
  PROVE  Inv'
<1>1. /\ pc = "idle" /\ Return(e) /\ st' = st /\ index' = index
      /\ lost' = lost /\ TypeInv /\ StoreInv /\ OwnInv
  BY DEF Refuse, Inv
<1>2. StoreInv'
  BY <1>1, StoreStays
<1>3. Cover(st, index, NoKey, {}, lost) /\ Chains(st)
  BY <1>1, CurIs DEF OwnInv
<1> QED  BY <1>1, <1>2, <1>3, ReturnInv DEF TypeInv

(* A call starts.                                                          *)
LEMMA StartInv ==
  ASSUME Inv, NEW routine, NEW name, NEW k \in Key, NEW rec \in Seq(Byte),
         NEW size \in Nat, Start(routine, name, k, rec, size),
         lf' \in [key : Key \cup {NoKey}, exct : BOOLEAN],
         \/ routine = "binsdt" /\ name = "ins" /\ d' = 0 /\ rem' = Len(rec)
         \/ /\ index[k] # ZNULL /\ d' = index[k] /\ rem' \in Nat
            /\ \/ routine = "bupddt" /\ name = "upd" /\ rem' = Len(rec)
               \/ routine = "bdeldt" /\ name = "del"
               \/ routine = "brecsz" /\ name = "recs"
               \/ routine = "bseldt" /\ name = "sel"
  PROVE  Inv'
<1>1. /\ pc = "idle" /\ pc' = routine /\ base' = 0 /\ tail' = 0
      /\ op' = [name |-> name, key |-> k, rec |-> rec, size |-> size]
      /\ st' = st /\ index' = index /\ lost' = lost
  BY DEF Start
<1>2. /\ TypeInv /\ StoreInv /\ OwnInv /\ Len(rec) \in Nat
  BY DEF Inv
<1>3. index[k] # ZNULL => index[k] \in Addr
  BY <1>2 DEF TypeInv
<1>4. TypeInv'
  BY <1>1, <1>2, <1>3 DEF TypeInv, Routines, CallNames
<1>5. StoreInv'
  BY <1>1, <1>2, StoreStays
<1>6. Cover(st, index, NoKey, {}, lost) /\ Chains(st)
  BY <1>1, <1>2, CurIs DEF OwnInv
<1>7. OwnInv'
  <2>1. CASE routine = "bdeldt"
    <3>1. Cover(st, index, k, SegsOf(st, index[k]), lost)
      BY <1>6, <2>1, CoverGone
    <3>2. d' = index[k] /\ name = "del"
      BY <2>1
    <3> QED  BY <1>1, <1>6, <2>1, <3>1, <3>2 DEF OwnInv, Gone, Cur
  <2>2. CASE routine # "bdeldt"
    <3>1. SegsOf(st, 0) = {}
      BY <1>2, CurIs
    <3> QED  BY <1>1, <1>6, <2>2, <3>1 DEF OwnInv, Gone, Cur, Cut
  <2> QED  BY <2>1, <2>2
<1>8. CallInv'
  BY <1>1 DEF CallInv
<1>9. PosInv'
  BY <1>1, <1>2 DEF PosInv, UpdInv
<1> QED  BY <1>4, <1>5, <1>7, <1>8, <1>9 DEF Inv

(* All calls.                                                              *)
LEMMA CallsInv ==
  ASSUME Inv, Call
  PROVE  Inv'
<1>1. /\ lf \in [key : Key \cup {NoKey}, exct : BOOLEAN]
      /\ index \in [Key -> Addr \cup {ZNULL}]
  BY DEF Inv, TypeInv
<1>2. ASSUME NEW k, Misses(k) PROVE Inv'
  <2>1. CASE k = NoKey /\ ~lf.exct /\ Refuse("QBADCTXT") /\ UNCHANGED lf
    BY <1>1, <2>1, RefuseInv
  <2>2. CASE /\ k \in Key \ Stored /\ Refuse("QNOKEY")
             /\ lf' = [key |-> k, exct |-> FALSE]
    <3>1. lf' \in [key : Key \cup {NoKey}, exct : BOOLEAN]
      BY <2>2
    <3> QED  BY <2>2, <3>1, RefuseInv
  <2> QED  BY <1>2, <2>1, <2>2 DEF Misses
<1>3. ASSUME NEW k, Selects(k)
      PROVE  /\ Target(k) \in Key /\ index[Target(k)] # ZNULL
             /\ d' = index[Target(k)] /\ (k \in Key => Target(k) = k)
             /\ lf' \in [key : Key \cup {NoKey}, exct : BOOLEAN]
  BY <1>3, RecordFacts DEF Selects, Stored, Target
<1>4. <<>> \in Seq(Byte) /\ 0 \in Nat
  OBVIOUS
<1>5. ASSUME NEW k \in Key, NEW rec \in RecordFor(k), Btins(k, rec) PROVE Inv'
  <2>1. rec \in Seq(Byte)
    BY RecordFacts
  <2>2. Start("binsdt", "ins", k, rec, 0) /\ d' = 0 /\ rem' = Len(rec)
        /\ lf' = lf
    BY <1>5 DEF Btins
  <2> QED  BY <1>1, <1>4, <2>1, <2>2, StartInv
<1>6. ASSUME NEW k \in Key \cup {NoKey}, Btupd(k) PROVE Inv'
  <2>1. CASE Misses(k)
    BY <1>2, <2>1
  <2>2. ASSUME NEW rec \in RecordFor(Target(k)), Selects(k), rem' = Len(rec),
               Start("bupddt", "upd", Target(k), rec, 0)
        PROVE  Inv'
    <3>1. Target(k) \in Key
      BY <1>3, <2>2
    <3>2. rec \in Seq(Byte)
      BY <3>1, RecordFacts
    <3>3. rem' \in Nat
      BY <2>2, <3>2
    <3> QED  BY <1>3, <1>4, <2>2, <3>1, <3>2, <3>3, StartInv
  <2> QED  BY <1>6, <2>1, <2>2 DEF Btupd
<1>7. ASSUME NEW k \in Key \cup {NoKey}, Btdel(k) PROVE Inv'
  <2>1. CASE Misses(k)
    BY <1>2, <2>1
  <2>2. CASE /\ Selects(k) /\ rem' = 0
             /\ Start("bdeldt", "del", Target(k), <<>>, 0)
    <3>1. Target(k) \in Key /\ rem' \in Nat
      BY <1>3, <2>2
    <3> QED  BY <1>3, <1>4, <2>2, <3>1, StartInv
  <2> QED  BY <1>7, <2>1, <2>2 DEF Btdel
<1>8. ASSUME NEW k \in Key \cup {NoKey}, Btrecs(k) PROVE Inv'
  <2>1. CASE Misses(k)
    BY <1>2, <2>1
  <2>2. CASE /\ Selects(k) /\ rem' = 0
             /\ Start("brecsz", "recs", Target(k), <<>>, 0)
    <3>1. Target(k) \in Key /\ rem' \in Nat
      BY <1>3, <2>2
    <3> QED  BY <1>3, <1>4, <2>2, <3>1, StartInv
  <2> QED  BY <1>8, <2>1, <2>2 DEF Btrecs
<1>9. ASSUME NEW k \in Key, NEW n \in Space, Selects(k), rem' = n,
             Start("bseldt", "sel", k, <<>>, n)
      PROVE  Inv'
  <2>1. n \in Nat /\ Target(k) = k
    BY <1>3, <1>9, RecordFacts
  <2> QED  BY <1>3, <1>4, <1>9, <2>1, StartInv
<1>10. ASSUME NEW ks, NEW k \in Key, NEW n \in Space, Moves(ks, k, n) PROVE Inv'
  <2>1. CASE k \in ks /\ Selects(k) /\ rem' = n
             /\ Start("bseldt", "sel", k, <<>>, n)
    BY <1>9, <2>1
  <2>2. CASE /\ ks = {} /\ Refuse("QNOKEY")
             /\ lf' = [key |-> NoKey, exct |-> FALSE]
    <3>1. lf' \in [key : Key \cup {NoKey}, exct : BOOLEAN]
      BY <2>2
    <3> QED  BY <2>2, <3>1, RefuseInv
  <2> QED  BY <1>10, <2>1, <2>2 DEF Moves
<1>11. ASSUME NEW k \in Key, NEW n \in Space, Btsel(k, n) PROVE Inv'
  BY <1>2, <1>9, <1>11 DEF Btsel
<1>12. ASSUME NEW n \in Space, Btseln(n) \/ Btselp(n) PROVE Inv'
  <2>1. \E ks : \E k \in Key : Moves(ks, k, n)
    BY <1>12 DEF Btseln, Btselp
  <2> QED  BY <1>10, <2>1
<1> QED  BY <1>5, <1>6, <1>7, <1>8, <1>11, <1>12 DEF Call

----------------------------------------------------------------------------
(* binsdt.                                                                 *)

(* Where there is an active block, its free bytes are counted.             *)
LEMMA HeadRoom ==
  ASSUME TypeInv, StoreInv, st.head["data"] # ZNULL
  PROVE  /\ st.head["data"] \in BlocksOf(st, "data") /\ st.head["data"] \in Blk
         /\ Room(st, "data") = CAP - st.blk[st.head["data"]].first
         /\ Room(st, "data") \in 0 .. CAP
         /\ st.blk[st.head["data"]].free >= Room(st, "data")
         /\ st.blk[st.head["data"]].free \in Nat
         /\ st.blk[st.head["data"]].first \in Nat
<1>1. st \in Store(Data) /\ ListsOK(st) /\ SpaceOK(st, "data")
  BY DEF TypeInv, StoreInv
<1>2. PICK h : h = st.head["data"]
  OBVIOUS
<1>3. h \in BlocksOf(st, "data") /\ h \in Blk
  BY <1>1, <1>2 DEF ListsOK, ListOK, BlocksOf
<1>4. st.blk[h].first \in 0 .. CAP /\ st.blk[h].free \in 0 .. CAP /\ CAP \in Nat
  BY <1>1, <1>3, StoreFields, BlkFacts
<1>5. st.blk[h].free + st.blk[h].first >= CAP
  BY <1>1, <1>3 DEF SpaceOK, RoomOK
<1>6. Room(st, "data") = CAP - st.blk[h].first
  BY <1>2 DEF Room
<1> QED  BY <1>2, <1>3, <1>4, <1>5, <1>6

(* The bytes to store.                                                     *)
LEMMA PartIs ==
  ASSUME op.rec \in Seq(Byte), rem \in Nat, base \in Nat,
         base + rem <= Len(op.rec), NEW n \in 0 .. rem
  PROVE  Part(n) \in Seq(Byte) /\ Len(Part(n)) = n
<1>1. PICK m \in Int : m = base + rem - n + 1
  OBVIOUS
<1>2. PICK e \in Int : e = base + rem
  OBVIOUS
<1>3. \A i \in m .. e : op.rec[i] \in Byte
  BY <1>1, <1>2
<1>4. SubSeq(op.rec, m, e) \in Seq(Byte)
      /\ Len(SubSeq(op.rec, m, e)) = IF m <= e THEN e - m + 1 ELSE 0
  BY <1>3, SubSeqProperties
<1> QED  BY <1>1, <1>2, <1>4 DEF Part

(* A segment stored in front of the others.                                *)
LEMMA AddSeg ==
  ASSUME Inv, pc = "binsdt", st.head["data"] # ZNULL, NEW n \in 0 .. rem,
         n + ZDOVRH <= Room(st, "data"),
         st' = InsDat(st, "data", n, Part(n), d), d' = InsAddr(st, "data")
  PROVE  /\ st' \in Store(Data) /\ ListsOK(st') /\ SpaceOK(st', "data")
         /\ SameLists(st, st') /\ \A b \in Blk : st'.blk[b].type = st.blk[b].type
         /\ \A b \in BlocksOf(st', "data") : UsedIn(st', b) # {}
         /\ Full(st') /\ d' \in Addr
         /\ Chains(st') /\ Cover(st', index, NoKey, SegsOf(st', d'), lost)
         /\ op.name = "upd" => tail \in Owns(st', index, NoKey, op.key)
                               /\ Nxt(st', tail) = 0
         /\ SegAt(st', d') = [size |-> n, next |-> d, data |-> Part(n)]
         /\ \A c \in Used(st) : SegAt(st', c) = SegAt(st, c)
         /\ Used(st') = Used(st) \cup {d'}
<1> DEFINE h == st.head["data"]  a == InsAddr(st, "data")
<1>1. /\ TypeInv /\ StoreInv /\ OwnInv /\ CallInv /\ PosInv
      /\ st \in Store(Data) /\ ListsOK(st) /\ SpaceOK(st, "data") /\ Full(st)
      /\ rem \in Nat /\ n \in Nat /\ d \in Addr \cup {0}
  BY DEF Inv, TypeInv, StoreInv, PosInv
<1>2. /\ h \in BlocksOf(st, "data") /\ h \in Blk
      /\ Room(st, "data") = CAP - st.blk[h].first
      /\ st.blk[h].free >= Room(st, "data")
      /\ st.blk[h].free \in Nat /\ st.blk[h].first \in Nat
  BY <1>1, HeadRoom
<1>3. /\ st.blk[h].first + ZDOVRH + n <= CAP
      /\ st.blk[h].free >= ZDOVRH + n
  BY <1>1, <1>2, BlkFacts
<1>4. Part(n) \in Seq(Byte) /\ Len(Part(n)) = n /\ Part(n) \in Data
      /\ Part(n) # NoData
  <2>1. op.rec \in Seq(Byte) /\ base \in Nat /\ base + rem <= Len(op.rec)
    BY <1>1 DEF TypeInv, PosInv
  <2>2. Part(n) \in Seq(Byte) /\ Len(Part(n)) = n
    BY <1>1, <2>1, PartIs
  <2> QED  BY <2>2, RecordFacts DEF Data
<1>5. "data" \in Seg
  BY DEF Seg
<1>6. /\ st' \in Store(Data) /\ SameLists(st, st')
      /\ \A c \in Blk \ {h} : st'.blk[c] = st.blk[c]
      /\ a \in Addr /\ BlkOf(a) = h /\ OffOf(a) = st.blk[h].first
      /\ SegAt(st', a) = [size |-> n, next |-> d, data |-> Part(n)]
      /\ \A c \in Addr \ {a} : SegAt(st', c) = SegAt(st, c)
      /\ st'.blk[h].first = st.blk[h].first + ZDOVRH + n
      /\ st'.blk[h].free = st.blk[h].free - (ZDOVRH + n)
  BY <1>1, <1>2, <1>3, <1>4, <1>5, InsDatFields, SMTT(30)
<1>7. SegAt(st', a).size = n /\ SegAt(st', a).data = Part(n)
      /\ Nxt(st', a) = d /\ SegAt(st', a) # NoSeg
  BY <1>4, <1>6 DEF Nxt, NoSeg
<1>8. ListsOK(st')
  BY <1>1, <1>6, ListsFrame
<1>9. \A b \in Blk : st'.blk[b].type = st.blk[b].type
  BY <1>6 DEF SameLists
<1> HIDE DEF h, a
<1>10. SpaceOK(st', "data") /\ a \notin Used(st) /\ Used(st') = Used(st) \cup {a}
  <2>1. st'.blk[h].first = EndOf(st', a)
    BY <1>6, <1>7 DEF EndOf
  <2> QED  BY <1>1, <1>2, <1>6, <1>7, <1>9, <2>1, AddRoom
<1>11. \A b \in BlocksOf(st', "data") : UsedIn(st', b) # {}
  <2> SUFFICES ASSUME NEW b \in BlocksOf(st', "data")
               PROVE  \E c \in Used(st') : BlkOf(c) = b
    BY DEF UsedIn
  <2>1. CASE b = h
    BY <1>6, <1>10, <2>1
  <2>2. CASE b # h
    <3>1. b \in BlocksOf(st, "data")
      BY <1>9 DEF BlocksOf
    <3>2. UsedIn(st, b) # {}
      BY <1>1, <2>2, <3>1 DEF StoreInv, Fresh, h
    <3> QED  BY <1>10, <3>2 DEF UsedIn
  <2> QED  BY <2>1, <2>2
<1>12. Full(st')
  <2> SUFFICES ASSUME NEW c \in Used(st')
               PROVE  SegAt(st', c).data \in Seq(Byte)
                      /\ Len(SegAt(st', c).data) = SegAt(st', c).size
    BY DEF Full
  <2>1. CASE c = a
    BY <1>4, <1>7, <2>1
  <2>2. CASE c # a
    <3>1. c \in Used(st) /\ c \in Addr
      BY <1>10, <2>2 DEF Used
    <3> QED  BY <1>1, <1>6, <2>2, <3>1 DEF Full
  <2> QED  BY <2>1, <2>2
<1>13. \A c \in Addr \ {a} : Nxt(st', c) = Nxt(st, c)
  BY <1>6 DEF Nxt
<1>14. Chains(st) /\ Cover(st, index, NoKey, SegsOf(st, d), lost)
  BY <1>1, CurIs DEF OwnInv
<1>15. index \in [Key -> Addr \cup {ZNULL}]
  BY <1>1 DEF TypeInv
<1>16. /\ Chains(st') /\ Cover(st', index, NoKey, SegsOf(st', a), lost)
       /\ \A k \in Key : Owns(st', index, NoKey, k) = Owns(st, index, NoKey, k)
  BY <1>1, <1>6, <1>7, <1>10, <1>13, <1>14, <1>15, CoverAdd
<1>17. ASSUME op.name = "upd"
       PROVE  tail \in Owns(st', index, NoKey, op.key) /\ Nxt(st', tail) = 0
  <2>1. tail \in Owns(st, index, NoKey, op.key) /\ Nxt(st, tail) = 0
        /\ op.key \in Key
    BY <1>1, <1>17, CurIs DEF PosInv, CallInv, Ended, Kept
  <2>2. tail \in Used(st)
    BY <1>14, <2>1 DEF Cover
  <2>3. tail \in Addr \ {a}
    BY <1>10, <2>2 DEF Used
  <2> QED  BY <1>13, <1>16, <2>1, <2>3
<1>18. \A c \in Used(st) : SegAt(st', c) = SegAt(st, c)
  BY <1>6, <1>10 DEF Used
<1> QED  BY <1>6, <1>8, <1>9, <1>10, <1>11, <1>12, <1>16, <1>17, <1>18 DEF a

(* The rest of the record fits.                                            *)
LEMMA InsRestInv ==
  ASSUME Inv, InsRest
  PROVE  Inv' /\ SameLists(st, st')
<1>1. /\ pc = "binsdt" /\ st.head["data"] # ZNULL
      /\ Room(st, "data") >= rem + ZDOVRH
      /\ st' = InsDat(st, "data", rem, Part(rem), d)
      /\ d' = InsAddr(st, "data") /\ rem' = -1
      /\ pc' = IF op.name = "ins" THEN "binsky" ELSE "relink"
      /\ UNCHANGED <<index, lf, op, base, tail, lost>>
  BY DEF InsRest, unchangedByIns
<1>2. /\ TypeInv /\ CallInv /\ PosInv /\ rem \in 0 .. rem
      /\ op.name \in {"ins", "upd"} /\ op.key \in Key
      /\ op.name = "upd" => index[op.key] # ZNULL
  BY <1>1 DEF Inv, TypeInv, CallInv, PosInv
<1>3. rem + ZDOVRH <= Room(st, "data")
  <2>1. Room(st, "data") \in 0 .. CAP
    BY <1>1, <1>2, HeadRoom DEF Inv
  <2> QED  BY <1>1, <1>2, <2>1, BlkFacts
<1>4. /\ st' \in Store(Data) /\ ListsOK(st') /\ SpaceOK(st', "data")
      /\ SameLists(st, st') /\ \A b \in Blk : st'.blk[b].type = st.blk[b].type
      /\ \A b \in BlocksOf(st', "data") : UsedIn(st', b) # {}
      /\ Full(st') /\ d' \in Addr
      /\ Chains(st') /\ Cover(st', index, NoKey, SegsOf(st', d'), lost)
      /\ op.name = "upd" => tail \in Owns(st', index, NoKey, op.key)
                            /\ Nxt(st', tail) = 0
  BY <1>1, <1>2, <1>3, AddSeg
<1>5. TypeInv'
  BY <1>1, <1>2, <1>4 DEF TypeInv, Routines
<1>6. StoreInv'
  BY <1>4 DEF StoreInv, Inv
<1>7. OwnInv'
  BY <1>1, <1>2, <1>4 DEF OwnInv, Gone, Cur
<1>8. CallInv'
  <2>1. d' # 0
    BY <1>4, LinkFacts, <1>2 DEF TypeInv
  <2> QED  BY <1>1, <1>2, <2>1 DEF CallInv
<1>9. PosInv'
  BY <1>1, <1>2, <1>4 DEF PosInv, Ended, Kept, Gone
<1> QED  BY <1>4, <1>5, <1>6, <1>7, <1>8, <1>9 DEF Inv

(* A segment fills the active block.                                       *)
LEMMA InsPartInv ==
  ASSUME Inv, InsPart
  PROVE  Inv' /\ SameLists(st, st')
<1> DEFINE n == Room(st, "data") - ZDOVRH
<1>1. /\ pc = "binsdt" /\ pc' = pc /\ st.head["data"] # ZNULL
      /\ Room(st, "data") < rem + ZDOVRH
      /\ Room(st, "data") >= ZDOVRH + ZDSGMN
      /\ st' = InsDat(st, "data", n, Part(n), d) /\ rem' = rem - n
      /\ d' = InsAddr(st, "data")
      /\ UNCHANGED <<index, lf, op, base, tail, lost>>
  BY DEF InsPart, unchangedByIns
<1>2. /\ TypeInv /\ CallInv /\ PosInv /\ rem \in Nat /\ base \in Nat
      /\ op.name \in {"ins", "upd"} /\ op.key \in Key
      /\ base + rem <= Len(op.rec) /\ Len(op.rec) \in Nat
      /\ op.name = "upd" => index[op.key] # ZNULL
  BY <1>1 DEF Inv, TypeInv, CallInv, PosInv
<1>3. /\ n \in 0 .. rem /\ n + ZDOVRH <= Room(st, "data")
      /\ rem - n \in Nat /\ base + (rem - n) <= Len(op.rec)
  <2>1. Room(st, "data") \in 0 .. CAP
    BY <1>1, <1>2, HeadRoom DEF Inv
  <2>2. PICK m \in Int : m = Room(st, "data")
    BY <2>1
  <2>3. CAP \in Nat /\ ZDOVRH \in Nat /\ ZDSGMN \in Nat
    BY SegmentConstants
  <2>4. n = m - ZDOVRH /\ n \in 0 .. rem /\ n + ZDOVRH <= m
    BY <1>1, <1>2, <2>1, <2>2, <2>3
  <2>5. rem - n \in Nat /\ base + (rem - n) <= Len(op.rec)
    BY <1>2, <2>4
  <2> QED  BY <2>2, <2>4, <2>5
<1> HIDE DEF n
<1>4. /\ st' \in Store(Data) /\ ListsOK(st') /\ SpaceOK(st', "data")
      /\ SameLists(st, st') /\ \A b \in Blk : st'.blk[b].type = st.blk[b].type
      /\ \A b \in BlocksOf(st', "data") : UsedIn(st', b) # {}
      /\ Full(st') /\ d' \in Addr
      /\ Chains(st') /\ Cover(st', index, NoKey, SegsOf(st', d'), lost)
      /\ op.name = "upd" => tail \in Owns(st', index, NoKey, op.key)
                            /\ Nxt(st', tail) = 0
  BY <1>1, <1>3, AddSeg
<1>5. TypeInv'
  BY <1>1, <1>2, <1>3, <1>4 DEF TypeInv
<1>6. StoreInv'
  BY <1>4 DEF StoreInv, Inv
<1>7. OwnInv'
  BY <1>1, <1>4 DEF OwnInv, Gone, Cur
<1>8. CallInv'
  BY <1>1, <1>2 DEF CallInv
<1>9. PosInv'
  BY <1>1, <1>2, <1>3, <1>4 DEF PosInv, Ended, Kept, Gone
<1> QED  BY <1>4, <1>5, <1>6, <1>7, <1>8, <1>9 DEF Inv

(* A store whose segments stay where they are keeps them divided as they   *)
(* were.                                                                   *)
LEMMA SegsStay ==
  ASSUME Inv, NEW r \in Store(Data), \A a \in Addr : SegAt(r, a) = SegAt(st, a)
  PROVE  /\ Chains(r) /\ Used(r) = Used(st) /\ (Full(st) => Full(r))
         /\ \A gone, lo : \A x \in Int :
              Cover(st, index, gone, SegsOf(st, x), lo) =>
              /\ Cover(r, index, gone, SegsOf(r, x), lo)
              /\ \A k \in Key : Owns(r, index, gone, k) = Owns(st, index, gone, k)
              /\ SegsOf(r, x) = SegsOf(st, x)
<1>1. /\ st \in Store(Data) /\ Chains(st)
      /\ index \in [Key -> Addr \cup {ZNULL}]
  BY DEF Inv, TypeInv, OwnInv
<1>2. Used(r) = Used(st)
  BY DEF Used
<1>3. Used(st) \subseteq Addr
  BY DEF Used
<1>4. \A a \in Used(st) : Nxt(r, a) = Nxt(st, a)
  BY <1>3 DEF Nxt
<1>5. Chains(r)
  BY <1>1, <1>2, <1>4, CoverSame
<1>6. Full(st) => Full(r)
  BY <1>2, <1>3 DEF Full
<1>7. ASSUME NEW gone, NEW lo, NEW x \in Int,
             Cover(st, index, gone, SegsOf(st, x), lo)
      PROVE  /\ Cover(r, index, gone, SegsOf(r, x), lo)
             /\ \A k \in Key : Owns(r, index, gone, k) = Owns(st, index, gone, k)
             /\ SegsOf(r, x) = SegsOf(st, x)
  BY <1>1, <1>2, <1>4, <1>7, CoverLike
<1> QED  BY <1>2, <1>5, <1>6, <1>7

(* A block is asked for only when something was stored in the active one.  *)
LEMMA NoneFresh ==
  ASSUME NeedsBlock, StoreInv
  PROVE  \A b \in BlocksOf(st, "data") : UsedIn(st, b) # {}
<1> SUFFICES ASSUME NEW b \in BlocksOf(st, "data"), b = st.head["data"],
                    st.blk[b].first = 0
             PROVE  FALSE
  BY DEF StoreInv, Fresh
<1>1. b # ZNULL
  BY BlkFacts DEF BlocksOf
<1>2. Room(st, "data") = CAP
  BY BlkFacts DEF Room
<1> QED  BY <1>1, <1>2, SegmentConstants DEF NeedsBlock

(* A new active block, which the next step writes to.                      *)
LEMMA InsBlockInv ==
  ASSUME Inv, InsBlock
  PROVE  Inv' /\ \A a \in Addr : SegAt(st', a) = SegAt(st, a)
<1> DEFINE m == GetFree(st)
<1>1. /\ pc = "binsdt" /\ NeedsBlock /\ m # ZNULL
      /\ st' = NewHead(st, "data") /\ pc' = pc
      /\ UNCHANGED <<index, lf, op, base, tail, lost, d, rem>>
  BY DEF InsBlock, unchangedByIns, NewHead
<1>2. /\ TypeInv /\ StoreInv /\ OwnInv /\ CallInv /\ PosInv
      /\ st \in Store(Data) /\ ListsOK(st) /\ SpaceOK(st, "data") /\ Full(st)
      /\ rem \in Int /\ d \in Addr \cup {0} /\ d \in Int
  BY LinkFacts DEF Inv, TypeInv, StoreInv
<1>3. "data" \in Seg
  BY DEF Seg
<1>4. /\ st' \in Store(Data) /\ m \in Blk
      /\ st'.head = [st.head EXCEPT !["data"] = m]
      /\ \A b \in Blk :
           /\ st'.blk[b].type = IF b = m THEN "data" ELSE st.blk[b].type
           /\ st'.blk[b].free = IF b = m THEN CAP ELSE st.blk[b].free
           /\ st'.blk[b].first = IF b = m THEN 0 ELSE st.blk[b].first
           /\ st'.blk[b].seg = st.blk[b].seg
  BY <1>1, <1>2, <1>3, NewHeadFields
<1>5. st.blk[m].type \in {"none", "free"}
  BY <1>1, <1>2, GetFreeBlock
<1>6. ListsOK(st')
  BY <1>1, <1>2, <1>3, NewHeadOK
<1>7. st'.head["data"] = m
  BY <1>2, <1>3, <1>4, StoreFields
<1> HIDE DEF m
<1>8. /\ SpaceOK(st', "data") /\ \A a \in Addr : SegAt(st', a) = SegAt(st, a)
      /\ \A b : UsedIn(st', b) = UsedIn(st, b)
  <2>1. \A b \in BlocksOf(st, "data") :
          /\ b \in Blk /\ b # m /\ st.blk[b].type = "data"
          /\ st'.blk[b].type = "data" /\ st'.blk[b].free = st.blk[b].free
          /\ st'.blk[b].first = st.blk[b].first
    BY <1>4, <1>5 DEF BlocksOf
  <2>2. \A b \in BlocksOf(st', "data") \ BlocksOf(st, "data") :
          st'.blk[b].free = CAP /\ st'.blk[b].first = 0
    BY <1>4 DEF BlocksOf
  <2> QED  BY <1>2, <1>4, <2>1, <2>2, SpaceSame
<1>9. /\ Chains(st') /\ Full(st')
      /\ Cover(st', index, NoKey, SegsOf(st', d), lost)
      /\ \A k \in Key : Owns(st', index, NoKey, k) = Owns(st, index, NoKey, k)
  <2>1. Cover(st, index, NoKey, SegsOf(st, d), lost)
    BY <1>1, <1>2, CurIs DEF OwnInv
  <2> QED  BY <1>2, <1>4, <1>8, <2>1, SegsStay
<1>10. TypeInv'
  BY <1>1, <1>2, <1>4 DEF TypeInv
<1>11. StoreInv'
  <2>1. \A b \in Blk : st'.blk[b].type # "dup"
    BY <1>2, <1>4 DEF StoreInv
  <2>2. ASSUME NEW b \in BlocksOf(st', "data"), b # m PROVE UsedIn(st', b) # {}
    <3>1. b \in BlocksOf(st, "data")
      BY <1>4, <2>2 DEF BlocksOf
    <3> QED  BY <1>1, <1>2, <1>8, <3>1, NoneFresh
  <2>3. pc' = "binsdt" /\ m = st'.head["data"] /\ st'.blk[m].first = 0
    BY <1>1, <1>4, <1>7
  <2>4. \A b \in BlocksOf(st', "data") : UsedIn(st', b) # {} \/ Fresh(b)'
    BY <2>2, <2>3 DEF Fresh
  <2> QED  BY <1>6, <1>8, <1>9, <2>1, <2>4 DEF StoreInv
<1>12. OwnInv'
  BY <1>1, <1>9 DEF OwnInv, Gone, Cur
<1>13. CallInv'
  BY <1>1, <1>2 DEF CallInv
<1>14. PosInv'
  <2>1. ASSUME op.name = "upd" PROVE Ended'
    <3>1. tail \in Owns(st, index, NoKey, op.key) /\ Nxt(st, tail) = 0
          /\ op.key \in Key
      BY <1>1, <1>2, <2>1, CurIs DEF PosInv, CallInv, Ended, Kept
    <3>2. tail \in Addr
      <4>1. tail \in Used(st)
        BY <1>1, <1>2, <3>1, CurIs DEF OwnInv, Cover
      <4> QED  BY <4>1 DEF Used
    <3>3. Nxt(st', tail) = 0
      BY <1>8, <3>1, <3>2 DEF Nxt
    <3> QED  BY <1>1, <1>9, <3>1, <3>3 DEF Ended, Kept, Gone
  <2> QED  BY <1>1, <1>2, <2>1 DEF PosInv
<1> QED  BY <1>8, <1>10, <1>11, <1>12, <1>13, <1>14 DEF Inv

(* No block is to be had.                                                  *)
LEMMA InsFailsInv ==
  ASSUME Inv, InsFails
  PROVE  Inv'
<1>1. /\ pc = "binsdt" /\ NeedsBlock /\ st' = st /\ index' = index /\ lf' = lf
      /\ lost' = lost \cup SegsOf(st, d)
  BY DEF InsFails, unchangedByIns
<1>2. /\ TypeInv /\ StoreInv /\ OwnInv /\ CallInv /\ PosInv
      /\ st \in Store(Data) /\ d \in Addr \cup {0}
      /\ op.name \in {"ins", "upd"} /\ op.key \in Key
  BY <1>1 DEF Inv, TypeInv, CallInv
<1>3. StoreInv'
  BY <1>1, <1>2, NoneFresh DEF StoreInv
<1>4. Chains(st) /\ Cover(st, index, NoKey, {}, lost')
  <2>1. Cover(st, index, NoKey, SegsOf(st, d), lost) /\ Chains(st)
    BY <1>1, <1>2, CurIs DEF OwnInv
  <2> QED  BY <1>1, <1>2, <2>1, CoverLost
<1>5. CASE op.name = "ins"
  <2>1. Return(First(NoFree(st)))
    BY <1>5 DEF InsFails
  <2> QED  BY <1>1, <1>2, <1>3, <1>4, <2>1, ReturnInv DEF TypeInv
<1>6. CASE op.name # "ins"
  <2>1. /\ d' = 0 /\ pc' = "relink"
        /\ UNCHANGED <<index, lf, op, base, tail, rem>>
    BY <1>6 DEF InsFails, unchangedByIns
  <2>2. TypeInv'
    BY <1>1, <1>2, <2>1 DEF TypeInv, Routines
  <2>3. OwnInv'
    <3>1. SegsOf(st, 0) = {}
      BY <1>2, CurIs
    <3> QED  BY <1>1, <1>4, <2>1, <3>1 DEF OwnInv, Gone, Cur
  <2>4. CallInv'
    BY <1>1, <1>2, <1>6, <2>1 DEF CallInv
  <2>5. PosInv'
    BY <1>1, <1>2, <1>6, <2>1 DEF PosInv, Ended, Kept, Gone
  <2> QED  BY <1>3, <2>2, <2>3, <2>4, <2>5 DEF Inv
<1> QED  BY <1>5, <1>6

----------------------------------------------------------------------------
(* binsky and bdelky.                                                      *)

(* The store after the tree took a block or gave one back.                 *)
LEMMA TreeBlocks ==
  ASSUME Inv, pc # "binsdt", NEW r,
         r \in {st} \cup TreeTakes(st) \cup TreeGives(st)
  PROVE  /\ r \in Store(Data) /\ ListsOK(r) /\ SpaceOK(r, "data")
         /\ \A b \in Blk : r.blk[b].type # "dup"
         /\ \A b \in BlocksOf(r, "data") : UsedIn(r, b) # {}
         /\ \A a \in Addr : SegAt(r, a) = SegAt(st, a)
         /\ BlocksOf(r, "data") = BlocksOf(st, "data") /\ r.head = st.head
         /\ \A b \in BlocksOf(st, "data") : r.blk[b].nxt = st.blk[b].nxt
<1>1. /\ st \in Store(Data) /\ StoreInv /\ ListsOK(st) /\ SpaceOK(st, "data")
      /\ \A b \in Blk : st.blk[b].type # "dup"
      /\ \A b \in BlocksOf(st, "data") : UsedIn(st, b) # {}
  BY DEF Inv, TypeInv, StoreInv, Fresh
<1>2. CASE r = st
  BY <1>1, <1>2
<1>3. ASSUME NEW n, n \in Blk, st.blk[n].type # "data", r.blk[n].type # "data",
             r.blk[n].type # "dup", r.head = st.head,
             r \in Store(Data), ListsOK(r),
             \A b \in Blk : r.blk[b].seg = st.blk[b].seg,
             \A b \in Blk \ {n} : /\ r.blk[b].type = st.blk[b].type
                                  /\ r.blk[b].free = st.blk[b].free
                                  /\ r.blk[b].first = st.blk[b].first
                                  /\ r.blk[b].nxt = st.blk[b].nxt
      PROVE  /\ SpaceOK(r, "data")
             /\ \A b \in Blk : r.blk[b].type # "dup"
             /\ \A b \in BlocksOf(r, "data") : UsedIn(r, b) # {}
             /\ \A a \in Addr : SegAt(r, a) = SegAt(st, a)
             /\ BlocksOf(r, "data") = BlocksOf(st, "data")
             /\ \A b \in BlocksOf(st, "data") : r.blk[b].nxt = st.blk[b].nxt
  <2>1. BlocksOf(r, "data") = BlocksOf(st, "data")
    BY <1>3 DEF BlocksOf
  <2>2. \A b \in BlocksOf(st, "data") :
          /\ r.blk[b].type = "data" /\ r.blk[b].free = st.blk[b].free
          /\ r.blk[b].first = st.blk[b].first
          /\ r.blk[b].nxt = st.blk[b].nxt
    BY <1>3 DEF BlocksOf
  <2>3. /\ SpaceOK(r, "data") /\ \A a \in Addr : SegAt(r, a) = SegAt(st, a)
        /\ \A b : UsedIn(r, b) = UsedIn(st, b)
    BY <1>1, <1>3, <2>1, <2>2, SpaceSame
  <2> QED  BY <1>1, <1>3, <2>1, <2>2, <2>3
<1>4. CASE r \in TreeTakes(st)
  <2>1. r = ForTree(st) /\ GetFree(st) # ZNULL
    BY <1>4 DEF TreeTakes, ForTree
  <2>2. PICK n : n = GetFree(st)
    OBVIOUS
  <2>3. /\ r \in Store(Data) /\ ListsOK(r) /\ n \in Blk
        /\ st.blk[n].type \in {"none", "free"} /\ r.head = st.head
        /\ \A b \in Blk :
             /\ r.blk[b].type = IF b = n THEN "index" ELSE st.blk[b].type
             /\ r.blk[b].free = st.blk[b].free
             /\ r.blk[b].first = st.blk[b].first
             /\ r.blk[b].seg = st.blk[b].seg
             /\ r.blk[b].nxt = st.blk[b].nxt
    BY <1>1, <2>1, <2>2, TreeTakesOK
  <2> QED  BY <1>3, <2>3
<1>5. CASE r \in TreeGives(st)
  <2>1. PICK b \in BlocksOf(st, "index") : r = MakeFree(st, b)
    BY <1>5 DEF TreeGives
  <2>2. /\ r \in Store(Data) /\ ListsOK(r) /\ b \in Blk /\ r.head = st.head
        /\ \A c \in Blk :
             /\ r.blk[c].type = IF c = b THEN "free" ELSE st.blk[c].type
             /\ r.blk[c].free = IF c = b THEN 0 ELSE st.blk[c].free
             /\ r.blk[c].first = IF c = b THEN 0 ELSE st.blk[c].first
             /\ r.blk[c].seg = st.blk[c].seg
             /\ c # b => r.blk[c].nxt = st.blk[c].nxt
    BY <1>1, <2>1, TreeGivesOK
  <2>3. st.blk[b].type = "index"
    BY DEF BlocksOf
  <2> QED  BY <1>3, <2>2, <2>3
<1> QED  BY <1>2, <1>4, <1>5

(* The key of a new record.                                                *)
LEMMA InsKeyInv ==
  ASSUME Inv, InsKey
  PROVE  Inv'
<1>1. /\ pc = "binsky" /\ op.key \notin Stored
      /\ index' = [index EXCEPT ![op.key] = d]
      /\ lf' = [key |-> op.key, exct |-> FALSE]
      /\ st' \in {st} \cup TreeTakes(st)
      /\ Return("OK") /\ lost' = lost
  BY DEF InsKey
<1>2. /\ TypeInv /\ OwnInv /\ CallInv /\ st \in Store(Data) /\ StoreInv
      /\ op.key \in Key /\ d \in Addr /\ index[op.key] = ZNULL /\ d # ZNULL
      /\ d \in Int /\ index \in [Key -> Addr \cup {ZNULL}]
  BY <1>1, AddrParts DEF Inv, TypeInv, CallInv, Stored
<1>3. /\ st' \in Store(Data) /\ ListsOK(st') /\ SpaceOK(st', "data")
      /\ \A b \in Blk : st'.blk[b].type # "dup"
      /\ \A b \in BlocksOf(st', "data") : UsedIn(st', b) # {}
      /\ \A a \in Addr : SegAt(st', a) = SegAt(st, a)
  BY <1>1, TreeBlocks
<1>4. Chains(st') /\ Full(st') /\ Cover(st', index, NoKey, SegsOf(st', d), lost)
  <2>1. Cover(st, index, NoKey, SegsOf(st, d), lost)
    BY <1>1, <1>2, CurIs DEF OwnInv
  <2> QED  BY <1>2, <1>3, <2>1, SegsStay DEF StoreInv
<1>5. Cover(st', index', NoKey, {}, lost')
  BY <1>1, <1>2, <1>4, CoverKey
<1>6. StoreInv'
  BY <1>3, <1>4 DEF StoreInv
<1>7. /\ index' \in [Key -> Addr \cup {ZNULL}]
      /\ lf' \in [key : Key \cup {NoKey}, exct : BOOLEAN]
  BY <1>1, <1>2
<1> QED  BY <1>1, <1>2, <1>3, <1>4, <1>5, <1>6, <1>7, ReturnInv

(* The key is not inserted.                                                *)
LEMMA InsKeyFailsInv ==
  ASSUME Inv, InsKeyFails
  PROVE  Inv'
<1>1. /\ pc = "binsky" /\ pc' = "bdeldt"
      /\ \E e \in BOOLEAN : lf' = [key |-> op.key, exct |-> e]
      /\ UNCHANGED <<st, index, op, d, rem, base, tail, lost>>
  BY DEF InsKeyFails, local
<1>2. /\ TypeInv /\ StoreInv /\ OwnInv /\ CallInv /\ op.key \in Key
      /\ op.name = "ins"
  BY <1>1 DEF Inv, CallInv
<1>3. TypeInv'
  <2>1. lf' \in [key : Key \cup {NoKey}, exct : BOOLEAN]
    BY <1>1, <1>2
  <2> QED  BY <1>1, <1>2, <2>1 DEF TypeInv, Routines
<1>4. StoreInv'
  BY <1>1, <1>2, StoreStays
<1>5. OwnInv'
  BY <1>1, <1>2, CurIs DEF OwnInv, Gone, Cur
<1>6. CallInv'
  BY <1>1, <1>2 DEF CallInv
<1>7. PosInv'
  BY <1>1, <1>2 DEF PosInv
<1> QED  BY <1>3, <1>4, <1>5, <1>6, <1>7 DEF Inv

----------------------------------------------------------------------------
(* bupddt and the link to what it could not overwrite.                     *)

(* A segment overwritten by one that is no longer.                         *)
LEMMA Overwritten ==
  ASSUME Inv, pc # "binsdt", NEW a \in Used(st), NEW x \in SegRec(Data),
         x.data \in Seq(Byte), Len(x.data) = x.size,
         x.size <= SegAt(st, a).size,
         NEW r \in Store(Data), SameLists(st, r), SegAt(r, a) = x,
         \A c \in Addr \ {a} : SegAt(r, c) = SegAt(st, c),
         r.blk[BlkOf(a)].free =
           st.blk[BlkOf(a)].free + SegAt(st, a).size - x.size,
         \A c \in Blk : r.blk[c].first = st.blk[c].first,
         \A c \in Blk \ {BlkOf(a)} : r.blk[c].free = st.blk[c].free
  PROVE  /\ ListsOK(r) /\ SpaceOK(r, "data") /\ Used(r) = Used(st) /\ Full(r)
         /\ \A b \in Blk : r.blk[b].type # "dup"
         /\ \A b \in BlocksOf(r, "data") : UsedIn(r, b) # {}
         /\ \A c \in Addr \ {a} : Nxt(r, c) = Nxt(st, c)
         /\ Nxt(r, a) = x.next
<1>1. /\ st \in Store(Data) /\ ListsOK(st) /\ SpaceOK(st, "data") /\ Full(st)
      /\ \A b \in Blk : st.blk[b].type # "dup"
      /\ \A b \in BlocksOf(st, "data") : UsedIn(st, b) # {}
  BY DEF Inv, TypeInv, StoreInv, Fresh
<1>2. x # NoSeg /\ SegAt(r, a) # NoSeg
  <2>1. x.data # NoData
    BY RecordFacts
  <2> QED  BY <2>1 DEF NoSeg
<1>3. \A c \in Blk : r.blk[c].type = st.blk[c].type
  BY DEF SameLists
<1>4. SpaceOK(r, "data") /\ Used(r) = Used(st)
  BY <1>1, <1>2, <1>3, CutRoom
<1>5. BlocksOf(r, "data") = BlocksOf(st, "data")
  BY <1>3 DEF BlocksOf
<1>6. Full(r)
  <2> SUFFICES ASSUME NEW c \in Used(st)
               PROVE  SegAt(r, c).data \in Seq(Byte)
                      /\ Len(SegAt(r, c).data) = SegAt(r, c).size
    BY <1>4 DEF Full
  <2>1. c \in Addr
    BY DEF Used
  <2> QED  BY <1>1, <2>1 DEF Full
<1>7. ListsOK(r)
  BY <1>1, ListsFrame
<1>8. /\ \A c \in Addr \ {a} : Nxt(r, c) = Nxt(st, c)
      /\ Nxt(r, a) = x.next
  BY DEF Nxt
<1> QED  BY <1>1, <1>3, <1>4, <1>5, <1>6, <1>7, <1>8 DEF UsedIn

(* One segment overwritten.                                                *)
LEMMA UpdSegInv ==
  ASSUME Inv, UpdSeg
  PROVE  /\ Inv' /\ SameLists(st, st') /\ d \in Used(st) /\ Used(st') = Used(st)
         /\ tail = 0 \/ rem > 0 => d \in Owns(st, index, NoKey, op.key)
         /\ \A c \in Addr \ {d} : SegAt(st', c) = SegAt(st, c)
         /\ \A n : n = Copied(SegAt(st, d)) =>
              /\ n \in 0 .. rem /\ (n # rem => n = SegAt(st, d).size)
              /\ SegAt(st', d) =
                   [size |-> n, next |-> IF n = rem THEN 0 ELSE SegAt(st, d).next,
                    data |-> SubSeq(op.rec, base + 1, base + n)]
<1> DEFINE s == SegAt(st, d)  n == Copied(s)  b == BlkOf(d)
           new == [size |-> n, next |-> IF n = rem THEN 0 ELSE s.next,
                   data |-> SubSeq(op.rec, base + 1, base + n)]
           u == SetSeg(st, d, new)
           f == IF n = rem THEN st.blk[b].free + s.size - n ELSE st.blk[b].free
<1>1. /\ pc = "bupddt" /\ pc' = pc /\ d # 0 /\ rem >= 0
      /\ rem' = (IF n = rem /\ n = 0 THEN -1 ELSE rem - n)
      /\ base' = base + n /\ d' = s.next /\ tail' = d
      /\ lost' = (IF rem = 0 /\ tail # 0 THEN lost \cup {d} ELSE lost)
      /\ UNCHANGED <<index, lf, op>>
      /\ st' = [u EXCEPT !.blk[b].free = IF n = rem THEN @ + s.size - n ELSE @]
  BY DEF UpdSeg
<1>2. /\ TypeInv /\ StoreInv /\ OwnInv /\ CallInv /\ PosInv /\ UpdInv
      /\ st \in Store(Data) /\ SpaceOK(st, "data") /\ Full(st)
      /\ d \in Addr /\ rem \in Nat /\ base \in Nat /\ b \in Blk
      /\ op.name = "upd" /\ op.key \in Key /\ index[op.key] # ZNULL
      /\ op.rec \in Seq(Byte) /\ Len(op.rec) \in Nat
      /\ base + rem = Len(op.rec)
      /\ index \in [Key -> Addr \cup {ZNULL}]
  BY <1>1, AddrParts DEF Inv, TypeInv, StoreInv, CallInv, PosInv, UpdInv
<1>3. /\ s \in SegRec(Data) /\ s.size \in 0 .. CAP /\ s.size \in Nat
      /\ s.next \in Addr \cup {0} /\ s.next \in Int /\ s.next = Nxt(st, d)
      /\ CAP \in Nat /\ st.blk[b].free \in Nat
  <2>1. s \in SegRec(Data) /\ CAP \in Nat /\ st.blk[b].free \in 0 .. CAP
    BY <1>2, StoreFields, BlkFacts
  <2>2. s.next \in Int
    BY <1>2, <2>1, LinkFacts DEF SegRec
  <2> QED  BY <2>1, <2>2 DEF SegRec, Nxt
<1>4. n \in 0 .. rem /\ n \in Nat /\ n <= s.size /\ (n # rem => n = s.size)
  BY <1>2, <1>3 DEF Copied
<1>5. SubSeq(op.rec, base + 1, base + n) \in Seq(Byte)
      /\ Len(SubSeq(op.rec, base + 1, base + n)) = n
  <2>1. PICK m \in Int : m = base + 1
    BY <1>2
  <2>2. PICK e \in Int : e = base + n
    BY <1>2, <1>4
  <2>3. \A i \in m .. e : op.rec[i] \in Byte
    BY <1>2, <1>4, <2>1, <2>2
  <2>4. SubSeq(op.rec, m, e) \in Seq(Byte)
        /\ Len(SubSeq(op.rec, m, e)) = IF m <= e THEN e - m + 1 ELSE 0
    BY <2>3, SubSeqProperties
  <2> QED  BY <1>2, <1>4, <2>1, <2>2, <2>4
<1>6. new \in SegRec(Data)
  <2>1. n \in 0 .. CAP
    BY <1>3, <1>4
  <2>2. (IF n = rem THEN 0 ELSE s.next) \in Addr \cup {0}
    BY <1>3
  <2> QED  BY <1>5, <2>1, <2>2 DEF SegRec, Data
<1>7. /\ new.size = n /\ new.next = (IF n = rem THEN 0 ELSE s.next)
      /\ new.data = SubSeq(op.rec, base + 1, base + n)
  OBVIOUS
<1> HIDE DEF s, new, n, u, f, b
<1>8. /\ pc = "bupddt" /\ Gone = NoKey /\ Gone' = NoKey /\ Chains(st)
      /\ Cover(st, index, NoKey, Cur, lost)
      /\ tail = 0 \/ rem > 0 => Cur = {} /\ d \in Owns(st, index, NoKey, op.key)
      /\ tail # 0 /\ rem = 0 => Cur = SegsOf(st, d)
      /\ d \in Used(st)
  <2>1. /\ Gone = NoKey /\ Gone' = NoKey /\ Chains(st)
        /\ Cover(st, index, NoKey, Cur, lost)
        /\ tail = 0 \/ rem > 0 => Cur = {}
        /\ tail # 0 /\ rem = 0 => Cur = SegsOf(st, d)
    BY <1>1, <1>2, CurIs DEF OwnInv, Gone
  <2>2. ASSUME tail = 0 \/ rem > 0
        PROVE  d \in Owns(st, index, NoKey, op.key)
    <3>1. CASE tail = 0
      <4>1. d = index[op.key] /\ op.key # NoKey
        BY <1>2, <3>1, RecordFacts DEF UpdInv
      <4> QED  BY <1>2, <4>1, OwnsChain
    <3>2. CASE tail # 0
      <4>1. tail \in Owns(st, index, NoKey, op.key) /\ Nxt(st, tail) = d
        BY <1>2, <2>1, <2>2, <3>2 DEF UpdInv, Kept
      <4>2. d \in Owns(st, index, NoKey, op.key) \cup {0}
        BY <1>2, <4>1, OwnsChain
      <4> QED  BY <1>1, <4>2
    <3> QED  BY <3>1, <3>2
  <2>3. d \in Used(st)
    <3>1. CASE tail = 0 \/ rem > 0
      BY <1>2, <2>1, <2>2, <3>1 DEF Cover
    <3>2. CASE tail # 0 /\ rem = 0
      <4>1. d \in SegsOf(st, d)
        BY <1>2, ChainStep
      <4> QED  BY <2>1, <3>2, <4>1 DEF Cover
    <3> QED  BY <1>2, <3>1, <3>2
  <2> QED  BY <1>1, <2>1, <2>2, <2>3
<1>9. /\ u \in Store(Data) /\ SameLists(st, u)
      /\ \A c \in Blk : /\ u.blk[c].free = st.blk[c].free
                        /\ u.blk[c].first = st.blk[c].first
      /\ SegAt(u, d) = new
      /\ \A c \in Addr \ {d} : SegAt(u, c) = SegAt(st, c)
  BY <1>2, <1>6, SetSegFields DEF u
<1>10. f \in 0 .. CAP
  <2>1. FreedTo(st, d) \in 0 .. CAP
        /\ FreedTo(st, d) = st.blk[b].free + SegAt(st, d).size + ZDOVRH
    BY <1>2, <1>8, FreedIs DEF b
  <2> QED  BY <1>3, <1>4, <2>1, BlkFacts DEF f, s
<1>11. st' = SetFree(u, b, f)
  <2>1. u.blk[b].free = st.blk[b].free
    BY <1>2, <1>9
  <2> QED  BY <1>1, <2>1 DEF SetFree, f
<1>12. /\ st' \in Store(Data) /\ SameLists(st, st')
       /\ \A c \in Blk : /\ st'.blk[c].free = IF c = b THEN f
                                              ELSE st.blk[c].free
                         /\ st'.blk[c].first = st.blk[c].first
       /\ SegAt(st', d) = new
       /\ \A c \in Addr \ {d} : SegAt(st', c) = SegAt(st, c)
  <2>1. /\ SetFree(u, b, f) \in Store(Data) /\ SameLists(u, SetFree(u, b, f))
        /\ \A c \in Blk :
             /\ SetFree(u, b, f).blk[c].free = IF c = b THEN f
                                               ELSE u.blk[c].free
             /\ SetFree(u, b, f).blk[c].first = u.blk[c].first
        /\ \A a \in Addr : SegAt(SetFree(u, b, f), a) = SegAt(u, a)
    BY <1>2, <1>9, <1>10, SetFreeFields
  <2> QED  BY <1>2, <1>9, <1>11, <2>1 DEF SameLists
<1>13. f = st.blk[b].free + s.size - n
  BY <1>3, <1>4 DEF f
<1>14. /\ ListsOK(st') /\ SpaceOK(st', "data") /\ Used(st') = Used(st)
       /\ Full(st') /\ \A c \in Blk : st'.blk[c].type # "dup"
       /\ \A c \in BlocksOf(st', "data") : UsedIn(st', c) # {}
       /\ \A c \in Addr \ {d} : Nxt(st', c) = Nxt(st, c)
       /\ Nxt(st', d) = (IF n = rem THEN 0 ELSE s.next)
  <2>1. /\ new.data \in Seq(Byte) /\ Len(new.data) = new.size
        /\ new.size <= SegAt(st, d).size
    BY <1>4, <1>5, <1>7 DEF s
  <2>2. /\ st'.blk[BlkOf(d)].free =
             st.blk[BlkOf(d)].free + SegAt(st, d).size - new.size
        /\ \A c \in Blk \ {BlkOf(d)} : st'.blk[c].free = st.blk[c].free
    BY <1>2, <1>7, <1>12, <1>13 DEF s, b
  <2>3. /\ Inv /\ pc # "binsdt" /\ d \in Used(st) /\ new \in SegRec(Data)
        /\ st' \in Store(Data) /\ SameLists(st, st') /\ SegAt(st', d) = new
        /\ \A c \in Addr \ {d} : SegAt(st', c) = SegAt(st, c)
        /\ \A c \in Blk : st'.blk[c].first = st.blk[c].first
    BY <1>1, <1>6, <1>8, <1>12
  <2> QED  BY <1>7, <2>1, <2>2, <2>3, Overwritten
<1>15. TypeInv'
  BY <1>1, <1>2, <1>3, <1>4, <1>12 DEF TypeInv
<1>16. StoreInv'
  BY <1>14 DEF StoreInv
<1>17. CallInv'
  BY <1>1, <1>2 DEF CallInv
<1>18. OwnInv' /\ UpdInv'
  <2>1. CASE n # rem
    <3>1. rem > 0 /\ rem' > 0 /\ lost' = lost /\ Cur' = {} /\ rem' = rem - n
      BY <1>1, <1>2, <1>4, <2>1 DEF Cur, Cut
    <3>2. /\ Chains(st') /\ Cover(st', index, NoKey, {}, lost)
          /\ d \in Owns(st', index, NoKey, op.key)
      <4>1. \A c \in Used(st) : Nxt(st', c) = Nxt(st, c)
        BY <1>3, <1>14, <2>1 DEF Used
      <4>2. SegsOf(st', 0) = {} /\ SegsOf(st, 0) = {} /\ Cur = {} /\ 0 \in Int
        BY <1>2, <1>8, <1>12, <3>1, ChainStep
      <4>3. Cover(st, index, NoKey, SegsOf(st, 0), lost)
        BY <1>8, <4>2
      <4>4. /\ Chains(st') /\ Cover(st', index, NoKey, SegsOf(st', 0), lost)
            /\ \A k \in Key : Owns(st', index, NoKey, k) = Owns(st, index, NoKey, k)
        BY <1>2, <1>8, <1>12, <1>14, <4>1, <4>2, <4>3, CoverLike
      <4> QED  BY <1>2, <1>8, <3>1, <4>2, <4>4
    <3>3. OwnInv'
      BY <1>1, <1>8, <3>1, <3>2 DEF OwnInv
    <3>4. UpdInv'
      <4>1. /\ tail' # 0 /\ rem' \in Int /\ base' \in Int /\ op' = op
            /\ base' + rem' = Len(op.rec) /\ base' <= Len(op.rec)
            /\ rem' > 0 /\ tail' = d
        BY <1>1, <1>2, <1>4, <3>1
      <4>2. tail' \in Kept(op.key)' /\ Nxt(st', tail') = d'
        BY <1>1, <1>3, <1>8, <1>14, <2>1, <3>2 DEF Kept
      <4> QED  BY <4>1, <4>2 DEF UpdInv
    <3> QED  BY <3>3, <3>4
  <2>2. CASE n = rem /\ (tail = 0 \/ rem > 0)
    <3>1. /\ rem' \in {0, -1} /\ lost' = lost /\ base' = Len(op.rec)
          /\ Cur' = SegsOf(st', Nxt(st, d)) /\ (rem' = 0 => rem' + base' = Len(op.rec))
      BY <1>1, <1>2, <1>3, <1>4, <2>2 DEF Cur, Cut
    <3>2. /\ Chains(st') /\ Cover(st', index, NoKey, SegsOf(st', Nxt(st, d)), lost)
          /\ d \in Owns(st', index, NoKey, op.key)
      <4>1. Cover(st, index, NoKey, {}, lost) /\ Nxt(st', d) = 0
            /\ d \in Owns(st, index, NoKey, op.key)
        BY <1>8, <1>14, <2>2
      <4> QED  BY <1>2, <1>8, <1>12, <1>14, <4>1, CoverCut
    <3>3. OwnInv'
      BY <1>1, <1>8, <3>1, <3>2 DEF OwnInv
    <3>4. UpdInv'
      <4>1. /\ tail' # 0 /\ op' = op /\ base' <= Len(op.rec) /\ tail' = d
            /\ rem' \in {0, -1}
        BY <1>1, <1>2, <3>1
      <4>2. Ended'
        BY <1>1, <1>8, <1>14, <2>2, <3>2 DEF Kept, Ended
      <4> QED  BY <3>1, <4>1, <4>2 DEF UpdInv
    <3> QED  BY <3>3, <3>4
  <2>3. CASE tail # 0 /\ rem = 0
    <3>1. /\ n = rem /\ rem' = -1 /\ lost' = lost \cup {d} /\ base' = base
          /\ Cur' = SegsOf(st', Nxt(st, d))
      BY <1>1, <1>2, <1>3, <1>4, <2>3 DEF Cur, Cut
    <3>2. /\ Chains(st')
          /\ Cover(st', index, NoKey, SegsOf(st', Nxt(st, d)), lost \cup {d})
      <4>1. Cover(st, index, NoKey, SegsOf(st, d), lost) /\ Nxt(st', d) = 0
        BY <1>8, <1>14, <2>3, <3>1
      <4> QED  BY <1>2, <1>8, <1>12, <1>14, <4>1, CoverLose
    <3>3. OwnInv'
      BY <1>1, <1>8, <3>1, <3>2 DEF OwnInv
    <3>4. UpdInv'
      BY <1>1, <1>2, <3>1 DEF UpdInv
    <3> QED  BY <3>3, <3>4
  <2> QED  BY <1>2, <2>1, <2>2, <2>3
<1>19. PosInv'
  BY <1>1, <1>18 DEF PosInv
<1>20. /\ \A c \in Addr \ {d} : SegAt(st', c) = SegAt(st, c)
       /\ n = Copied(SegAt(st, d)) /\ n \in 0 .. rem
       /\ n # rem => n = SegAt(st, d).size
       /\ SegAt(st', d) =
            [size |-> n, next |-> IF n = rem THEN 0 ELSE SegAt(st, d).next,
             data |-> SubSeq(op.rec, base + 1, base + n)]
  BY <1>4, <1>12 DEF new, n, s
<1> QED  BY <1>8, <1>12, <1>14, <1>15, <1>16, <1>17, <1>18, <1>19, <1>20 DEF Inv

(* The loop of bupddt has ended.                                           *)
LEMMA UpdRestInv ==
  ASSUME Inv, UpdRest
  PROVE  Inv'
<1>1. /\ pc = "bupddt" /\ (d = 0 \/ rem < 0)
      /\ UNCHANGED <<st, index, lost>>
  BY DEF UpdRest
<1>2. /\ TypeInv /\ StoreInv /\ OwnInv /\ CallInv /\ UpdInv
      /\ op.name = "upd" /\ op.key \in Key /\ index[op.key] # ZNULL
      /\ d \in Addr \cup {0} /\ rem \in Int /\ base \in Nat
      /\ Len(op.rec) \in Nat /\ index[op.key] \in Addr /\ 0 \notin Addr
  <2>1. 0 \notin Addr
    BY AddrParts
  <2> QED  BY <1>1, <2>1 DEF Inv, TypeInv, CallInv, PosInv
<1>3. tail # 0
  BY <1>1, <1>2 DEF UpdInv
<1>4. StoreInv'
  BY <1>1, <1>2 DEF StoreInv, Fresh
<1>5. CASE d = 0 /\ rem <= 0
  <2>1. Return(err) /\ lf' = lf
    BY <1>5 DEF UpdRest
  <2>2. Chains(st) /\ Cover(st, index, NoKey, {}, lost)
    BY <1>1, <1>2, <1>3, <1>5, CurIs DEF OwnInv
  <2> QED  BY <1>1, <1>2, <1>4, <2>1, <2>2, ReturnInv DEF TypeInv
<1>6. CASE ~(d = 0 /\ rem <= 0)
  <2>1. /\ pc' = (IF d # 0 THEN "bdeldt" ELSE "binsdt")
        /\ UNCHANGED <<lf, op, d, rem, base, tail>>
    BY <1>6 DEF UpdRest, local
  <2>2. TypeInv'
    BY <1>1, <1>2, <2>1 DEF TypeInv, Routines
  <2>3. CallInv'
    BY <1>1, <1>2, <2>1 DEF CallInv
  <2>4. Chains(st) /\ Cover(st, index, NoKey, SegsOf(st, d), lost)
    <3>1. SegsOf(st, 0) = {} /\ (rem < 0 => Cur = SegsOf(st, d))
          /\ (rem > 0 => Cur = {})
      BY <1>1, <1>2, <1>3, CurIs
    <3>2. Gone = NoKey /\ Cover(st, index, Gone, Cur, lost) /\ Chains(st)
      BY <1>1, <1>2, CurIs DEF OwnInv
    <3>3. CASE d = 0
      <4>1. Cur = {} /\ SegsOf(st, d) = {}
        BY <1>2, <1>6, <3>1, <3>3
      <4> QED  BY <3>2, <4>1
    <3>4. CASE d # 0
      <4>1. Cur = SegsOf(st, d)
        BY <1>1, <3>1, <3>4
      <4> QED  BY <3>2, <4>1
    <3> QED  BY <3>3, <3>4
  <2>5. OwnInv'
    BY <1>1, <1>2, <2>1, <2>4 DEF OwnInv, Gone, Cur
  <2>6. PosInv'
    <3>1. ASSUME d = 0
          PROVE  rem > 0 /\ base + rem <= Len(op.rec) /\ Ended
      BY <1>2, <1>3, <1>6, <3>1 DEF UpdInv, Ended
    <3>2. Ended' = Ended
      BY <1>1, <1>2, <2>1 DEF Ended, Kept, Gone
    <3> QED  BY <1>2, <2>1, <3>1, <3>2 DEF PosInv
  <2> QED  BY <1>4, <2>2, <2>3, <2>5, <2>6 DEF Inv
<1> QED  BY <1>5, <1>6

(* The new segments linked to the old ones.                                *)
LEMMA UpdLinkInv ==
  ASSUME Inv, UpdLink
  PROVE  /\ Inv' /\ SameLists(st, st') /\ Used(st') = Used(st)
         /\ \A c \in Addr \ {tail} : SegAt(st', c) = SegAt(st, c)
         /\ SegAt(st', tail).data = SegAt(st, tail).data /\ Nxt(st', tail) = d
<1> DEFINE s == SegAt(st, tail)
           new == [size |-> s.size, next |-> d, data |-> s.data]
<1>1. /\ pc = "relink" /\ Return(err)
      /\ st' = [st EXCEPT !.blk[BlkOf(tail)].seg[OffOf(tail)].next = d]
      /\ UNCHANGED <<index, lf, lost>>
  BY DEF UpdLink
<1>2. /\ TypeInv /\ OwnInv /\ CallInv /\ PosInv /\ StoreInv
      /\ st \in Store(Data) /\ d \in Addr \cup {0} /\ op.key \in Key
      /\ index \in [Key -> Addr \cup {ZNULL}] /\ Full(st)
  BY <1>1 DEF Inv, TypeInv, CallInv, StoreInv
<1>3. /\ tail \in Owns(st, index, NoKey, op.key) /\ Nxt(st, tail) = 0
      /\ Chains(st) /\ Cover(st, index, NoKey, SegsOf(st, d), lost)
  BY <1>1, <1>2, CurIs DEF PosInv, Ended, Kept, OwnInv
<1>4. tail \in Used(st) /\ tail \in Addr
  BY <1>2, <1>3 DEF Cover, Used
<1>5. /\ s \in SegRec(Data) /\ new \in SegRec(Data)
      /\ s.data \in Seq(Byte) /\ Len(s.data) = s.size
      /\ s.size \in Nat
  <2>1. s \in SegRec(Data)
    BY <1>2, <1>4, StoreFields
  <2> QED  BY <1>2, <1>4, <2>1, BlkFacts DEF SegRec, Full
<1>6. st' = SetSeg(st, tail, new)
  <2>1. st.blk[BlkOf(tail)].seg[OffOf(tail)] = s
    BY DEF SegAt
  <2>2. [s EXCEPT !.next = d] = new
    BY <1>5 DEF SegRec
  <2> QED  BY <1>1, <2>1, <2>2 DEF SetSeg
<1>7. new.size = s.size /\ new.data = s.data /\ new.next = d
  OBVIOUS
<1> HIDE DEF new
<1>8. /\ st' \in Store(Data) /\ SameLists(st, st')
      /\ \A c \in Blk : /\ st'.blk[c].free = st.blk[c].free
                        /\ st'.blk[c].first = st.blk[c].first
      /\ SegAt(st', tail) = new
      /\ \A c \in Addr \ {tail} : SegAt(st', c) = SegAt(st, c)
  BY <1>2, <1>4, <1>5, <1>6, SetSegFields
<1>9. /\ ListsOK(st') /\ SpaceOK(st', "data") /\ Used(st') = Used(st)
      /\ Full(st') /\ \A c \in Blk : st'.blk[c].type # "dup"
      /\ \A c \in BlocksOf(st', "data") : UsedIn(st', c) # {}
      /\ \A c \in Addr \ {tail} : Nxt(st', c) = Nxt(st, c)
      /\ Nxt(st', tail) = d
  <2>1. /\ new.data \in Seq(Byte) /\ Len(new.data) = new.size
        /\ new.size <= SegAt(st, tail).size
    BY <1>5, <1>7
  <2>2. /\ st'.blk[BlkOf(tail)].free =
             st.blk[BlkOf(tail)].free + SegAt(st, tail).size - new.size
        /\ \A c \in Blk \ {BlkOf(tail)} : st'.blk[c].free = st.blk[c].free
    <3>1. BlkOf(tail) \in Blk /\ st.blk[BlkOf(tail)].free \in Int
      BY <1>2, <1>4, AddrParts, StoreFields, BlkFacts
    <3>2. st'.blk[BlkOf(tail)].free = st.blk[BlkOf(tail)].free
      BY <1>8, <3>1
    <3>3. PICK z \in Int : z = SegAt(st, tail).size /\ new.size = z
      BY <1>5, <1>7
    <3> QED  BY <1>8, <3>1, <3>2, <3>3
  <2>3. /\ Inv /\ pc # "binsdt"
        /\ \A c \in Blk : st'.blk[c].first = st.blk[c].first
    BY <1>1, <1>8
  <2> QED  BY <1>4, <1>5, <1>7, <1>8, <2>1, <2>2, <2>3, Overwritten
<1>10. Chains(st') /\ Cover(st', index, NoKey, {}, lost)
  BY <1>2, <1>3, <1>8, <1>9, CoverJoin
<1>11. StoreInv'
  BY <1>9 DEF StoreInv
<1>12. SegAt(st', tail).data = SegAt(st, tail).data
  BY <1>7, <1>8
<1>13. Inv'
  BY <1>1, <1>2, <1>8, <1>10, <1>11, ReturnInv DEF TypeInv
<1> QED  BY <1>8, <1>9, <1>12, <1>13

----------------------------------------------------------------------------
(* bdeldt, and the routines that read.                                     *)

(* One segment deleted.                                                    *)
LEMMA DelSegInv ==
  ASSUME Inv, DelSeg
  PROVE  /\ Inv' /\ d \in Used(st) /\ DelDatErr(st, d) = "OK"
         /\ \A c \in Addr \ {d} : SegAt(st', c) = SegAt(st, c)
<1> DEFINE b == BlkOf(d)  gone == (FreedTo(st, d) = CAP)
<1>1. /\ pc = "bdeldt" /\ pc' = pc /\ d # 0
      /\ st' = SetSeg(DelDat(st, d), d, NoSeg) /\ d' = Nxt(st, d)
      /\ UNCHANGED <<index, lf, op, rem, base, tail, lost>>
  BY DEF DelSeg, Nxt
<1>2. /\ TypeInv /\ StoreInv /\ OwnInv /\ CallInv
      /\ st \in Store(Data) /\ ListsOK(st) /\ SpaceOK(st, "data") /\ Full(st)
      /\ d \in Addr /\ index \in [Key -> Addr \cup {ZNULL}] /\ "data" \in Seg
  BY <1>1 DEF Inv, TypeInv, StoreInv, Seg
<1>3. /\ Chains(st) /\ Cover(st, index, Gone, SegsOf(st, d), lost)
      /\ d \in Used(st) /\ Nxt(st, d) \in Addr \cup {0}
  <2>1. Chains(st) /\ Cover(st, index, Gone, SegsOf(st, d), lost)
    BY <1>1, <1>2, CurIs DEF OwnInv
  <2>2. d \in SegsOf(st, d)
    BY <1>2, ChainStep
  <2> QED  BY <1>2, <2>1, <2>2, LinkFacts DEF Cover
<1>4. /\ st' \in Store(Data) /\ ListsOK(st') /\ SpaceOK(st', "data")
      /\ Used(st') = Used(st) \ {d} /\ DelDatErr(st, d) = "OK"
      /\ \A c \in Addr \ {d} : SegAt(st', c) = SegAt(st, c)
      /\ b \in BlocksOf(st, "data") /\ gone \in BOOLEAN
      /\ ~gone => UsedIn(st, b) # {d}
      /\ \A c \in Blk :
           st'.blk[c].type = IF gone /\ c = b THEN "free" ELSE st.blk[c].type
  BY <1>1, <1>2, <1>3, RecordFacts, DelDatOK
<1>5. \A c \in Addr \ {d} : Nxt(st', c) = Nxt(st, c)
  BY <1>4 DEF Nxt
<1>6. Chains(st') /\ Cover(st', index, Gone, SegsOf(st', d'), lost)
  BY <1>1, <1>2, <1>3, <1>4, <1>5, CoverDrop
<1> HIDE DEF gone
<1>7. TypeInv'
  BY <1>1, <1>2, <1>3, <1>4 DEF TypeInv
<1>8. StoreInv'
  <2>1. \A c \in Blk : st'.blk[c].type # "dup"
    BY <1>2, <1>4 DEF StoreInv
  <2>2. Full(st')
    BY <1>2, <1>4 DEF Full, Used
  <2>3. ASSUME NEW c \in BlocksOf(st', "data") PROVE UsedIn(st', c) # {}
    <3>1. c \in BlocksOf(st, "data") /\ ~(gone /\ c = b)
      BY <1>4 DEF BlocksOf
    <3>2. UsedIn(st, c) # {}
      BY <1>1, <1>2, <3>1 DEF StoreInv, Fresh
    <3>3. d \in UsedIn(st, b)
      BY <1>3 DEF UsedIn
    <3>4. \E e \in UsedIn(st, c) : e # d
      <4>1. CASE c = b
        BY <1>4, <3>1, <3>3, <4>1
      <4>2. CASE c # b
        BY <3>2, <4>2 DEF UsedIn
      <4> QED  BY <4>1, <4>2
    <3> QED  BY <1>4, <3>4 DEF UsedIn
  <2> QED  BY <1>4, <2>1, <2>2, <2>3 DEF StoreInv
<1>9. OwnInv'
  BY <1>1, <1>6 DEF OwnInv, Gone, Cur
<1>10. CallInv' /\ PosInv'
  BY <1>1, <1>2 DEF CallInv, PosInv
<1> QED  BY <1>3, <1>4, <1>7, <1>8, <1>9, <1>10 DEF Inv

(* All segments are deleted.                                               *)
LEMMA DelDoneInv ==
  ASSUME Inv, DelDone
  PROVE  Inv'
<1>1. pc = "bdeldt" /\ d = 0 /\ lost' = lost
  BY DEF DelDone
<1>2. /\ TypeInv /\ StoreInv /\ OwnInv /\ CallInv /\ op.key \in Key
      /\ index \in [Key -> Addr \cup {ZNULL}]
      /\ lf \in [key : Key \cup {NoKey}, exct : BOOLEAN]
      /\ Chains(st) /\ Cover(st, index, Gone, SegsOf(st, 0), lost)
      /\ st \in Store(Data) /\ 0 \in Int /\ SegsOf(st, 0) = {}
  BY <1>1, CurIs DEF Inv, TypeInv, CallInv, OwnInv
<1>3. CASE op.name # "del"
  <2>1. Return(err) /\ st' = st /\ index' = index /\ lf' = lf
    BY <1>3 DEF DelDone
  <2>2. Gone = NoKey
    BY <1>3 DEF Gone
  <2>3. StoreInv'
    BY <1>1, <1>2, <2>1, StoreStays
  <2> QED  BY <1>1, <1>2, <2>1, <2>2, <2>3, ReturnInv
<1>4. CASE op.name = "del"
  <2>1. /\ index' = [index EXCEPT ![op.key] = ZNULL]
        /\ lf' = [key |-> op.key, exct |-> FALSE]
        /\ \E e : Return(e)
        /\ st' \in {st} \cup TreeTakes(st) \cup TreeGives(st)
    BY <1>4 DEF DelDone
  <2>2. Gone = op.key
    BY <1>1, <1>4 DEF Gone
  <2>3. /\ st' \in Store(Data) /\ ListsOK(st') /\ SpaceOK(st', "data")
        /\ \A b \in Blk : st'.blk[b].type # "dup"
        /\ \A b \in BlocksOf(st', "data") : UsedIn(st', b) # {}
        /\ \A a \in Addr : SegAt(st', a) = SegAt(st, a)
    BY <1>1, <2>1, TreeBlocks
  <2>4. /\ Chains(st') /\ Full(st')
        /\ Cover(st', index, op.key, SegsOf(st', 0), lost)
        /\ SegsOf(st', 0) = {}
    BY <1>2, <2>2, <2>3, SegsStay DEF StoreInv
  <2>5. Cover(st', index', NoKey, {}, lost')
    BY <1>1, <1>2, <2>1, <2>4, CoverEnd
  <2>6. StoreInv'
    BY <2>3, <2>4 DEF StoreInv
  <2>7. /\ index' \in [Key -> Addr \cup {ZNULL}]
        /\ lf' \in [key : Key \cup {NoKey}, exct : BOOLEAN]
    BY <1>2, <2>1
  <2> QED  BY <1>2, <2>1, <2>3, <2>4, <2>5, <2>6, <2>7, ReturnInv
<1> QED  BY <1>3, <1>4

(* One segment read.                                                       *)
LEMMA ReadInv ==
  ASSUME Inv, SelSeg \/ RecSeg
  PROVE  Inv'
<1>1. /\ pc \in {"bseldt", "brecsz"} /\ pc' = pc /\ d # 0
      /\ d' = SegAt(st, d).next
      /\ UNCHANGED <<st, index, lf, op, base, tail, lost>>
  BY DEF SelSeg, RecSeg
<1>2. /\ TypeInv /\ StoreInv /\ OwnInv /\ CallInv /\ rem \in Int /\ d \in Addr
      /\ st \in Store(Data)
  BY <1>1 DEF Inv, TypeInv
<1>3. SegAt(st, d) \in SegRec(Data) /\ SegAt(st, d).size \in Int
      /\ SegAt(st, d).next \in Addr \cup {0}
  <2>1. SegAt(st, d) \in SegRec(Data)
    BY <1>2, StoreFields
  <2> QED  BY <2>1, BlkFacts DEF SegRec
<1>4. rem' \in Int
  BY <1>2, <1>3 DEF SelSeg, RecSeg, Copied
<1>5. TypeInv'
  BY <1>1, <1>2, <1>3, <1>4 DEF TypeInv
<1>6. StoreInv'
  BY <1>1, <1>2, StoreStays
<1>7. OwnInv'
  BY <1>1, <1>2 DEF OwnInv, Gone, Cur, Cut
<1>8. CallInv' /\ PosInv'
  BY <1>1, <1>2 DEF CallInv, PosInv
<1> QED  BY <1>5, <1>6, <1>7, <1>8 DEF Inv

(* All that was asked for is read.                                         *)
LEMMA SelDoneInv ==
  ASSUME Inv, SelDone
  PROVE  Inv'
<1>1. /\ pc \in {"bseldt", "brecsz"} /\ Return(err)
      /\ UNCHANGED <<st, index, lf, lost>>
  BY DEF SelDone
<1>2. /\ TypeInv /\ StoreInv /\ OwnInv
  BY DEF Inv
<1>3. StoreInv'
  BY <1>1, <1>2, StoreStays
<1>4. Chains(st) /\ Cover(st, index, NoKey, {}, lost)
  BY <1>1, <1>2, CurIs DEF OwnInv
<1> QED  BY <1>1, <1>2, <1>3, <1>4, ReturnInv DEF TypeInv

----------------------------------------------------------------------------
(* The theorems.                                                           *)

(* Every step keeps the invariant.                                         *)
LEMMA NextInv == Inv /\ [Next]_vars => Inv'
<1> SUFFICES ASSUME Inv, [Next]_vars PROVE Inv'
  OBVIOUS
<1>1. CASE Call
  BY <1>1, CallsInv
<1>2. CASE Step
  BY <1>2, InsRestInv, InsPartInv, InsBlockInv, InsFailsInv, InsKeyInv,
     InsKeyFailsInv, UpdSegInv, UpdRestInv, UpdLinkInv, DelSegInv, DelDoneInv,
     ReadInv, SelDoneInv DEF Step
<1>3. CASE UNCHANGED vars
  <2>1. UNCHANGED <<st, index, lf, pc, op, d, rem, base, tail, lost>>
    BY <1>3 DEF vars
  <2>2. TypeInv' /\ CallInv'
    BY <2>1 DEF Inv, TypeInv, CallInv
  <2>3. StoreInv'
    BY <2>1 DEF Inv, StoreInv, Fresh
  <2>4. OwnInv' /\ PosInv'
    BY <2>1 DEF Inv, OwnInv, PosInv, Gone, Cur, Cut, UpdInv, Ended, Kept
  <2> QED  BY <2>2, <2>3, <2>4 DEF Inv
<1> QED  BY <1>1, <1>2, <1>3 DEF Next

(* The segments in use are divided among the records, the call under way   *)
(* and those that are lost, in whatever state the calls of btdata.c leave  *)
(* a file of any size.                                                     *)
THEOREM RecordsInvariant == Spec => []Inv
<1> QED  BY InitInv, NextInv, PTL DEF Spec

(* No more blocks are free than there are.                                 *)
LEMMA FreeCount ==
  ASSUME NEW D, NEW s \in Store(D), FreeOK(s)
  PROVE  s.nfree \in 0 .. MAXBLK
<1>1. FreeList(s) \subseteq Blk /\ Cardinality(FreeList(s)) = s.nfree
  BY DEF FreeOK, BlocksOf
<1>2. Cardinality(Blk) = MAXBLK - 2
  <2>1. 2 \in Int /\ MAXBLK - 1 \in Int /\ MAXBLK > 2 /\ MAXBLK \in Nat
    BY SegmentConstants
  <2>2. Cardinality(2 .. MAXBLK - 1) = (MAXBLK - 1) - 2 + 1
    BY <2>1, FS_Interval
  <2> QED  BY <2>1, <2>2 DEF Blk
<1>3. Cardinality(FreeList(s)) <= Cardinality(Blk)
  BY <1>1, FinitePlaces, FS_Subset
<1> QED  BY <1>1, <1>2, <1>3, StoreFields, SegmentConstants

(* The variables of btdata.c, the superblock and the block headers stay in *)
(* their ranges; free and first never leave 0 .. CAP.                      *)
THEOREM RecordsTyped == Spec => []RecTypeOK
<1>1. Inv => RecTypeOK
  <2> SUFFICES ASSUME Inv PROVE RecTypeOK
    OBVIOUS
  <2>1. /\ TypeInv /\ st \in Store(Data) /\ FreeOK(st)
        /\ st.blkmx \in 2 .. st.limit
        /\ \A b \in Blk : st.blk[b].type # "dup"
    BY DEF Inv, TypeInv, StoreInv, ListsOK
  <2>2. st.nfree \in 0 .. MAXBLK
    BY <2>1, FreeCount
  <2>3. /\ st.head \in [Seg -> Blk \cup {ZNULL}]
        /\ st.freep \in Blk \cup {ZNULL} /\ st.limit \in Limits
        /\ \A b \in Blk : /\ st.blk[b].type \in BlkType
                          /\ st.blk[b].free \in 0 .. CAP
                          /\ st.blk[b].first \in 0 .. CAP
    BY <2>1, StoreFields
  <2> QED  BY <2>1, <2>2, <2>3 DEF RecTypeOK, TypeInv, BlkType
<1> QED  BY <1>1, RecordsInvariant, PTL

(* The data blocks stay linked both ways with the active block in front,   *)
(* and the free list complete and counted, whichever blocks deldat and the *)
(* tree free and take again.                                               *)
THEOREM RecordListsSound == Spec => []ListsSound
<1>1. Inv => ListsSound
  BY DEF Inv, StoreInv, ListsOK, ListOK, FreeOK, ListsSound, BlocksOf
<1> QED  BY <1>1, RecordsInvariant, PTL

(* Between calls the records have all segments in use.                     *)
LEMMA AllOwned ==
  ASSUME Inv, pc = "idle"
  PROVE  /\ Live = Used(st)
         /\ \A j, k \in Key : j # k => Owned(j) \cap Owned(k) = {}
         /\ \A k \in Key : Owned(k) \cap lost = {}
<1>1. TypeInv /\ Cover(st, index, NoKey, {}, lost)
  BY CurIs DEF Inv, OwnInv
<1>2. \A k \in Key : Owned(k) = Owns(st, index, NoKey, k)
  BY RecordFacts DEF Owned, Owns
<1>3. Live = Used(st)
  <2>1. \A a : a \in Live <=> a \in lost \/ \E k \in Key : a \in Owned(k)
    BY DEF Live
  <2>2. /\ \A a \in Used(st) : a \in lost \/ \E k \in Key : a \in Owned(k)
        /\ lost \subseteq Used(st) /\ \A k \in Key : Owned(k) \subseteq Used(st)
    BY <1>1, <1>2 DEF Cover
  <2> QED  BY <2>1, <2>2
<1>4. \A j, k \in Key : j # k => Owned(j) \cap Owned(k) = {}
  BY <1>1, <1>2 DEF Cover
<1>5. \A k \in Key : Owned(k) \cap lost = {}
  BY <1>1, <1>2 DEF Cover
<1> QED  BY <1>3, <1>4, <1>5

(* Segments of a block do not overlap.                                     *)
LEMMA ExtentsApart ==
  ASSUME NEW b \in Blk, RoomOK(st, b), st \in Store(Data),
         NEW a \in UsedIn(st, b)
  PROVE  /\ Extent(a) \subseteq 0 .. st.blk[b].first - 1
         /\ \A c \in UsedIn(st, b) \ {a} : Extent(a) \cap Extent(c) = {}
<1>1. \A c \in UsedIn(st, b) :
        /\ c \in Addr /\ BlkOf(c) = b /\ OffOf(c) \in Nat
        /\ SegAt(st, c).size \in Nat /\ ZDOVRH \in Nat /\ st.blk[b].first \in Nat
        /\ EndOf(st, c) \in Nat
        /\ EndOf(st, c) = OffOf(c) + ZDOVRH + SegAt(st, c).size
        /\ EndOf(st, c) <= st.blk[b].first
        /\ Extent(c) = OffOf(c) .. EndOf(st, c) - 1
  BY SpaceNats DEF RoomOK, EndOf, Extent
<1>2. Extent(a) \subseteq 0 .. st.blk[b].first - 1
  BY <1>1
<1>3. ASSUME NEW c \in UsedIn(st, b), c # a PROVE Extent(a) \cap Extent(c) = {}
  <2>1. OffOf(a) # OffOf(c)
    BY <1>1, <1>3, AddrUnique
  <2>2. CASE OffOf(a) < OffOf(c)
    <3>1. EndOf(st, a) <= OffOf(c)
      BY <2>2 DEF RoomOK
    <3> QED  BY <1>1, <3>1
  <2>3. CASE OffOf(c) < OffOf(a)
    <3>1. EndOf(st, c) <= OffOf(a)
      BY <2>3 DEF RoomOK
    <3> QED  BY <1>1, <3>1
  <2> QED  BY <1>1, <2>1, <2>2, <2>3
<1> QED  BY <1>2, <1>3

(* Between calls every byte of every data block is accounted for: binsdt,  *)
(* bupddt and bdeldt, in any sequence and with any failure in between,     *)
(* neither lose a free byte nor give one away twice.                       *)
THEOREM RecordSpaceExact == Spec => []SpaceExact
<1>1. Inv => SpaceExact
  <2> SUFFICES ASSUME Inv, pc = "idle" PROVE SpaceExact
    BY DEF SpaceExact
  <2>1. /\ Live = Used(st)
        /\ \A j, k \in Key : j # k => Owned(j) \cap Owned(k) = {}
        /\ \A k \in Key : Owned(k) \cap lost = {}
    BY AllOwned
  <2>2. /\ st \in Store(Data) /\ SpaceOK(st, "data")
        /\ \A b \in BlocksOf(st, "data") : UsedIn(st, b) # {}
    BY DEF Inv, TypeInv, StoreInv, Fresh
  <2>3. \A b : InBlock(Used(st), b) = UsedIn(st, b)
    BY DEF InBlock, UsedIn
  <2>4. ASSUME NEW b \in BlocksOf(st, "data")
        PROVE  /\ UsedIn(st, b) # {}
               /\ st.blk[b].free = CAP - Filled(st, UsedIn(st, b))
               /\ \A a \in UsedIn(st, b) :
                    /\ Extent(a) \subseteq 0 .. st.blk[b].first - 1
                    /\ \A c \in UsedIn(st, b) \ {a} : Extent(a) \cap Extent(c) = {}
    <3>1. RoomOK(st, b) /\ b \in Blk
      BY <2>2 DEF SpaceOK, BlocksOf
    <3> QED  BY <2>2, <3>1, ExtentsApart DEF RoomOK
  <2>5. \A a \in Used(st) : TypeAt(st, a) = "data"
    BY <2>2, AddrParts DEF SpaceOK, TypeAt, Type, Used
  <2> QED  BY <2>1, <2>3, <2>4, <2>5 DEF SpaceExact
<1> QED  BY <1>1, RecordsInvariant, PTL

----------------------------------------------------------------------------
(* The list of data blocks that starts at the active block.                *)

(* The list is what the links lead to from the active block.               *)
LEMMA ListTrail ==
  ASSUME NEW D, NEW s \in Store(D)
  PROVE  /\ Nexts(s) \in [Blk -> Int] /\ Blk \in SUBSET Int /\ IsFiniteSet(Blk)
         /\ Chain(s, "data") = Trail(Nexts(s), s.head["data"])
         /\ s.head["data"] \in Int /\ s.head["data"] \in Blk \cup {ZNULL}
         /\ ZNULL \notin Blk
         /\ \A b \in Blk : Nexts(s)[b] = s.blk[b].nxt
<1>1. s.head["data"] \in Blk \cup {ZNULL} /\ Nexts(s) \in [Blk -> Int]
  BY StoreFields DEF Seg
<1>2. Blk \in SUBSET Int /\ ZNULL \in Int /\ ZNULL \notin Blk
  BY BlkFacts
<1>3. \A b \in Blk : Nexts(s)[b] = s.blk[b].nxt
  BY DEF Nexts
<1>4. Chain(s, "data") = Trail(Nexts(s), s.head["data"])
  BY FollowTrail DEF Chain
<1> QED  BY <1>1, <1>2, <1>3, <1>4, FinitePlaces

(* The list has data blocks only, and goes on to its end.                  *)
LEMMA ListReaches ==
  ASSUME NEW D, NEW s \in Store(D), ListOK(s, "data")
  PROVE  /\ Chain(s, "data") \subseteq BlocksOf(s, "data")
         /\ \A b \in Chain(s, "data") :
              s.blk[b].nxt \in Chain(s, "data") \cup {ZNULL}
         /\ s.head["data"] # ZNULL => s.head["data"] \in Chain(s, "data")
         /\ s.head["data"] = ZNULL => Chain(s, "data") = {}
<1> DEFINE h == s.head["data"]
<1>1. /\ Nexts(s) \in [Blk -> Int] /\ Blk \in SUBSET Int /\ IsFiniteSet(Blk)
      /\ Chain(s, "data") = Trail(Nexts(s), h) /\ h \in Int
      /\ h \in Blk \cup {ZNULL} /\ ZNULL \notin Blk
      /\ \A b \in Blk : Nexts(s)[b] = s.blk[b].nxt
  BY ListTrail
<1>2. /\ h \in BlocksOf(s, "data") \cup {ZNULL}
      /\ \A b \in BlocksOf(s, "data") :
           b \in Blk /\ s.blk[b].nxt \in BlocksOf(s, "data") \cup {ZNULL}
  BY DEF ListOK, BlocksOf
<1> HIDE DEF h
<1>3. Trail(Nexts(s), h) \subseteq BlocksOf(s, "data")
  <2>1. Closed(BlocksOf(s, "data") \cap Blk, Blk, Nexts(s))
    BY <1>1, <1>2 DEF Closed
  <2> QED  BY <1>1, <1>2, <2>1, TrailLeast
<1>4. /\ Trail(Nexts(s), h) \subseteq Blk
      /\ h \in Blk => h \in Trail(Nexts(s), h)
      /\ h \notin Blk => Trail(Nexts(s), h) = {}
      /\ Closed(Trail(Nexts(s), h), Blk, Nexts(s))
  BY <1>1, TrailClosed
<1>5. \A b \in Trail(Nexts(s), h) : s.blk[b].nxt \in Trail(Nexts(s), h) \cup {ZNULL}
  BY <1>1, <1>2, <1>3, <1>4 DEF Closed
<1> QED  BY <1>1, <1>3, <1>4, <1>5 DEF h

(* What is closed under the links has the list.                            *)
LEMMA ListWithin ==
  ASSUME NEW D, NEW s \in Store(D), NEW X,
         s.head["data"] # ZNULL => s.head["data"] \in X,
         \A b \in X : b \in Blk => s.blk[b].nxt \in X \cup {ZNULL}
  PROVE  Chain(s, "data") \subseteq X
<1>1. /\ Nexts(s) \in [Blk -> Int] /\ Blk \in SUBSET Int /\ IsFiniteSet(Blk)
      /\ Chain(s, "data") = Trail(Nexts(s), s.head["data"])
      /\ s.head["data"] \in Int /\ ZNULL \notin Blk
      /\ \A b \in Blk : Nexts(s)[b] = s.blk[b].nxt
  BY ListTrail
<1>2. Closed(X \cap Blk, Blk, Nexts(s))
  BY <1>1 DEF Closed
<1>3. s.head["data"] \in Blk => s.head["data"] \in X
  BY <1>1
<1> QED  BY <1>1, <1>2, <1>3, TrailLeast, ZenonT(40)

(* The lists of data blocks that bmkfre, bgtfre and the tree do not touch. *)
LEMMA ListKept ==
  ASSUME NEW D, NEW s \in Store(D), NEW r \in Store(D), ListOK(s, "data"),
         ListOK(r, "data"), r.head["data"] = s.head["data"],
         \A b \in BlocksOf(s, "data") : r.blk[b].nxt = s.blk[b].nxt
  PROVE  Chain(s, "data") \subseteq Chain(r, "data")
<1> DEFINE X == Chain(r, "data") \cap BlocksOf(s, "data")
<1>1. s.head["data"] # ZNULL => s.head["data"] \in X
  BY ListReaches DEF ListOK
<1>2. ASSUME NEW b \in X PROVE s.blk[b].nxt \in X \cup {ZNULL}
  <2>1. s.blk[b].nxt \in BlocksOf(s, "data") \cup {ZNULL}
    BY DEF ListOK
  <2>2. r.blk[b].nxt \in Chain(r, "data") \cup {ZNULL}
    BY ListReaches
  <2> QED  BY <2>1, <2>2
<1> HIDE DEF X
<1>3. Chain(s, "data") \subseteq X
  BY <1>1, <1>2, ListWithin
<1> QED  BY <1>3 DEF X

(* A new active block leads to the old one.                                *)
LEMMA ListGrows ==
  ASSUME NEW D, NEW s \in Store(D), ListsOK(s), GetFree(s) # ZNULL,
         s.head["data"] # ZNULL, NEW r, r = NewHead(s, "data")
  PROVE  Chain(s, "data") \subseteq Chain(r, "data")
<1> DEFINE n == GetFree(s)  X == Chain(r, "data") \cap BlocksOf(s, "data")
<1>1. "data" \in Seg /\ ListOK(s, "data")
  BY DEF Seg, ListsOK
<1>2. /\ r \in Store(D) /\ n \in Blk
      /\ r.head = [s.head EXCEPT !["data"] = n]
      /\ \A b \in Blk :
           r.blk[b].nxt = IF b = n THEN s.head["data"] ELSE s.blk[b].nxt
  BY <1>1, NewHeadFields
<1>3. ListOK(r, "data")
  BY <1>1, NewHeadOK DEF ListsOK
<1>4. n \notin BlocksOf(s, "data") /\ r.head["data"] = n
  BY <1>1, <1>2, GetFreeBlock, StoreFields DEF BlocksOf
<1>5. s.head["data"] \in X
  <2>1. n \in Chain(r, "data") /\ n # ZNULL
    BY <1>2, <1>3, <1>4, ListReaches
  <2>2. r.blk[n].nxt \in Chain(r, "data") \cup {ZNULL}
    BY <1>2, <1>3, <2>1, ListReaches
  <2> QED  BY <1>1, <1>2, <2>2 DEF ListOK
<1>6. ASSUME NEW b \in X PROVE s.blk[b].nxt \in X \cup {ZNULL}
  <2>1. s.blk[b].nxt \in BlocksOf(s, "data") \cup {ZNULL}
    BY <1>1 DEF ListOK
  <2>2. r.blk[b].nxt \in Chain(r, "data") \cup {ZNULL}
    BY <1>2, <1>3, ListReaches
  <2>3. b \in Blk /\ b # n
    BY <1>4 DEF BlocksOf
  <2> QED  BY <1>2, <2>1, <2>2, <2>3
<1> HIDE DEF X
<1>7. Chain(s, "data") \subseteq X
  BY <1>5, <1>6, ListWithin
<1> QED  BY <1>7 DEF X

(* A block other than the active one is taken out.                         *)
LEMMA ListShrinks ==
  ASSUME NEW D, NEW s \in Store(D), NEW r \in Store(D), ListOK(s, "data"),
         ListOK(r, "data"), NEW e \in BlocksOf(s, "data"),
         s.head["data"] # ZNULL, r.head["data"] = s.head["data"],
         r.blk[e].type # "data",
         \A c \in BlocksOf(s, "data") \ {e} : r.blk[c].type = "data",
         \A c \in Blk \ {e} : r.blk[c].nxt = IF c = s.blk[e].prv
                                             THEN s.blk[e].nxt ELSE s.blk[c].nxt
  PROVE  Chain(s, "data") \subseteq Chain(r, "data") \cup {e}
<1> DEFINE p == s.blk[e].prv  C == Chain(r, "data")
           X == (C \cap BlocksOf(s, "data")) \cup
                {c \in {e} : p \in C \cap BlocksOf(s, "data")}
<1>1. /\ C \subseteq BlocksOf(r, "data") /\ s.head["data"] \in C
      /\ \A b \in C : r.blk[b].nxt \in C \cup {ZNULL}
  BY ListReaches
<1>2. e \notin C
  BY <1>1 DEF BlocksOf
<1>3. s.head["data"] \in X
  BY <1>1 DEF ListOK
<1>4. ASSUME NEW b \in X PROVE s.blk[b].nxt \in X \cup {ZNULL}
  <2>1. /\ b \in BlocksOf(s, "data") /\ b \in Blk
        /\ s.blk[b].nxt \in BlocksOf(s, "data") \cup {ZNULL}
        /\ s.blk[b].nxt # ZNULL => s.blk[s.blk[b].nxt].prv = b
    BY SMTT(30) DEF ListOK, BlocksOf
  <2>2. CASE b = e
    <3>1. p \in C /\ p \in BlocksOf(s, "data") /\ p # e /\ p \in Blk
      BY <1>2, <2>2 DEF BlocksOf
    <3>2. r.blk[p].nxt = s.blk[e].nxt
      BY <3>1
    <3> QED  BY <1>1, <2>1, <2>2, <3>1, <3>2
  <2>3. CASE b # e
    <3>1. b \in C /\ r.blk[b].nxt \in C \cup {ZNULL}
      BY <1>1, <2>3
    <3>2. CASE s.blk[b].nxt = e
      <4>1. p = b
        BY <2>1, <3>2, BlkFacts DEF BlocksOf
      <4> QED  BY <2>1, <3>1, <3>2, <4>1
    <3>3. CASE s.blk[b].nxt # e
      <4>1. s.blk[b].nxt # ZNULL => b # p
        (* b leads to e alone if it is the block before e *)
        <5>1. p = ZNULL \/ s.blk[p].nxt = e
          BY DEF ListOK
        <5> QED  BY <2>1, <3>3, <5>1, BlkFacts
      <4>2. s.blk[b].nxt # ZNULL => r.blk[b].nxt = s.blk[b].nxt
        BY <2>1, <2>3, <4>1
      <4> QED  BY <2>1, <3>1, <4>2
    <3> QED  BY <3>2, <3>3
  <2> QED  BY <2>2, <2>3
<1> HIDE DEF X
<1>5. Chain(s, "data") \subseteq X
  BY <1>3, <1>4, ListWithin
<1> QED  BY <1>5 DEF X

(* Steps that leave the root with an active block.                         *)
LEMMA ListStays ==
  ASSUME Inv, Next, st.head["data"] # ZNULL, st'.head["data"] # ZNULL,
         NEW b \in Chain(st, "data"), st'.blk[b].type = "data"
  PROVE  b \in Chain(st', "data")
<1>1. Inv'
  BY NextInv
<1>2. /\ st \in Store(Data) /\ ListsOK(st) /\ SpaceOK(st, "data")
      /\ st' \in Store(Data) /\ ListsOK(st')
      /\ ListOK(st, "data") /\ ListOK(st', "data")
  BY <1>1 DEF Inv, TypeInv, StoreInv, ListsOK
<1>3. CASE st' = st
  BY <1>3
<1>4. CASE SameLists(st, st')
  <2>1. Chain(st, "data") \subseteq Chain(st', "data")
    BY <1>2, <1>4, ListKept DEF SameLists, BlocksOf
  <2> QED  BY <2>1
<1>5. CASE pc # "binsdt" /\ st' \in {st} \cup TreeTakes(st) \cup TreeGives(st)
  <2>1. /\ st'.head = st.head
        /\ \A c \in BlocksOf(st, "data") : st'.blk[c].nxt = st.blk[c].nxt
    BY <1>5, TreeBlocks
  <2>2. Chain(st, "data") \subseteq Chain(st', "data")
    BY <1>2, <2>1, ListKept
  <2> QED  BY <2>2
<1>6. CASE InsBlock
  <2>1. GetFree(st) # ZNULL /\ st' = NewHead(st, "data")
    BY <1>6 DEF InsBlock, NewHead
  <2>2. Chain(st, "data") \subseteq Chain(st', "data")
    BY <1>2, <2>1, ListGrows
  <2> QED  BY <2>2
<1>7. CASE DelSeg
  <2>1. PICK e : e = BlkOf(d)
    OBVIOUS
  <2>2. PICK gone : gone = (FreedTo(st, d) = CAP)
    OBVIOUS
  <2>3. /\ st' = SetSeg(DelDat(st, d), d, NoSeg) /\ d \in Used(st)
        /\ "data" \in Seg
    <3>1. pc = "bdeldt" /\ d \in Addr /\ TypeInv /\ OwnInv
      BY <1>7 DEF DelSeg, Inv, TypeInv
    <3>2. d \in SegsOf(st, d) /\ SegsOf(st, d) \subseteq Used(st)
      BY <3>1, CurIs, ChainStep DEF OwnInv, Cover, TypeInv
    <3> QED  BY <1>7, <3>2 DEF DelSeg, Seg
  <2>4. /\ e \in BlocksOf(st, "data") /\ gone \in BOOLEAN
        /\ \A u \in Seg : st'.head[u] = IF gone /\ u = "data" /\ st.head[u] = e
                                        THEN ZNULL ELSE st.head[u]
        /\ \A c \in Blk :
             /\ st'.blk[c].type = IF gone /\ c = e THEN "free" ELSE st.blk[c].type
             /\ c # e => st'.blk[c].nxt = IF gone /\ c = st.blk[e].prv
                                          THEN st.blk[e].nxt ELSE st.blk[c].nxt
             /\ ~gone => st'.blk[c].nxt = st.blk[c].nxt
    BY <1>2, <2>1, <2>2, <2>3, RecordFacts, DelDatOK
  <2>5. st'.head["data"] = st.head["data"]
    BY <2>3, <2>4
  <2>6. CASE ~gone
    <3>1. \A c \in BlocksOf(st, "data") : st'.blk[c].nxt = st.blk[c].nxt
      BY <2>4, <2>6 DEF BlocksOf
    <3>2. Chain(st, "data") \subseteq Chain(st', "data")
      BY <1>2, <2>5, <3>1, ListKept
    <3> QED  BY <3>2
  <2>7. CASE gone
    <3>1. st'.blk[e].type = "free" /\ e \in Blk
      BY <2>4, <2>7 DEF BlocksOf
    <3>2. \A c \in BlocksOf(st, "data") \ {e} : st'.blk[c].type = "data"
      BY <2>4 DEF BlocksOf
    <3>3. \A c \in Blk \ {e} : st'.blk[c].nxt = IF c = st.blk[e].prv
                                 THEN st.blk[e].nxt ELSE st.blk[c].nxt
      BY <2>4, <2>7
    <3>4. Chain(st, "data") \subseteq Chain(st', "data") \cup {e}
      BY <1>2, <2>4, <2>5, <3>1, <3>2, <3>3, ListShrinks
    <3> QED  BY <3>1, <3>4
  <2> QED  BY <2>4, <2>6, <2>7
<1>8. ASSUME Step
      PROVE  \/ SameLists(st, st') \/ InsBlock \/ DelSeg \/ st' = st
             \/ pc # "binsdt" /\ st' \in {st} \cup TreeTakes(st) \cup TreeGives(st)
  <2>1. CASE InsRest \/ InsPart \/ UpdSeg \/ UpdLink
    BY <2>1, InsRestInv, InsPartInv, UpdSegInv, UpdLinkInv
  <2>2. CASE InsFails \/ InsKeyFails \/ UpdRest \/ SelSeg \/ RecSeg \/ SelDone
    BY <2>2 DEF InsFails, InsKeyFails, UpdRest, SelSeg, RecSeg, SelDone
  <2>3. CASE InsKey
    BY <2>3 DEF InsKey
  <2>4. CASE DelDone
    BY <2>4 DEF DelDone
  <2> QED  BY <1>8, <2>1, <2>2, <2>3, <2>4 DEF Step
<1>9. ASSUME Call PROVE st' = st
  BY <1>9 DEF Call, Btins, Btupd, Btdel, Btrecs, Btsel, Btseln, Btselp, Moves,
              Misses, Refuse, Start
<1> QED  BY <1>3, <1>4, <1>5, <1>6, <1>7, <1>8, <1>9 DEF Next

(* A block leaves the list btdelr would follow only when the active block  *)
(* is freed by deldat: never because a block was put in front of it or     *)
(* taken out of its middle.                                                *)
THEOREM RecordChainKept == Spec => ChainLostOnlyWithHead
<1> DEFINE LeavesWithHead == \A b \in Chain(st, "data") \ Chain(st, "data")' :
                      (st.blk[b].type = "data")' =>
                        st.head["data"] # ZNULL /\ (st.head["data"] = ZNULL)'
<1>1. Inv /\ [Next]_vars => [LeavesWithHead]_vars
  <2> SUFFICES ASSUME Inv, Next,
                      NEW b \in Chain(st, "data"), b \notin Chain(st', "data"),
                      st'.blk[b].type = "data"
               PROVE  st.head["data"] # ZNULL /\ st'.head["data"] = ZNULL
    OBVIOUS
  <2>1. st \in Store(Data) /\ ListOK(st, "data")
    BY DEF Inv, TypeInv, StoreInv, ListsOK
  <2>2. st.head["data"] # ZNULL
    BY <2>1, ListReaches
  <2> QED  BY <2>2, ListStays
<1> QED  BY <1>1, RecordsInvariant, PTL DEF Spec, ChainLostOnlyWithHead
----------------------------------------------------------------------------
(* The bytes of a chain.                                                   *)

Cell == Byte \cup {NoData}

(* F[n][p] has the bytes of the first n segments from p.                   *)
IsBytes(F, s) ==
  /\ \A p \in Int : F[0][p] = <<>>
  /\ \A n \in 1 .. MaxSegs : \A p \in Int :
       F[n][p] = IF p \notin Addr THEN <<>>
                 ELSE IF SegAt(s, p) = NoSeg THEN <<NoData>>
                 ELSE SegAt(s, p).data \o F[n - 1][Nxt(s, p)]

(* The recursion of BytesAt.                                               *)
LEMMA BytesExist ==
  ASSUME NEW s \in Store(Data), Full(s)
  PROVE  \E F : IsBytes(F, s) /\ \A p : BytesAt(s, p) = F[MaxSegs][p]
<1> DEFINE S == [Int -> Seq(Cell)]
           g == [h \in S |-> [p \in Int |->
                   IF p \notin Addr THEN <<>>
                   ELSE IF SegAt(s, p) = NoSeg THEN <<NoData>>
                   ELSE SegAt(s, p).data \o h[Nxt(s, p)]]]
           z == [p \in Int |-> <<>>]
           E(f) == [n \in 0 .. MaxSegs |-> [p \in Int |->
                      IF n = 0 \/ p \notin Addr THEN <<>>
                      ELSE IF SegAt(s, p) = NoSeg THEN <<NoData>>
                      ELSE SegAt(s, p).data \o f[n - 1][SegAt(s, p).next]]]
           L == CHOOSE f : f = E(f)
<1>1. MaxSegs \in Nat
  BY FinitePlaces, FS_CardinalityType DEF MaxSegs
<1>2. z \in S
  BY EmptySeq
<1>3. g \in [S -> S]
  <2>1. ASSUME NEW h \in S, NEW p \in Int
        PROVE  (IF p \notin Addr THEN <<>>
                ELSE IF SegAt(s, p) = NoSeg THEN <<NoData>>
                ELSE SegAt(s, p).data \o h[Nxt(s, p)]) \in Seq(Cell)
    <3>1. CASE p \in Addr /\ SegAt(s, p) # NoSeg
      <4>1. Nxt(s, p) \in Int
        BY <3>1, LinkFacts
      <4>2. h[Nxt(s, p)] \in Seq(Cell)
        BY <4>1
      <4>3. SegAt(s, p).data \in Seq(Cell)
        <5>1. SegAt(s, p).data \in Seq(Byte)
          BY <3>1 DEF Full, Used
        <5> QED  BY <5>1, SeqMonotonic DEF Cell
      <4> HIDE DEF S
      <4> QED  BY <3>1, <4>2, <4>3, ConcatProperties
    <3>2. CASE ~(p \in Addr /\ SegAt(s, p) # NoSeg)
      <4>1. <<>> \in Seq(Cell) /\ <<NoData>> \in Seq(Cell)
        BY DEF Cell
      <4> QED  BY <3>2, <4>1
    <3> QED  BY <3>1, <3>2
  <2> QED  BY <2>1
<1> HIDE DEF z, g
<1>4. PICK f \in [0 .. MaxSegs -> S] : Iterates(f, g, z, MaxSegs)
  BY <1>1, <1>2, <1>3, IterationExists
<1>5. ASSUME NEW n \in 0 .. MaxSegs
      PROVE  f[n] = [p \in Int |->
                       IF n = 0 \/ p \notin Addr THEN <<>>
                       ELSE IF SegAt(s, p) = NoSeg THEN <<NoData>>
                       ELSE SegAt(s, p).data \o f[n - 1][SegAt(s, p).next]]
  <2>1. CASE n = 0
    BY <1>4, <2>1 DEF Iterates, z
  <2>2. CASE n # 0
    <3>1. n \in 1 .. MaxSegs /\ n - 1 \in 0 .. MaxSegs
      BY <1>1, <2>2
    <3>2. f[n] = g[f[n - 1]] /\ f[n - 1] \in S
      BY <1>4, <3>1 DEF Iterates
    <3>3. g[f[n - 1]] = [p \in Int |->
                 IF p \notin Addr THEN <<>>
                 ELSE IF SegAt(s, p) = NoSeg THEN <<NoData>>
                 ELSE SegAt(s, p).data \o f[n - 1][Nxt(s, p)]]
      BY <3>2 DEF g
    <3> HIDE DEF S
    <3> QED  BY <2>2, <3>2, <3>3 DEF Nxt
  <2> QED  BY <2>1, <2>2
<1>6. f = E(f)
  <2>1. f = [n \in 0 .. MaxSegs |-> f[n]]
    BY <1>4
  <2> HIDE DEF S
  <2> QED  BY <1>5, <2>1
<1> HIDE DEF E, S
<1>7. L = E(L)
  BY <1>6
<1>8. \A p : BytesAt(s, p) = L[MaxSegs][p]
  BY DEF BytesAt, E
<1> HIDE DEF L
<1>9. /\ DOMAIN L = 0 .. MaxSegs
      /\ \A n \in 0 .. MaxSegs :
           L[n] = [p \in Int |->
                      IF n = 0 \/ p \notin Addr THEN <<>>
                      ELSE IF SegAt(s, p) = NoSeg THEN <<NoData>>
                      ELSE SegAt(s, p).data \o L[n - 1][SegAt(s, p).next]]
  BY <1>7 DEF E
<1>10. IsBytes(L, s)
  <2>1. ASSUME NEW p \in Int PROVE L[0][p] = <<>>
    <3>1. PICK n \in 0 .. MaxSegs : n = 0
      BY <1>1
    <3>2. L[n] = [q \in Int |->
                      IF n = 0 \/ q \notin Addr THEN <<>>
                      ELSE IF SegAt(s, q) = NoSeg THEN <<NoData>>
                      ELSE SegAt(s, q).data \o L[n - 1][SegAt(s, q).next]]
      BY <1>9
    <3>3. L[n][p] = <<>>
      BY <3>1, <3>2
    <3> QED  BY <3>1, <3>3
  <2>2. ASSUME NEW n \in 1 .. MaxSegs, NEW p \in Int
        PROVE  L[n][p] = IF p \notin Addr THEN <<>>
                 ELSE IF SegAt(s, p) = NoSeg THEN <<NoData>>
                 ELSE SegAt(s, p).data \o L[n - 1][Nxt(s, p)]
    <3>1. n \in 0 .. MaxSegs /\ n # 0
      BY <1>1
    <3>2. L[n] = [q \in Int |->
                      IF n = 0 \/ q \notin Addr THEN <<>>
                      ELSE IF SegAt(s, q) = NoSeg THEN <<NoData>>
                      ELSE SegAt(s, q).data \o L[n - 1][SegAt(s, q).next]]
      BY <1>9, <3>1
    <3>3. L[n][p] = IF n = 0 \/ p \notin Addr THEN <<>>
                    ELSE IF SegAt(s, p) = NoSeg THEN <<NoData>>
                    ELSE SegAt(s, p).data \o L[n - 1][SegAt(s, p).next]
      BY <2>2, <3>2
    <3> QED  BY <3>1, <3>3 DEF Nxt
  <2> QED  BY <2>1, <2>2 DEF IsBytes
<1> QED  BY <1>8, <1>10

(* A chain has no more segments than there are places for them.            *)
LEMMA ChainShort ==
  ASSUME NEW s \in Store(Data), Chains(s), NEW p \in Used(s) \cup {0}
  PROVE  /\ IsFiniteSet(SegsOf(s, p)) /\ Cardinality(SegsOf(s, p)) \in Nat
         /\ Cardinality(SegsOf(s, p)) <= MaxSegs /\ MaxSegs \in Nat
         /\ p # 0 => /\ p \in Addr /\ p \in Int /\ p \in SegsOf(s, p)
                     /\ Nxt(s, p) \in Used(s) \cup {0}
                     /\ p \notin SegsOf(s, Nxt(s, p))
                     /\ SegsOf(s, p) = {p} \cup SegsOf(s, Nxt(s, p))
                     /\ Cardinality(SegsOf(s, Nxt(s, p))) =
                          Cardinality(SegsOf(s, p)) - 1
<1>1. p \in Int /\ Used(s) \subseteq Addr /\ 0 \in Int /\ Addr \subseteq Int
      /\ IsFiniteSet(Addr)
  BY LinkFacts DEF Used
<1>2. ASSUME NEW q \in Int
      PROVE  /\ SegsOf(s, q) \subseteq Addr /\ IsFiniteSet(SegsOf(s, q))
             /\ Cardinality(SegsOf(s, q)) \in Nat
             /\ Cardinality(SegsOf(s, q)) <= MaxSegs /\ MaxSegs \in Nat
  <2>1. SegsOf(s, q) \subseteq Addr
    BY ChainStep
  <2> QED  BY <1>1, <2>1, FS_Subset, FS_CardinalityType DEF MaxSegs
<1>3. ASSUME p # 0
      PROVE  /\ p \in Addr /\ p \in Int /\ p \in SegsOf(s, p)
             /\ Nxt(s, p) \in Used(s) \cup {0}
             /\ p \notin SegsOf(s, Nxt(s, p))
             /\ SegsOf(s, p) = {p} \cup SegsOf(s, Nxt(s, p))
             /\ Cardinality(SegsOf(s, Nxt(s, p))) =
                  Cardinality(SegsOf(s, p)) - 1
  <2>1. p \in Used(s) /\ p \in Addr
    BY <1>1, <1>3
  <2>2. Nxt(s, p) \in Used(s) \cup {0} /\ p \notin SegsOf(s, Nxt(s, p))
    BY <2>1 DEF Chains
  <2>3. SegsOf(s, p) = {p} \cup SegsOf(s, Nxt(s, p))
    BY <2>1, ChainStep
  <2>4. Nxt(s, p) \in Int
    BY <1>1, <2>2
  <2>5. PICK X : X = SegsOf(s, Nxt(s, p))
    OBVIOUS
  <2>6. IsFiniteSet(X) /\ p \notin X /\ Cardinality(X) \in Nat
    BY <1>2, <2>2, <2>4, <2>5
  <2>7. Cardinality(X \cup {p}) = Cardinality(X) + 1
    BY <2>6, FS_AddElement
  <2>8. SegsOf(s, p) = X \cup {p}
    BY <2>3, <2>5
  <2>9. Cardinality(X) = Cardinality(SegsOf(s, p)) - 1
    BY <2>6, <2>7, <2>8
  <2> QED  BY <1>1, <2>1, <2>2, <2>3, <2>5, <2>9
<1> QED  BY <1>1, <1>2, <1>3

(* The bytes of a chain: those of its first segment, and of the rest.      *)
LEMMA BytesStep ==
  ASSUME NEW s \in Store(Data), Full(s), Chains(s)
  PROVE  /\ BytesAt(s, 0) = <<>>
         /\ \A p \in Used(s) \cup {0} : BytesAt(s, p) \in Seq(Byte)
         /\ \A p \in Used(s) : BytesAt(s, p) =
              SegAt(s, p).data \o BytesAt(s, Nxt(s, p))
<1> DEFINE U == Used(s) \cup {0}
           C(p) == Cardinality(SegsOf(s, p))
           T == MaxSegs
<1>1. PICK F : IsBytes(F, s) /\ \A p : BytesAt(s, p) = F[T][p]
  BY BytesExist
<1>2. /\ Used(s) \subseteq Addr /\ 0 \notin Addr /\ 0 \in Int /\ Addr \subseteq Int
      /\ T \in Nat
  BY LinkFacts, ChainShort DEF Used
<1>3. ASSUME NEW p \in U
      PROVE  /\ C(p) \in Nat /\ C(p) <= T
             /\ p # 0 => p \in Used(s) /\ Nxt(s, p) \in U
                         /\ C(Nxt(s, p)) = C(p) - 1 /\ C(p) # 0
  <2>1. /\ C(p) \in Nat /\ C(p) <= T
        /\ p # 0 => Nxt(s, p) \in U /\ C(Nxt(s, p)) = C(p) - 1
    BY ChainShort
  <2>2. ASSUME p # 0 PROVE C(p) # 0
    <3>1. C(Nxt(s, p)) \in Nat
      BY <2>1, <2>2, ChainShort
    <3> QED  BY <2>1, <2>2, <3>1
  <2> QED  BY <2>1, <2>2
<1>4. ASSUME NEW n \in 1 .. T, NEW p \in U
      PROVE  F[n][p] = IF p = 0 THEN <<>>
                       ELSE SegAt(s, p).data \o F[n - 1][Nxt(s, p)]
  <2>1. p \in Int /\ (p # 0 => p \in Addr /\ SegAt(s, p) # NoSeg)
    BY <1>2 DEF Used
  <2> QED  BY <1>1, <1>2, <2>1 DEF IsBytes
<1>5. \A p \in U : F[0][p] = <<>>
  BY <1>1, <1>2 DEF IsBytes
<1> HIDE DEF C, U, T
<1> DEFINE Q == {n \in Nat : n < T => \A p \in U :
                   F[n + 1][p] \in Seq(Byte)
                   /\ (C(p) <= n => F[n + 1][p] = F[n][p])}
<1>6. ASSUME NEW p \in U, p # 0
      PROVE  SegAt(s, p).data \in Seq(Byte) /\ Nxt(s, p) \in U
  BY <1>3, <1>6 DEF Full
<1>7. 0 \in Q
  <2> SUFFICES ASSUME 0 < T, NEW p \in U
               PROVE  F[0 + 1][p] \in Seq(Byte)
                      /\ (C(p) <= 0 => F[0 + 1][p] = F[0][p])
    OBVIOUS
  <2>1. PICK n \in 1 .. T : n = 1
    BY <1>2
  <2>2. F[n][p] = IF p = 0 THEN <<>> ELSE SegAt(s, p).data \o F[n - 1][Nxt(s, p)]
    BY <1>4
  <2>3. CASE p = 0
    <3>1. F[n][p] = <<>> /\ F[0][p] = <<>> /\ <<>> \in Seq(Byte)
      BY <1>5, <2>2, <2>3, EmptySeq
    <3>2. 0 + 1 = n
      BY <2>1
    <3> HIDE DEF Q
    <3> QED  BY <3>1, <3>2
  <2>4. CASE p # 0
    <3>1. F[0][Nxt(s, p)] = <<>> /\ <<>> \in Seq(Byte)
      BY <1>5, <1>6, <2>4, EmptySeq
    <3>2. F[n][p] = SegAt(s, p).data \o <<>>
      <4>1. n - 1 = 0
        BY <2>1
      <4>2. F[n - 1][Nxt(s, p)] = <<>>
        BY <3>1, <4>1
      <4> HIDE DEF Q
      <4> QED  BY <2>2, <2>4, <4>2
    <3>3. F[n][p] \in Seq(Byte)
      BY <1>6, <2>4, <3>1, <3>2, ConcatProperties
    <3>4. 0 + 1 = n /\ ~(C(p) <= 0)
      BY <1>3, <2>1, <2>4
    <3> HIDE DEF Q
    <3> QED  BY <3>3, <3>4
  <2> QED  BY <2>3, <2>4
<1>8. ASSUME NEW n \in Nat, n \in Q PROVE n + 1 \in Q
  <2> SUFFICES ASSUME n + 1 < T, NEW p \in U
               PROVE  F[n + 1 + 1][p] \in Seq(Byte)
                      /\ (C(p) <= n + 1 => F[n + 1 + 1][p] = F[n + 1][p])
    OBVIOUS
  <2>1. PICK m \in 1 .. T : m = n + 1
    BY <1>2
  <2>2. PICK k \in 1 .. T : k = m + 1
    BY <1>2, <2>1
  <2>3. /\ F[m][p] = IF p = 0 THEN <<>> ELSE SegAt(s, p).data \o F[n][Nxt(s, p)]
        /\ F[k][p] = IF p = 0 THEN <<>> ELSE SegAt(s, p).data \o F[m][Nxt(s, p)]
    <3>1. m - 1 = n /\ k - 1 = m
      BY <2>1, <2>2
    <3>2. F[m][p] = IF p = 0 THEN <<>>
                    ELSE SegAt(s, p).data \o F[m - 1][Nxt(s, p)]
      BY <1>4
    <3>3. F[k][p] = IF p = 0 THEN <<>>
                    ELSE SegAt(s, p).data \o F[k - 1][Nxt(s, p)]
      BY <1>4
    <3> QED  BY <3>1, <3>2, <3>3
  <2>4. \A q \in U : F[m][q] \in Seq(Byte) /\ (C(q) <= n => F[m][q] = F[n][q])
    <3>1. n < T
      BY <1>2
    <3> HIDE DEF U, C
    <3> QED  BY <1>8, <2>1, <3>1
  <2> HIDE DEF Q
  <2>5. CASE p = 0
    <3>1. F[m][p] = <<>> /\ F[k][p] = <<>> /\ <<>> \in Seq(Byte)
      BY <2>3, <2>5, EmptySeq
    <3> QED  BY <2>1, <2>2, <3>1
  <2>6. CASE p # 0
    <3>1. F[k][p] = SegAt(s, p).data \o F[m][Nxt(s, p)]
          /\ F[m][p] = SegAt(s, p).data \o F[n][Nxt(s, p)]
          /\ SegAt(s, p).data \in Seq(Byte) /\ F[m][Nxt(s, p)] \in Seq(Byte)
      BY <1>6, <2>3, <2>4, <2>6
    <3>2. F[k][p] \in Seq(Byte)
      BY <3>1, ConcatProperties
    <3>3. ASSUME C(p) <= n + 1 PROVE F[k][p] = F[m][p]
      <4>1. C(Nxt(s, p)) <= n /\ Nxt(s, p) \in U
        BY <1>3, <2>6, <3>3
      <4> QED  BY <2>4, <3>1, <4>1
    <3> QED  BY <2>1, <2>2, <3>2, <3>3
  <2> QED  BY <2>5, <2>6
<1> HIDE DEF Q
<1>9. Nat \subseteq Q
  BY <1>7, <1>8, SetInduction
<1>10. BytesAt(s, 0) = <<>>
  <2>1. 0 \in U
    BY DEF U
  <2>2. CASE T = 0
    BY <1>1, <1>5, <2>1, <2>2
  <2>3. CASE T # 0
    <3>1. T \in 1 .. T
      BY <1>2, <2>3
    <3> QED  BY <1>1, <1>4, <2>1, <3>1
  <2> QED  BY <2>2, <2>3
<1>11. ASSUME NEW p \in Used(s)
       PROVE  /\ BytesAt(s, p) \in Seq(Byte)
              /\ BytesAt(s, p) = SegAt(s, p).data \o BytesAt(s, Nxt(s, p))
  <2>1. p \in U /\ p # 0
    BY <1>2 DEF U
  <2>2. T \in 1 .. T /\ T - 1 \in Nat /\ C(Nxt(s, p)) <= T - 1
        /\ Nxt(s, p) \in U
    BY <1>2, <1>3, <2>1
  <2>3. F[T][p] = SegAt(s, p).data \o F[T - 1][Nxt(s, p)]
    BY <1>4, <2>1, <2>2
  <2>4. PICK n \in Nat : n = T - 1
    BY <2>2
  <2>5. n < T /\ n + 1 = T /\ n \in Q
    BY <1>2, <1>9, <2>4
  <2>6. \A q \in U : F[T][q] \in Seq(Byte) /\ (C(q) <= n => F[T][q] = F[n][q])
    BY <2>5 DEF Q
  <2>7. F[T][p] \in Seq(Byte) /\ F[T][Nxt(s, p)] = F[n][Nxt(s, p)]
    BY <2>1, <2>2, <2>4, <2>6
  <2> QED  BY <1>1, <2>3, <2>4, <2>7
<1> QED  BY <1>10, <1>11, EmptySeq

LEMMA Regroup ==
  \A x, y, z \in Seq(Byte) : x \o (y \o z) = (x \o y) \o z
BY ConcatAssociative, SMTT(30)

(* Chains of the same segments have the same bytes.                        *)
LEMMA BytesFrame ==
  ASSUME NEW s \in Store(Data), NEW r \in Store(Data), Full(s), Full(r),
         NEW p \in Int, \A q \in SegsOf(s, p) : SegAt(r, q) = SegAt(s, q)
  PROVE  BytesAt(r, p) = BytesAt(s, p)
<1> DEFINE T == MaxSegs
           P == SegsOf(s, p)
<1>1. PICK F : IsBytes(F, s) /\ \A q : BytesAt(s, q) = F[T][q]
  BY BytesExist
<1>2. PICK G : IsBytes(G, r) /\ \A q : BytesAt(r, q) = G[T][q]
  BY BytesExist
<1>3. /\ P \subseteq Addr /\ Addr \subseteq Int /\ 0 \in Int /\ 0 \notin Addr
      /\ \A q \in P : Nxt(s, q) \in P \cup {0}
      /\ (p \in Addr => p \in P)
      /\ T \in Nat
  <2>1. T \in Nat
    BY FinitePlaces, FS_CardinalityType DEF MaxSegs
  <2> QED  BY <2>1, LinkFacts, ChainStep
<1> HIDE DEF T, P
<1> DEFINE Q == {n \in Nat : n <= T =>
                   \A q \in Int : q \in P \/ q \notin Addr => G[n][q] = F[n][q]}
<1>4. 0 \in Q
  BY <1>1, <1>2 DEF IsBytes
<1>5. ASSUME NEW n \in Nat, n \in Q PROVE n + 1 \in Q
  <2> SUFFICES ASSUME n + 1 <= T, NEW q \in Int, q \in P \/ q \notin Addr
               PROVE  G[n + 1][q] = F[n + 1][q]
    OBVIOUS
  <2>1. PICK m \in 1 .. T : m = n + 1
    BY <1>3
  <2>2. \A t \in Int : t \in P \/ t \notin Addr => G[m - 1][t] = F[m - 1][t]
    BY <1>3, <1>5, <2>1
  <2> HIDE DEF Q
  <2>3. CASE q \notin Addr
    <3>1. G[m][q] = <<>> /\ F[m][q] = <<>>
      BY <1>1, <1>2, <2>3 DEF IsBytes, T
    <3> QED  BY <2>1, <3>1
  <2>4. CASE q \in P
    <3>1. SegAt(r, q) = SegAt(s, q) /\ Nxt(r, q) = Nxt(s, q) /\ q \in Addr
      BY <1>3, <2>4 DEF P, Nxt
    <3>2. Nxt(s, q) \in Int /\ (Nxt(s, q) \in P \/ Nxt(s, q) \notin Addr)
      BY <1>3, <2>4
    <3>3. G[m - 1][Nxt(s, q)] = F[m - 1][Nxt(s, q)]
      BY <2>2, <3>2
    <3>4. G[m][q] = IF SegAt(r, q) = NoSeg THEN <<NoData>>
                    ELSE SegAt(r, q).data \o G[m - 1][Nxt(r, q)]
      BY <1>2, <3>1 DEF IsBytes, T
    <3>5. F[m][q] = IF SegAt(s, q) = NoSeg THEN <<NoData>>
                    ELSE SegAt(s, q).data \o F[m - 1][Nxt(s, q)]
      BY <1>1, <3>1 DEF IsBytes, T
    <3> QED  BY <2>1, <3>1, <3>3, <3>4, <3>5
  <2> QED  BY <2>3, <2>4
<1> HIDE DEF Q
<1>6. T \in Q
  BY <1>3, <1>4, <1>5, SetInduction
<1>7. G[T][p] = F[T][p]
  BY <1>3, <1>6 DEF Q
<1> QED  BY <1>1, <1>2, <1>7

(* A chain up to the segment q, and from there.                            *)
LEMMA BytesFrom ==
  ASSUME NEW s \in Store(Data), NEW r \in Store(Data), Full(s), Full(r),
         Chains(s), Chains(r), NEW p \in Used(s), NEW q \in SegsOf(s, p),
         Used(s) \subseteq Used(r),
         \A c \in SegsOf(s, p) : c \notin SegsOf(s, q) => SegAt(r, c) = SegAt(s, c)
  PROVE  \E x \in Seq(Byte) : /\ BytesAt(s, p) = x \o BytesAt(s, q)
                              /\ BytesAt(r, p) = x \o BytesAt(r, q)
<1> DEFINE U == Used(s)
           C(a) == Cardinality(SegsOf(s, a))
           Z == SegsOf(s, q)
           Splits(a) == \E x \in Seq(Byte) :
                          /\ BytesAt(s, a) = x \o BytesAt(s, q)
                          /\ BytesAt(r, a) = x \o BytesAt(r, q)
           Q == {n \in Nat : \A a \in U :
                   /\ q \in SegsOf(s, a) /\ C(a) <= n
                   /\ \A c \in SegsOf(s, a) : c \notin Z => SegAt(r, c) = SegAt(s, c)
                   => Splits(a)}
<1>1. U \subseteq Addr /\ Addr \subseteq Int /\ 0 \notin Addr /\ 0 \in Int
  BY LinkFacts DEF Used
<1>2. SegsOf(s, p) \subseteq U
  BY CoverSame
<1>3. q \in U /\ q \in Used(r)
  BY <1>2
<1>4. ASSUME NEW a \in U
      PROVE  /\ C(a) \in Nat /\ C(a) # 0
             /\ Nxt(s, a) \in U \cup {0} /\ a \notin SegsOf(s, Nxt(s, a))
             /\ SegsOf(s, a) = {a} \cup SegsOf(s, Nxt(s, a))
             /\ C(Nxt(s, a)) = C(a) - 1
  <2>1. a # 0 /\ a \in U \cup {0}
    BY <1>1
  <2>2. /\ C(a) \in Nat
        /\ Nxt(s, a) \in U \cup {0} /\ a \notin SegsOf(s, Nxt(s, a))
        /\ SegsOf(s, a) = {a} \cup SegsOf(s, Nxt(s, a))
        /\ C(Nxt(s, a)) = C(a) - 1
    BY <2>1, ChainShort
  <2>3. C(Nxt(s, a)) \in Nat
    BY <2>2, ChainShort
  <2> QED  BY <2>2, <2>3
<1>5. 0 \in Q
  BY <1>4
<1> HIDE DEF C, Z, Splits, U
<1>6. ASSUME NEW n \in Nat, n \in Q PROVE n + 1 \in Q
  <2> SUFFICES ASSUME NEW a \in U, q \in SegsOf(s, a), C(a) <= n + 1,
                      \A c \in SegsOf(s, a) : c \notin Z => SegAt(r, c) = SegAt(s, c)
               PROVE  Splits(a)
    OBVIOUS
  <2>1. CASE a = q
    <3>1. /\ BytesAt(s, q) \in Seq(Byte) /\ BytesAt(r, q) \in Seq(Byte)
          /\ <<>> \in Seq(Byte)
      BY <1>3, BytesStep, EmptySeq DEF U
    <3>2. /\ BytesAt(s, q) = <<>> \o BytesAt(s, q)
          /\ BytesAt(r, q) = <<>> \o BytesAt(r, q)
      BY <3>1, ConcatEmptySeq
    <3> QED  BY <2>1, <3>1, <3>2 DEF Splits
  <2>2. CASE a # q
    <3>1. PICK b : b = Nxt(s, a)
      OBVIOUS
    <3>2. /\ C(a) \in Nat /\ b \in U \cup {0} /\ a \notin SegsOf(s, b)
          /\ SegsOf(s, a) = {a} \cup SegsOf(s, b) /\ C(b) = C(a) - 1
      BY <1>4, <3>1
    <3>3. q \in SegsOf(s, b) /\ C(b) <= n
      BY <2>2, <3>2
    <3>4. b \in U /\ b \in Int
      BY <1>1, <3>2, <3>3, ChainStep
    <3>5. Z \subseteq SegsOf(s, b)
      BY <3>3, <3>4, ChainStep DEF Z
    <3>6. SegAt(r, a) = SegAt(s, a) /\ Nxt(r, a) = b
      BY <3>1, <3>2, <3>5 DEF Nxt, Z
    <3>7. Splits(b)
      <4>1. \A c \in SegsOf(s, b) : c \notin Z => SegAt(r, c) = SegAt(s, c)
        BY <3>2
      <4> QED  BY <1>6, <3>3, <3>4, <4>1
    <3>8. PICK x \in Seq(Byte) : /\ BytesAt(s, b) = x \o BytesAt(s, q)
                                 /\ BytesAt(r, b) = x \o BytesAt(r, q)
      BY <3>7 DEF Splits
    <3>9. PICK y : y = SegAt(s, a).data
      OBVIOUS
    <3>10. y \in Seq(Byte) /\ BytesAt(s, q) \in Seq(Byte)
           /\ BytesAt(r, q) \in Seq(Byte)
      BY <1>3, <3>9, BytesStep DEF Full, U
    <3>11. BytesAt(s, a) = y \o BytesAt(s, b)
      BY <3>1, <3>9, BytesStep DEF U
    <3>12. BytesAt(r, a) = y \o BytesAt(r, b)
      <4>1. a \in Used(r)
        BY DEF U
      <4> QED  BY <3>6, <3>9, <4>1, BytesStep
    <3>13. y \in Seq(Byte) /\ x \in Seq(Byte)
      BY <3>8, <3>10
    <3>14. ASSUME NEW z \in Seq(Byte) PROVE y \o (x \o z) = (y \o x) \o z
      BY <3>13, Regroup, Zenon
    <3>15. y \o x \in Seq(Byte)
      BY <3>10, ConcatProperties
    <3>16. /\ y \o (x \o BytesAt(s, q)) = (y \o x) \o BytesAt(s, q)
           /\ y \o (x \o BytesAt(r, q)) = (y \o x) \o BytesAt(r, q)
      BY <3>10, <3>14
    <3> QED  BY <3>8, <3>11, <3>12, <3>15, <3>16 DEF Splits
  <2> QED  BY <2>1, <2>2
<1> HIDE DEF Q
<1>7. C(p) \in Nat /\ C(p) \in Q
  BY <1>4, <1>5, <1>6, SetInduction DEF U
<1>8. C(p) <= C(p) /\ p \in U
  BY <1>7 DEF U
<1>9. \A c \in SegsOf(s, p) : c \notin Z => SegAt(r, c) = SegAt(s, c)
  BY DEF Z
<1>10. Splits(p)
  BY <1>7, <1>8, <1>9 DEF Q
<1> QED  BY <1>10 DEF Splits
(* Bytes put together.                                                     *)
LEMMA Joined ==
  ASSUME NEW x \in Seq(Byte), NEW y \in Seq(Byte)
  PROVE  /\ x \o y \in Seq(Byte) /\ Len(x \o y) = Len(x) + Len(y)
         /\ Len(x) \in Nat /\ x \o <<>> = x /\ <<>> \o x = x
         /\ SubSeq(x \o y, 1, Len(x)) = x
<1>1. /\ x \o y \in Seq(Byte) /\ Len(x \o y) = Len(x) + Len(y)
      /\ Len(x) \in Nat /\ Len(y) \in Nat /\ x \o <<>> = x /\ <<>> \o x = x
  BY ConcatProperties, ConcatEmptySeq, LenProperties
<1>2. PICK m \in Nat : m = Len(x)
  BY <1>1
<1>3. PICK v \in Seq(Byte) : v = x \o y
  BY <1>1
<1>4. m <= Len(v) /\ \A i \in 1 .. m : v[i] = x[i]
  BY <1>1, <1>2, <1>3, ConcatProperties
<1>5. \A i \in 1 .. m : v[i] \in Byte
  BY <1>1, <1>2, <1>3, <1>4
<1>6. /\ SubSeq(v, 1, m) \in Seq(Byte) /\ Len(SubSeq(v, 1, m)) = m
      /\ \A i \in 1 .. m : SubSeq(v, 1, m)[i] = v[i]
  BY <1>2, <1>5, SubSeqProperties
<1>7. SubSeq(v, 1, m) = x
  <2>1. \A i \in 1 .. Len(SubSeq(v, 1, m)) : SubSeq(v, 1, m)[i] = x[i]
    BY <1>4, <1>6
  <2> QED  BY <1>2, <1>6, <2>1, SeqEqual
<1> QED  BY <1>1, <1>2, <1>3, <1>7

(* Parts of a record, one behind the other.                                *)
LEMMA Parts ==
  ASSUME NEW r \in Seq(Byte), NEW i \in Nat, NEW j \in Nat, NEW k \in Nat,
         i <= j, j <= k, k <= Len(r)
  PROVE  /\ SubSeq(r, i + 1, j) \in Seq(Byte)
         /\ Len(SubSeq(r, i + 1, j)) = j - i
         /\ SubSeq(r, i + 1, j) \o SubSeq(r, j + 1, k) = SubSeq(r, i + 1, k)
         /\ SubSeq(r, i + 1, i) = <<>> /\ SubSeq(r, 1, Len(r)) = r
<1>1. Len(r) \in Nat /\ SubSeq(r, 1, Len(r)) = r
  BY LenProperties, SubSeqFull
<1>2. \A e \in i + 1 .. j : r[e] \in Byte
  BY <1>1
<1>3. SubSeq(r, i + 1, j) \in Seq(Byte) /\ Len(SubSeq(r, i + 1, j)) =
        IF i + 1 <= j THEN j - (i + 1) + 1 ELSE 0
  BY <1>2, SubSeqProperties
<1>4. SubSeq(r, i + 1, i) = <<>>
  BY SubSeqEmpty
<1>5. SubSeq(r, i + 1, j) \o SubSeq(r, j + 1, k) = SubSeq(r, i + 1, k)
  <2>1. PICK m \in 1 .. Len(r) + 1 : m = i + 1
    BY <1>1
  <2>2. j \in m - 1 .. Len(r) /\ k \in j .. Len(r)
    BY <1>1, <2>1
  <2>3. SubSeq(r, m, j) \o SubSeq(r, j + 1, k) = SubSeq(r, m, k)
    BY <2>2, ConcatAdjacentSubSeq
  <2> QED  BY <2>1, <2>3
<1> QED  BY <1>1, <1>3, <1>4, <1>5

(* What precedes the same bytes in the same bytes is the same.             *)
LEMMA Cancelled ==
  ASSUME NEW x \in Seq(Byte), NEW y \in Seq(Byte), NEW z \in Seq(Byte),
         x \o z = y \o z
  PROVE  x = y
<1>1. PICK v : v = x \o z
  OBVIOUS
<1>2. /\ v \in Seq(Byte) /\ Len(v) = Len(x) + Len(z) /\ Len(v) = Len(y) + Len(z)
      /\ Len(x) \in Nat /\ Len(y) \in Nat /\ Len(z) \in Nat
      /\ SubSeq(v, 1, Len(x)) = x
  BY <1>1, Joined
<1>3. SubSeq(v, 1, Len(y)) = y
  BY <1>1, Joined
<1>4. Len(x) = Len(y)
  BY <1>2
<1> QED  BY <1>2, <1>3, <1>4

----------------------------------------------------------------------------
(* What the segments of the call under way hold.                           *)

RecOf(k) == IF index[k] = ZNULL THEN NoRec ELSE BytesAt(st, index[k])
To(n)    == SubSeq(op.rec, 1, n)
From(n)  == SubSeq(op.rec, n + 1, Len(op.rec))

(* Between calls there is nothing left of the last one but its result.     *)
OldInv ==
  /\ pc = "idle" => op = NoOp
  /\ op.name \in {"ins", "sel", "recs"} => old = RecOf(op.key)
  /\ op.name \in {"upd", "del"} => old # NoRec
  /\ pc \notin {"idle", "bseldt"} => out = <<>> /\ rsize = 0

ErrInv ==
  /\ pc \in {"binsdt", "binsky", "bupddt", "bseldt", "brecsz"} => err = "OK"
  /\ pc = "relink" => /\ base < Len(op.rec)
                      /\ err = "OK" \/ (err = "QF2BIG" /\ d = 0)
  /\ pc = "bdeldt" =>
       \/ op.name # "ins" /\ err = "OK"
       \/ op.name = "ins" /\ err = "QF2BIG"
       \/ /\ op.name = "ins" /\ err = "QDUP" /\ index[op.key] # ZNULL
          /\ lf = [key |-> op.key, exct |-> TRUE]

(* binsdt has stored the end of the record.                                *)
InsCont ==
  /\ op.name = "ins" => base = 0
  /\ pc = "binsdt" => BytesAt(st, d) = From(base + rem)
  /\ pc = "binsky" \/ (pc = "relink" /\ err = "OK") => BytesAt(st, d) = From(base)

(* bupddt has put the new record in place of the front of the old one, and *)
(* then of all of it.                                                      *)
UpdCont ==
  /\ pc = "bupddt" =>
       RecOf(op.key) = IF tail # 0 /\ rem <= 0 THEN op.rec
                       ELSE To(base) \o BytesAt(st, d)
  /\ pc = "bupddt" /\ tail = 0 => base = 0
  /\ pc = "bdeldt" /\ op.name = "upd" => RecOf(op.key) = op.rec
  /\ pc = "binsdt" /\ op.name = "upd" => base < Len(op.rec)
  /\ pc \in {"binsdt", "relink"} /\ op.name = "upd" => RecOf(op.key) = To(base)

(* bseldt and brecsz have read the front of the record.                    *)
ReadCont ==
  /\ pc \in {"bseldt", "brecsz"} => d \in Used(st) \cup {0}
  /\ pc = "bseldt" =>
       /\ out \in Seq(Byte) /\ rsize = Len(out) /\ rem >= 0
       /\ rem + rsize = op.size
       /\ \E z \in Seq(Byte) : old = out \o z /\ (rem > 0 => z = BytesAt(st, d))
  /\ pc = "brecsz" =>
       /\ old \in Seq(Byte)
       /\ rem >= 0 /\ rem + Len(BytesAt(st, d)) = Len(old)

Cont == OldInv /\ ErrInv /\ InsCont /\ UpdCont /\ ReadCont

(* The store as the bytes are read from it.                                *)
LEMMA InvFacts ==
  ASSUME Inv
  PROVE  /\ st \in Store(Data) /\ Full(st) /\ Chains(st) /\ ListsOK(st)
         /\ SpaceOK(st, "data")
         /\ index \in [Key -> Addr \cup {ZNULL}]
         /\ lf \in [key : Key \cup {NoKey}, exct : BOOLEAN]
         /\ op.rec \in Seq(Byte) /\ Len(op.rec) \in Nat /\ base \in Nat
         /\ rem \in Int /\ d \in Addr \cup {0} /\ d \in Int /\ tail \in Addr \cup {0}
         /\ pc = "idle" <=> op.name = "none"
         /\ pc # "idle" => op.key \in Key
         /\ Used(st) \subseteq Addr /\ 0 \notin Addr /\ Addr \subseteq Int
         /\ op.name \in {"upd", "del", "sel", "recs"} => index[op.key] # ZNULL
<1>1. /\ st \in Store(Data) /\ d \in Addr \cup {0}
  BY DEF Inv, TypeInv
<1>2. /\ Used(st) \subseteq Addr /\ 0 \notin Addr /\ Addr \subseteq Int /\ d \in Int
  BY <1>1, LinkFacts DEF Used
<1>3. op.rec \in Seq(Byte) /\ Len(op.rec) \in Nat
  BY LenProperties DEF Inv, TypeInv
<1> QED  BY <1>1, <1>2, <1>3 DEF Inv, TypeInv, StoreInv, OwnInv, CallInv

(* Each record has a chain of segments in use, none of which is one of the *)
(* call or of another record.                                              *)
LEMMA RecordChain ==
  ASSUME Inv, NEW k \in Key, index[k] # ZNULL
  PROVE  /\ index[k] \in Addr /\ index[k] \in Int /\ RecOf(k) = BytesAt(st, index[k])
         /\ k # Gone => /\ SegsOf(st, index[k]) = Owns(st, index, Gone, k)
                        /\ SegsOf(st, index[k]) \subseteq Used(st)
                        /\ index[k] \in Used(st)
                        /\ BytesAt(st, index[k]) \in Seq(Byte)
                        /\ RecOf(k) # NoRec
                        /\ \A q \in SegsOf(st, index[k]) :
                             /\ q \notin Cur /\ q \notin lost
                             /\ \A j \in Key : j # k /\ j # Gone /\ index[j] # ZNULL =>
                                  q \notin SegsOf(st, index[j])
<1>1. /\ index[k] \in Addr /\ index[k] \in Int /\ RecOf(k) = BytesAt(st, index[k])
      /\ st \in Store(Data) /\ Full(st) /\ Chains(st)
      /\ Cover(st, index, Gone, Cur, lost)
      /\ index \in [Key -> Addr \cup {ZNULL}]
  BY InvFacts DEF RecOf, Inv, OwnInv
<1>2. ASSUME k # Gone
      PROVE  /\ SegsOf(st, index[k]) = Owns(st, index, Gone, k)
             /\ SegsOf(st, index[k]) \subseteq Used(st)
             /\ index[k] \in Used(st)
             /\ BytesAt(st, index[k]) \in Seq(Byte)
             /\ RecOf(k) # NoRec
             /\ \A q \in SegsOf(st, index[k]) :
                  /\ q \notin Cur /\ q \notin lost
                  /\ \A j \in Key : j # k /\ j # Gone /\ index[j] # ZNULL =>
                       q \notin SegsOf(st, index[j])
  <2>1. SegsOf(st, index[k]) = Owns(st, index, Gone, k)
        /\ index[k] \in Owns(st, index, Gone, k)
    BY <1>1, <1>2, OwnsChain DEF Owns
  <2>2. /\ Owns(st, index, Gone, k) \subseteq Used(st)
        /\ \A q \in Owns(st, index, Gone, k) :
             /\ q \notin Cur /\ q \notin lost
             /\ \A j \in Key : j # k => q \notin Owns(st, index, Gone, j)
    BY <1>1 DEF Cover
  <2>3. \A j \in Key : j # Gone /\ index[j] # ZNULL =>
          SegsOf(st, index[j]) = Owns(st, index, Gone, j)
    BY DEF Owns
  <2>4. BytesAt(st, index[k]) \in Seq(Byte)
    BY <1>1, <2>1, <2>2, BytesStep
  <2>5. RecOf(k) # NoRec
    BY <1>1, <2>4, RecordFacts
  <2> QED  BY <2>1, <2>2, <2>3, <2>4, <2>5
<1> QED  BY <1>1, <1>2

(* A record of which no segment changes is the same.                       *)
LEMMA RecordStays ==
  ASSUME Inv, Inv', NEW k \in Key, index'[k] = index[k],
         index[k] # ZNULL => \A q \in SegsOf(st, index[k]) :
                               SegAt(st', q) = SegAt(st, q)
  PROVE  RecOf(k)' = RecOf(k)
<1>1. st \in Store(Data) /\ Full(st) /\ st' \in Store(Data) /\ Full(st')
  BY DEF Inv, TypeInv, StoreInv
<1>2. CASE index[k] = ZNULL
  BY <1>2 DEF RecOf
<1>3. CASE index[k] # ZNULL
  <2>1. index[k] \in Int
    BY <1>3, RecordChain
  <2>2. BytesAt(st', index[k]) = BytesAt(st, index[k])
    BY <1>1, <1>3, <2>1, BytesFrame
  <2> QED  BY <1>3, <2>2 DEF RecOf
<1> QED  BY <1>2, <1>3
(* The store of module RecordStore.                                        *)
Recs == [k \in Key |-> RecordOf(k)]

(* A record is stored when its key is.                                     *)
LEMMA StoredIs ==
  ASSUME Inv, OldInv
  PROVE  /\ RS!Stored = Stored
         /\ pc = "idle" => \A k \in Key : RecordOf(k) = RecOf(k)
         /\ pc # "idle" => \A k \in Key :
              RecordOf(k) = IF k = op.key THEN old ELSE RecOf(k)
<1>1. /\ pc = "idle" => \A k \in Key : RecordOf(k) = RecOf(k)
      /\ pc # "idle" => \A k \in Key :
           RecordOf(k) = IF k = op.key THEN old ELSE RecOf(k)
  BY DEF RecordOf, RecOf
<1>2. ASSUME NEW k \in Key, pc = "idle" \/ k # op.key
      PROVE  RecOf(k) # NoRec <=> index[k] # ZNULL
  <2>1. k # Gone
    BY <1>2, RecordFacts DEF Gone
  <2> QED  BY <2>1, RecordChain DEF RecOf
<1>3. ASSUME pc # "idle" PROVE old # NoRec <=> index[op.key] # ZNULL
  <2>1. /\ op.key \in Key /\ op.name \in {"ins", "upd", "del", "sel", "recs"}
        /\ op.name \in {"upd", "del", "sel", "recs"} => index[op.key] # ZNULL
    BY <1>3 DEF Inv, TypeInv, CallInv, CallNames
  <2>2. CASE op.name \in {"upd", "del"}
    BY <2>1, <2>2 DEF OldInv
  <2>3. CASE op.name \notin {"upd", "del"}
    <3>1. old = RecOf(op.key) /\ Gone = NoKey /\ op.key # Gone
      BY <2>1, <2>3, RecordFacts DEF OldInv, Gone
    <3> QED  BY <2>1, <3>1, RecordChain DEF RecOf
  <2> QED  BY <2>2, <2>3
<1>4. \A k \in Key : RecordOf(k) # NoRec <=> index[k] # ZNULL
  BY <1>1, <1>2, <1>3
<1>5. RS!Stored = {k \in Key : Recs[k] # NoRec}
  BY DEF RS!Stored, Recs
<1>6. RS!Stored = Stored
  BY <1>4, <1>5 DEF Stored, Recs
<1> QED  BY <1>1, <1>6

(* A step that goes on with the call.                                      *)
LEMMA Silent ==
  ASSUME pc # "idle", pc' # "idle", op' = op, old' = old,
         \A k \in Key : k # op.key => RecOf(k)' = RecOf(k)
  PROVE  Recs' = Recs /\ (lf' = lf => UNCHANGED RS!vars)
<1>1. \A k \in Key : RecordOf(k)' = RecordOf(k)
  BY DEF RecordOf, RecOf
<1>2. Recs' = Recs
  BY <1>1 DEF Recs
<1> QED  BY <1>2 DEF RS!vars, Recs

(* A step in which the call returns.                                       *)
LEMMA Answer ==
  ASSUME pc # "idle", NEW e, Return(e), NEW k0 \in Key, k0 = op.key,
         \A k \in Key : k # k0 => RecOf(k)' = RecOf(k)
  PROVE  /\ Recs' = [Recs EXCEPT ![k0] = RecOf(k0)']
         /\ RecOf(k0)' = old => Recs' = Recs
         /\ pc' = "idle" /\ op' = NoOp /\ err' = e
<1>1. pc' = "idle" /\ op' = NoOp /\ err' = e
  BY DEF Return
<1>2. ASSUME NEW k \in Key
      PROVE  RecordOf(k)' = IF k = k0 THEN RecOf(k0)' ELSE RecordOf(k)
  <2>1. RecordOf(k)' = RecOf(k)'
    BY <1>1 DEF RecordOf, RecOf
  <2>2. CASE k = k0
    BY <2>1, <2>2
  <2>3. CASE k # k0
    <3>1. RecordOf(k) = RecOf(k)
      BY <2>3 DEF RecordOf, RecOf
    <3>2. RecOf(k)' = RecOf(k)
      BY <2>3
    <3> QED  BY <2>1, <2>3, <3>1, <3>2
  <2> QED  BY <2>2, <2>3
<1>3. Recs' = [Recs EXCEPT ![k0] = RecOf(k0)']
  BY <1>2 DEF Recs
<1>4. RecordOf(k0) = old
  BY DEF RecordOf
<1>5. ASSUME RecOf(k0)' = old PROVE Recs' = Recs
  <2>1. \A k \in Key : RecordOf(k)' = RecordOf(k)
    BY <1>2, <1>4, <1>5
  <2> QED  BY <2>1 DEF Recs
<1> QED  BY <1>1, <1>3, <1>5

(* After a call nothing is left to say.                                    *)
LEMMA ReturnCont ==
  ASSUME NEW e, Return(e)
  PROVE  Cont'
BY DEF Return, Cont, OldInv, ErrInv, InsCont, UpdCont, ReadCont, NoOp

----------------------------------------------------------------------------
(* binsdt.                                                                 *)

(* A segment stored in front of the others.                                *)
LEMMA AddCont ==
  ASSUME Inv, Inv', Cont, pc = "binsdt", st.head["data"] # ZNULL, NEW n \in 0 .. rem,
         n + ZDOVRH <= Room(st, "data"), index' = index,
         st' = InsDat(st, "data", n, Part(n), d), d' = InsAddr(st, "data")
  PROVE  /\ BytesAt(st', d') = From(base + rem - n)
         /\ \A k \in Key : RecOf(k)' = RecOf(k)
<1>1. /\ st \in Store(Data) /\ st' \in Store(Data) /\ Full(st) /\ Full(st')
      /\ Chains(st) /\ Chains(st') /\ d \in Int
      /\ base \in Nat /\ rem \in Nat /\ base + rem <= Len(op.rec)
      /\ op.rec \in Seq(Byte) /\ Len(op.rec) \in Nat
  BY InvFacts DEF Inv, TypeInv, StoreInv, OwnInv, PosInv
<1>2. /\ SegAt(st', d') = [size |-> n, next |-> d, data |-> Part(n)]
      /\ \A c \in Used(st) : SegAt(st', c) = SegAt(st, c)
      /\ Used(st') = Used(st) \cup {d'}
  BY AddSeg
<1>3. BytesAt(st', d') = Part(n) \o BytesAt(st', d)
  <2>1. d' \in Used(st') /\ SegAt(st', d').data = Part(n) /\ Nxt(st', d') = d
    BY <1>2 DEF Nxt
  <2> QED  BY <1>1, <2>1, BytesStep
<1>4. BytesAt(st', d) = BytesAt(st, d)
  <2>1. SegsOf(st, d) \subseteq Used(st)
    BY CurIs DEF Inv, OwnInv, Cover
  <2> QED  BY <1>1, <1>2, <2>1, BytesFrame
<1>5. BytesAt(st, d) = From(base + rem)
  BY DEF Cont, InsCont
<1>6. Part(n) \o From(base + rem) = From(base + rem - n)
  <2>1. PICK i \in Nat : i = base + rem - n
    BY <1>1
  <2>2. PICK j \in Nat : j = base + rem
    BY <1>1
  <2>3. i <= j /\ j <= Len(op.rec)
    BY <1>1, <2>1, <2>2
  <2>4. PICK k \in Nat : k = Len(op.rec)
    BY <1>1
  <2>5. i <= j /\ j <= k /\ k <= Len(op.rec)
    BY <2>3, <2>4
  <2>6. SubSeq(op.rec, i + 1, j) \o SubSeq(op.rec, j + 1, k) =
          SubSeq(op.rec, i + 1, k)
    <3>1. PICK r \in Seq(Byte) : r = op.rec
      BY <1>1
    <3>2. k <= Len(r)
      BY <2>5, <3>1
    <3>3. SubSeq(r, i + 1, j) \o SubSeq(r, j + 1, k) = SubSeq(r, i + 1, k)
      BY <2>5, <3>2, Parts
    <3> QED  BY <3>1, <3>3
  <2>7. From(base + rem - n) = SubSeq(op.rec, i + 1, k)
    BY <2>1, <2>4 DEF From
  <2>8. From(base + rem) = SubSeq(op.rec, j + 1, k)
    BY <2>2, <2>4 DEF From
  <2>9. base + rem - n + n = base + rem
    BY <1>1
  <2>10. Part(n) = SubSeq(op.rec, i + 1, j)
    BY <1>1, <2>1, <2>2 DEF Part
  <2> QED  BY <2>6, <2>7, <2>8, <2>10
<1>7. ASSUME NEW k \in Key PROVE RecOf(k)' = RecOf(k)
  <2>1. Gone = NoKey /\ k # Gone
    BY RecordFacts DEF Gone
  <2>2. index[k] # ZNULL => \A q \in SegsOf(st, index[k]) :
                              SegAt(st', q) = SegAt(st, q)
    BY <1>2, <2>1, RecordChain
  <2> QED  BY <2>2, RecordStays
<1> QED  BY <1>3, <1>4, <1>5, <1>6, <1>7

(* The rest of the record fits.                                            *)
LEMMA InsRestSim ==
  ASSUME Inv, Cont, InsRest
  PROVE  Cont' /\ UNCHANGED RS!vars
<1>1. /\ pc = "binsdt" /\ st.head["data"] # ZNULL
      /\ Room(st, "data") >= rem + ZDOVRH
      /\ st' = InsDat(st, "data", rem, Part(rem), d)
      /\ d' = InsAddr(st, "data") /\ rem' = -1
      /\ pc' = IF op.name = "ins" THEN "binsky" ELSE "relink"
      /\ UNCHANGED <<index, lf, op, base, tail, out, rsize, old, err>>
  BY DEF InsRest, unchangedByIns
<1>2. /\ Inv' /\ rem \in Nat /\ rem \in 0 .. rem /\ base \in Nat
      /\ rem + ZDOVRH <= Room(st, "data") /\ base + rem - rem = base
      /\ op.key \in Key /\ op.name \in {"ins", "upd"}
  <2>1. /\ rem \in Nat /\ rem \in 0 .. rem /\ base \in Nat
        /\ op.key \in Key /\ op.name \in {"ins", "upd"} /\ TypeInv /\ StoreInv
    BY <1>1 DEF Inv, TypeInv, PosInv, CallInv
  <2>2. Room(st, "data") \in 0 .. CAP
    BY <1>1, <2>1, HeadRoom
  <2> QED  BY <1>1, <2>1, <2>2, InsRestInv, BlkFacts
<1>3. BytesAt(st', d') = From(base) /\ \A k \in Key : RecOf(k)' = RecOf(k)
  BY <1>1, <1>2, AddCont
<1>4. Cont'
  <2>1. OldInv'
    BY <1>1, <1>2, <1>3 DEF Cont, OldInv
  <2>2. ErrInv'
    BY <1>1, <1>2 DEF Cont, ErrInv, UpdCont
  <2>3. InsCont'
    BY <1>1, <1>3 DEF Cont, InsCont, From
  <2>4. UpdCont'
    BY <1>1, <1>2, <1>3 DEF Cont, UpdCont, To
  <2>5. ReadCont'
    BY <1>1 DEF ReadCont
  <2> QED  BY <2>1, <2>2, <2>3, <2>4, <2>5 DEF Cont
<1> QED  BY <1>1, <1>3, <1>4, Silent

(* A segment fills the active block.                                       *)
LEMMA InsPartSim ==
  ASSUME Inv, Cont, InsPart
  PROVE  Cont' /\ UNCHANGED RS!vars
<1> DEFINE n == Room(st, "data") - ZDOVRH
<1>1. /\ pc = "binsdt" /\ pc' = pc /\ st.head["data"] # ZNULL
      /\ Room(st, "data") < rem + ZDOVRH
      /\ Room(st, "data") >= ZDOVRH + ZDSGMN
      /\ st' = InsDat(st, "data", n, Part(n), d) /\ rem' = rem - n
      /\ d' = InsAddr(st, "data")
      /\ UNCHANGED <<index, lf, op, base, tail, out, rsize, old, err>>
  BY DEF InsPart, unchangedByIns
<1>2. /\ Inv' /\ n \in 0 .. rem /\ base \in Nat /\ rem \in Nat
      /\ n + ZDOVRH <= Room(st, "data") /\ base + rem - n = base + (rem - n)
      /\ op.key \in Key /\ op.name \in {"ins", "upd"}
  <2>1. /\ rem \in Nat /\ base \in Nat
        /\ op.key \in Key /\ op.name \in {"ins", "upd"} /\ TypeInv /\ StoreInv
    BY <1>1 DEF Inv, TypeInv, PosInv, CallInv
  <2>2. Room(st, "data") \in 0 .. CAP
    BY <1>1, <2>1, HeadRoom
  <2> QED  BY <1>1, <2>1, <2>2, InsPartInv, BlkFacts, SegmentConstants
<1> HIDE DEF n
<1>3. BytesAt(st', d') = From(base + rem - n) /\ \A k \in Key : RecOf(k)' = RecOf(k)
  BY <1>1, <1>2, AddCont
<1>4. Cont'
  <2>1. OldInv'
    BY <1>1, <1>2, <1>3 DEF Cont, OldInv
  <2>2. ErrInv'
    BY <1>1 DEF Cont, ErrInv
  <2>3. InsCont'
    BY <1>1, <1>2, <1>3 DEF Cont, InsCont, From
  <2>4. UpdCont'
    BY <1>1, <1>2, <1>3 DEF Cont, UpdCont, To
  <2>5. ReadCont'
    BY <1>1 DEF ReadCont
  <2> QED  BY <2>1, <2>2, <2>3, <2>4, <2>5 DEF Cont
<1> QED  BY <1>1, <1>3, <1>4, Silent

(* Stores with the same segments have the same records.                    *)
LEMMA SameSegs ==
  ASSUME Inv, Inv', \A a \in Addr : SegAt(st', a) = SegAt(st, a)
  PROVE  /\ \A x \in Int : BytesAt(st', x) = BytesAt(st, x)
         /\ \A k \in Key : index'[k] = index[k] => RecOf(k)' = RecOf(k)
<1>1. /\ st \in Store(Data) /\ st' \in Store(Data) /\ Full(st) /\ Full(st')
  BY DEF Inv, TypeInv, StoreInv
<1>2. \A x \in Int : SegsOf(st, x) \subseteq Addr
  BY <1>1, ChainStep
<1>3. ASSUME NEW x \in Int PROVE BytesAt(st', x) = BytesAt(st, x)
  BY <1>1, <1>2, BytesFrame
<1>4. ASSUME NEW k \in Key, index'[k] = index[k] PROVE RecOf(k)' = RecOf(k)
  <2>1. index[k] # ZNULL => index[k] \in Int
    BY RecordChain
  <2> QED  BY <1>2, <1>4, <2>1, RecordStays
<1> QED  BY <1>3, <1>4

----------------------------------------------------------------------------
(* Calls.                                                                  *)

(* A call that is refused.                                                 *)
LEMMA RefuseSim ==
  ASSUME Inv, Cont, NEW e, Refuse(e),
         \/ e = "QNOKEY" /\ lf' \in [key : Key \ Stored, exct : {FALSE}]
         \/ e = "QBADCTXT" /\ ~lf.exct /\ lf' = lf
         \/ /\ e = "QNOKEY" /\ lf' = [key |-> NoKey, exct |-> FALSE]
            /\ lf.key # NoKey => Following = {} \/ Preceding = {}
  PROVE  Cont' /\ RS!Refuse
<1>1. /\ pc = "idle" /\ pc' = "idle" /\ op' = NoOp /\ err' = e
      /\ out' = <<>> /\ rsize' = 0 /\ st' = st /\ index' = index
  BY DEF Refuse, Return
<1>2. Cont'
  BY ReturnCont DEF Refuse
<1>3. op = NoOp
  BY <1>1 DEF Cont, OldInv
<1>4. Recs' = Recs
  BY <1>1 DEF Recs, RecordOf
<1>5. RS!Stored = Stored
  BY StoredIs DEF Cont
<1>6. RS!After = Following /\ RS!Ahead = Preceding
  BY <1>5 DEF RS!After, RS!Ahead, Following, Preceding
<1> QED
  BY <1>1, <1>2, <1>3, <1>4, <1>5, <1>6 DEF RS!Refuse, RS!NoCall, NoOp, Recs

(* A call that begins.                                                     *)
LEMMA StartSim ==
  ASSUME Inv, Cont, NEW routine, NEW name, NEW k \in Key, NEW rec \in Seq(Byte),
         NEW size \in Nat, Start(routine, name, k, rec, size),
         \/ routine = "binsdt" /\ name = "ins" /\ d' = 0 /\ rem' = Len(rec)
         \/ /\ index[k] # ZNULL /\ d' = index[k] /\ rem' \in Nat
            /\ \/ routine = "bupddt" /\ name = "upd"
               \/ routine = "bdeldt" /\ name = "del"
               \/ routine = "brecsz" /\ name = "recs" /\ rem' = 0
               \/ routine = "bseldt" /\ name = "sel" /\ rem' = size
  PROVE  /\ Cont' /\ Recs' = Recs /\ op = NoOp
         /\ op' = [name |-> name, key |-> k, rec |-> rec, size |-> size]
         /\ pc = "idle" /\ pc' # "idle" /\ out' = <<>> /\ rsize' = 0
<1>1. /\ pc = "idle" /\ pc' = routine
      /\ op' = [name |-> name, key |-> k, rec |-> rec, size |-> size]
      /\ base' = 0 /\ tail' = 0 /\ err' = "OK" /\ out' = <<>> /\ rsize' = 0
      /\ old' = RecOf(k) /\ st' = st /\ index' = index
  BY DEF Start, RecOf
<1>2. op = NoOp /\ pc' # "idle"
  BY <1>1 DEF Cont, OldInv
<1>3. \A j \in Key : RecOf(j)' = RecOf(j)
  BY <1>1 DEF RecOf
<1>4. Recs' = Recs
  <2>1. ASSUME NEW j \in Key PROVE RecordOf(j)' = RecordOf(j)
    <3>1. RecordOf(j) = RecOf(j)
      BY <1>1 DEF RecordOf, RecOf
    <3>2. RecordOf(j)' = RecOf(j)
      BY <1>1, <1>2, <1>3 DEF RecordOf, RecOf
    <3> QED  BY <3>1, <3>2
  <2> QED  BY <2>1 DEF Recs
<1>5. Gone = NoKey /\ k # NoKey
  BY <1>1, RecordFacts DEF Gone
<1>6. ASSUME index[k] # ZNULL
      PROVE  /\ index[k] \in Used(st) /\ RecOf(k) = BytesAt(st, index[k])
             /\ BytesAt(st, index[k]) \in Seq(Byte) /\ RecOf(k) # NoRec
  BY <1>5, <1>6, RecordChain
<1>7. /\ BytesAt(st, 0) = <<>> /\ SubSeq(rec, Len(rec) + 1, Len(rec)) = <<>>
      /\ SubSeq(rec, 1, 0) = <<>>
      /\ \A z \in Seq(Byte) : <<>> \o z = z
      /\ <<>> \in Seq(Byte) /\ Len(<<>>) = 0
      /\ \A z \in Seq(Byte) : Len(z) \in Nat
  BY InvFacts, BytesStep, EmptySeq
<1>8. /\ op'.name = name /\ op'.key = k /\ op'.rec = rec /\ op'.size = size
      /\ RecOf(k)' = RecOf(k)
  BY <1>1, <1>3
<1>9. RecOf(op.key)' = RecOf(k)
  BY <1>1, <1>8 DEF RecOf
<1>10. Cont'
  <2>1. OldInv'
    BY <1>1, <1>6, <1>8, <1>9 DEF OldInv
  <2>2. ErrInv'
    BY <1>1, <1>8 DEF ErrInv
  <2>3. InsCont'
    <3>1. CASE name = "ins"
      <4>1. BytesAt(st, d)' = <<>> /\ From(base + rem)' = <<>>
        BY <1>1, <1>7, <1>8, <3>1 DEF From
      <4> QED  BY <1>1, <3>1, <4>1 DEF InsCont
    <3>2. CASE name # "ins"
      BY <1>1, <1>8, <3>2 DEF InsCont
    <3> QED  BY <3>1, <3>2
  <2>4. UpdCont'
    <3>1. CASE name = "upd"
      <4>1. /\ BytesAt(st, d)' = BytesAt(st, index[k]) /\ To(base)' = <<>>
            /\ RecOf(op.key)' = BytesAt(st, index[k])
            /\ BytesAt(st, index[k]) \in Seq(Byte)
        BY <1>1, <1>6, <1>7, <1>8, <1>9, <3>1 DEF To
      <4> QED  BY <1>1, <1>7, <3>1, <4>1 DEF UpdCont
    <3>2. CASE name # "upd"
      BY <1>1, <1>8, <3>2 DEF UpdCont
    <3> QED  BY <3>1, <3>2
  <2>5. ReadCont'
    <3>1. CASE name = "sel"
      <4>1. /\ BytesAt(st, d)' = old' /\ old' \in Seq(Byte) /\ old' = <<>> \o old'
            /\ d' \in Used(st)' \cup {0}
        BY <1>1, <1>6, <1>7, <1>8, <1>9, <3>1
      <4> QED  BY <1>1, <1>7, <1>8, <3>1, <4>1 DEF ReadCont
    <3>2. CASE name = "recs"
      <4>1. /\ BytesAt(st, d)' = old' /\ old' \in Seq(Byte) /\ Len(old') \in Nat
            /\ d' \in Used(st)' \cup {0}
        BY <1>1, <1>6, <1>7, <1>8, <1>9, <3>2
      <4> QED  BY <1>1, <1>7, <1>8, <3>2, <4>1 DEF ReadCont
    <3>3. CASE name \notin {"sel", "recs"}
      BY <1>1, <1>8, <3>3 DEF ReadCont
    <3> QED  BY <3>1, <3>2, <3>3
  <2> QED  BY <2>1, <2>2, <2>3, <2>4, <2>5 DEF Cont
<1> QED  BY <1>1, <1>2, <1>4, <1>10

(* Every call.                                                             *)
LEMMA CallsSim ==
  ASSUME Inv, Cont, Call
  PROVE  Cont' /\ RS!Next
<1>1. /\ lf \in [key : Key \cup {NoKey}, exct : BOOLEAN] /\ NoKey \notin Key
      /\ <<>> \in Seq(Byte) /\ 0 \in Nat
  BY RecordFacts DEF Inv, TypeInv
<1>2. ASSUME NEW k, Misses(k) PROVE Cont' /\ RS!Next
  <2>1. CASE k = NoKey /\ ~lf.exct /\ Refuse("QBADCTXT") /\ UNCHANGED lf
    BY <2>1, RefuseSim DEF RS!Next
  <2>2. CASE /\ k \in Key \ Stored /\ Refuse("QNOKEY")
             /\ lf' = [key |-> k, exct |-> FALSE]
    <3>1. lf' \in [key : Key \ Stored, exct : {FALSE}]
      BY <2>2
    <3> QED  BY <2>2, <3>1, RefuseSim DEF RS!Next
  <2> QED  BY <1>2, <2>1, <2>2 DEF Misses
<1>3. ASSUME NEW k, Selects(k)
      PROVE  /\ Target(k) \in Key /\ index[Target(k)] # ZNULL
             /\ d' = index[Target(k)] /\ (k \in Key => Target(k) = k)
             /\ lf' = [key |-> Target(k), exct |-> TRUE]
             /\ Target(k) \in RS!Stored
  <2>1. RS!Stored = Stored
    BY StoredIs DEF Cont
  <2> QED  BY <1>1, <1>3, <2>1 DEF Selects, Stored, Target
<1>4. ASSUME NEW k \in Key, NEW rec \in RecordFor(k), Btins(k, rec)
      PROVE  Cont' /\ RS!Next
  <2>1. rec \in Seq(Byte) /\ rec \in Record
    BY RecordFacts DEF Record
  <2>2. Start("binsdt", "ins", k, rec, 0) /\ d' = 0 /\ rem' = Len(rec)
        /\ lf' = lf
    BY <1>4 DEF Btins
  <2>3. /\ Cont' /\ Recs' = Recs /\ op = NoOp
        /\ op' = [name |-> "ins", key |-> k, rec |-> rec, size |-> 0]
        /\ pc' # "idle" /\ out' = <<>> /\ rsize' = 0
    BY <1>1, <2>1, <2>2, StartSim
  <2>4. RS!InvokeInsert
    BY <2>1, <2>2, <2>3 DEF RS!InvokeInsert, RS!NoCall, NoOp, Recs
  <2> QED  BY <2>3, <2>4 DEF RS!Next
<1>5. ASSUME NEW k \in RS!Stored, k \in Key, lf' = [key |-> k, exct |-> TRUE],
             NEW name \in {"upd", "del", "sel", "recs"},
             NEW rec \in Record \cup {<<>>}, NEW size \in Space \cup {0},
             Cont', Recs' = Recs, op = NoOp,
             op' = [name |-> name, key |-> k, rec |-> rec, size |-> size],
             pc' # "idle"
      PROVE  Cont' /\ RS!Next
  BY <1>5 DEF RS!Next, RS!Invoke, RS!NoCall, NoOp, Recs
<1>6. ASSUME NEW k \in Key \cup {NoKey}, Btupd(k) PROVE Cont' /\ RS!Next
  <2>1. CASE Misses(k)
    BY <1>2, <2>1
  <2>2. ASSUME NEW rec \in RecordFor(Target(k)), Selects(k), rem' = Len(rec),
               Start("bupddt", "upd", Target(k), rec, 0)
        PROVE  Cont' /\ RS!Next
    <3>1. PICK j \in Key : j = Target(k)
      BY <1>3, <2>2
    <3>2. rec \in Seq(Byte) /\ rec \in Record /\ Len(rec) \in Nat
      BY <2>2, <3>1, RecordFacts DEF Record
    <3>3. /\ index[j] # ZNULL /\ d' = index[j] /\ j \in RS!Stored
          /\ lf' = [key |-> j, exct |-> TRUE]
          /\ Start("bupddt", "upd", j, rec, 0)
      BY <1>3, <2>2, <3>1
    <3>4. /\ Cont' /\ Recs' = Recs /\ op = NoOp
          /\ op' = [name |-> "upd", key |-> j, rec |-> rec, size |-> 0]
          /\ pc' # "idle"
      BY <1>1, <2>2, <3>2, <3>3, StartSim
    <3> QED  BY <1>5, <3>2, <3>3, <3>4
  <2> QED  BY <1>6, <2>1, <2>2 DEF Btupd
<1>7. ASSUME NEW k \in Key \cup {NoKey}, Btdel(k) PROVE Cont' /\ RS!Next
  <2>1. CASE Misses(k)
    BY <1>2, <2>1
  <2>2. CASE /\ Selects(k) /\ rem' = 0
             /\ Start("bdeldt", "del", Target(k), <<>>, 0)
    <3>1. PICK j \in Key : j = Target(k)
      BY <1>3, <2>2
    <3>2. /\ index[j] # ZNULL /\ d' = index[j] /\ j \in RS!Stored
          /\ lf' = [key |-> j, exct |-> TRUE] /\ rem' \in Nat
          /\ Start("bdeldt", "del", j, <<>>, 0)
      BY <1>3, <2>2, <3>1
    <3>3. /\ Cont' /\ Recs' = Recs /\ op = NoOp
          /\ op' = [name |-> "del", key |-> j, rec |-> <<>>, size |-> 0]
          /\ pc' # "idle"
      BY <1>1, <3>2, StartSim
    <3> QED  BY <1>5, <3>2, <3>3
  <2> QED  BY <1>7, <2>1, <2>2 DEF Btdel
<1>8. ASSUME NEW k \in Key \cup {NoKey}, Btrecs(k) PROVE Cont' /\ RS!Next
  <2>1. CASE Misses(k)
    BY <1>2, <2>1
  <2>2. CASE /\ Selects(k) /\ rem' = 0
             /\ Start("brecsz", "recs", Target(k), <<>>, 0)
    <3>1. PICK j \in Key : j = Target(k)
      BY <1>3, <2>2
    <3>2. /\ index[j] # ZNULL /\ d' = index[j] /\ j \in RS!Stored
          /\ lf' = [key |-> j, exct |-> TRUE] /\ rem' \in Nat /\ rem' = 0
          /\ Start("brecsz", "recs", j, <<>>, 0)
      BY <1>3, <2>2, <3>1
    <3>3. /\ Cont' /\ Recs' = Recs /\ op = NoOp
          /\ op' = [name |-> "recs", key |-> j, rec |-> <<>>, size |-> 0]
          /\ pc' # "idle"
      BY <1>1, <3>2, StartSim
    <3> QED  BY <1>5, <3>2, <3>3
  <2> QED  BY <1>8, <2>1, <2>2 DEF Btrecs
<1>9. ASSUME NEW k \in Key, NEW n \in Space, Selects(k), rem' = n,
             Start("bseldt", "sel", k, <<>>, n)
      PROVE  Cont' /\ RS!Next
  <2>1. /\ n \in Nat /\ Target(k) = k /\ index[k] # ZNULL /\ d' = index[k]
        /\ lf' = [key |-> k, exct |-> TRUE] /\ k \in RS!Stored
    BY <1>3, <1>9, RecordFacts
  <2>2. /\ Cont' /\ Recs' = Recs /\ op = NoOp
        /\ op' = [name |-> "sel", key |-> k, rec |-> <<>>, size |-> n]
        /\ pc' # "idle"
    BY <1>1, <1>9, <2>1, StartSim, ZenonT(40)
  <2> QED  BY <1>5, <2>1, <2>2
<1>10. ASSUME NEW ks, NEW k \in Key, NEW n \in Space, Moves(ks, k, n),
              ks = {} /\ lf.key # NoKey => Following = {} \/ Preceding = {}
       PROVE  Cont' /\ RS!Next
  <2>1. CASE k \in ks /\ Selects(k) /\ rem' = n
             /\ Start("bseldt", "sel", k, <<>>, n)
    BY <1>9, <2>1
  <2>2. CASE /\ ks = {} /\ Refuse("QNOKEY")
             /\ lf' = [key |-> NoKey, exct |-> FALSE]
    BY <1>10, <2>2, RefuseSim DEF RS!Next
  <2> QED  BY <1>10, <2>1, <2>2 DEF Moves
<1>11. ASSUME NEW k \in Key, NEW n \in Space, Btsel(k, n) PROVE Cont' /\ RS!Next
  BY <1>2, <1>9, <1>11 DEF Btsel
<1>12. ASSUME NEW n \in Space, Btseln(n) PROVE Cont' /\ RS!Next
  <2>1. PICK ks : ks = IF lf.key = NoKey THEN {} ELSE Following
    OBVIOUS
  <2>2. PICK k \in Key : Moves(ks, k, n)
    BY <1>12, <2>1 DEF Btseln
  <2>3. ks = {} /\ lf.key # NoKey => Following = {} \/ Preceding = {}
    BY <2>1
  <2> QED  BY <1>10, <2>2, <2>3
<1>13. ASSUME NEW n \in Space, Btselp(n) PROVE Cont' /\ RS!Next
  <2>1. PICK ks : ks = IF lf.key = NoKey THEN {} ELSE Preceding
    OBVIOUS
  <2>2. PICK k \in Key : Moves(ks, k, n)
    BY <1>13, <2>1 DEF Btselp
  <2>3. ks = {} /\ lf.key # NoKey => Following = {} \/ Preceding = {}
    BY <2>1
  <2> QED  BY <1>10, <2>2, <2>3
<1> QED
  BY <1>4, <1>6, <1>7, <1>8, <1>11, <1>12, <1>13 DEF Call

(* A block for the segments to come.                                       *)
LEMMA InsBlockSim ==
  ASSUME Inv, Cont, InsBlock
  PROVE  Cont' /\ UNCHANGED RS!vars
<1>1. /\ pc = "binsdt" /\ pc' = pc /\ GetFree(st) # ZNULL
      /\ st' = NewHead(st, "data")
      /\ UNCHANGED <<index, lf, op, base, tail, out, rsize, old, d, rem, err>>
  BY DEF InsBlock, unchangedByIns, NewHead
<1>2. Inv' /\ \A a \in Addr : SegAt(st', a) = SegAt(st, a)
  BY InsBlockInv
<1>3. /\ st \in Store(Data) /\ ListsOK(st) /\ "data" \in Seg /\ d \in Int
      /\ op.key \in Key /\ op.name \in {"ins", "upd"}
  BY <1>1, InvFacts DEF Seg, Inv, CallInv
<1>4. /\ BytesAt(st', d) = BytesAt(st, d)
      /\ \A k \in Key : RecOf(k)' = RecOf(k)
  BY <1>1, <1>2, <1>3, SameSegs
<1>5. Cont'
  <2>1. OldInv'
    BY <1>1, <1>3, <1>4 DEF Cont, OldInv
  <2>2. ErrInv'
    BY <1>1 DEF Cont, ErrInv
  <2>3. InsCont'
    BY <1>1, <1>4 DEF Cont, InsCont, From
  <2>4. UpdCont'
    BY <1>1, <1>3, <1>4 DEF Cont, UpdCont, To
  <2>5. ReadCont'
    BY <1>1 DEF ReadCont
  <2> QED  BY <2>1, <2>2, <2>3, <2>4, <2>5 DEF Cont
<1> QED  BY <1>1, <1>4, <1>5, Silent

(* There is no block.  An insert returns; an update goes on to end the     *)
(* record where it could be stored.                                        *)
LEMMA InsFailsSim ==
  ASSUME Inv, Cont, InsFails
  PROVE  Cont' /\ (RS!Next \/ UNCHANGED RS!vars)
<1>1. /\ pc = "binsdt" /\ GetFree(st) = ZNULL
      /\ UNCHANGED <<st, index, lf, out, rsize>>
  BY DEF InsFails, unchangedByIns
<1>2. /\ First(NoFree(st)) = "QF2BIG" /\ op.key \in Key
      /\ op.name \in {"ins", "upd"}
  <2>1. st \in Store(Data) /\ ListsOK(st) /\ err = "OK"
    BY <1>1, InvFacts DEF Cont, ErrInv
  <2> QED  BY <1>1, <2>1, GetFreeBlock DEF First, Inv, CallInv
<1>3. \A k \in Key : RecOf(k)' = RecOf(k)
  BY <1>1 DEF RecOf
<1>4. CASE op.name = "ins"
  <2>1. Return("QF2BIG")
    BY <1>2, <1>4 DEF InsFails
  <2>2. PICK k0 \in Key : k0 = op.key
    BY <1>2
  <2>3. RecOf(k0)' = old
    BY <1>3, <1>4, <2>2 DEF Cont, OldInv
  <2>4. Recs' = Recs /\ pc' = "idle" /\ op' = NoOp /\ err' = "QF2BIG"
    BY <1>1, <1>3, <2>1, <2>2, <2>3, Answer
  <2>5. out = <<>> /\ rsize = 0
    BY <1>1 DEF Cont, OldInv
  <2>6. RS!NoSpace
    BY <1>1, <1>4, <2>4, <2>5 DEF RS!NoSpace, RS!Return, RS!NoCall, NoOp, Recs
  <2> QED  BY <2>1, <2>6, ReturnCont DEF RS!Next
<1>5. CASE op.name = "upd"
  <2>1. /\ d' = 0 /\ pc' = "relink" /\ err' = "QF2BIG"
        /\ UNCHANGED <<op, base, tail, old, rem>>
    BY <1>2, <1>5 DEF InsFails, unchangedByIns
  <2>2. Cont'
    <3>1. OldInv'
      BY <1>1, <1>2, <1>3, <1>5, <2>1 DEF Cont, OldInv
    <3>2. ErrInv'
      BY <1>1, <1>5, <2>1 DEF Cont, UpdCont, ErrInv
    <3>3. InsCont'
      BY <1>5, <2>1 DEF InsCont
    <3>4. RecOf(op.key)' = RecOf(op.key)
      BY <1>1, <2>1 DEF RecOf
    <3>5. UpdCont'
      BY <1>1, <1>5, <2>1, <3>4 DEF Cont, UpdCont, To
    <3>6. ReadCont'
      BY <2>1 DEF ReadCont
    <3> QED  BY <3>1, <3>2, <3>3, <3>5, <3>6 DEF Cont
  <2> QED  BY <1>1, <1>3, <2>1, <2>2, Silent
<1> QED  BY <1>2, <1>4, <1>5

(* The key goes into the tree, with the address of its record.             *)
LEMMA InsKeySim ==
  ASSUME Inv, Cont, InsKey
  PROVE  Cont' /\ RS!Next
<1>1. /\ pc = "binsky" /\ op.key \notin Stored
      /\ index' = [index EXCEPT ![op.key] = d]
      /\ lf' = [key |-> op.key, exct |-> FALSE]
      /\ st' \in {st} \cup TreeTakes(st)
      /\ Return("OK") /\ UNCHANGED <<out, rsize>>
  BY DEF InsKey
<1>2. /\ Inv' /\ op.key \in Key /\ op.name = "ins" /\ d \in Int /\ d # ZNULL
      /\ index \in [Key -> Addr \cup {ZNULL}]
      /\ op.rec \in Seq(Byte)
  <2>1. /\ Inv' /\ op.key \in Key /\ op.name = "ins" /\ d \in Int /\ d \in Addr
        /\ index \in [Key -> Addr \cup {ZNULL}] /\ op.rec \in Seq(Byte)
    BY <1>1, InsKeyInv, InvFacts DEF Inv, CallInv
  <2> QED  BY <2>1, AddrParts
<1>3. PICK k0 \in Key : k0 = op.key
  BY <1>2
<1>4. \A a \in Addr : SegAt(st', a) = SegAt(st, a)
  BY <1>1, TreeBlocks
<1>5. /\ BytesAt(st', d) = BytesAt(st, d)
      /\ \A k \in Key : k # k0 => RecOf(k)' = RecOf(k)
  <2>1. \A k \in Key : k # k0 => index'[k] = index[k]
    BY <1>1, <1>2, <1>3
  <2> QED  BY <1>2, <1>4, <2>1, SameSegs
<1>6. RecOf(k0)' = op.rec
  <2>1. index'[k0] = d
    BY <1>1, <1>2, <1>3
  <2>2. BytesAt(st, d) = From(0)
    BY <1>1, <1>2 DEF Cont, InsCont
  <2>3. SubSeq(op.rec, 1, Len(op.rec)) = op.rec
    BY <1>2
  <2>4. From(0) = op.rec
    BY <2>3 DEF From
  <2> QED  BY <1>2, <1>5, <2>1, <2>2, <2>4 DEF RecOf
<1>7. /\ Recs' = [Recs EXCEPT ![k0] = op.rec]
      /\ pc' = "idle" /\ op' = NoOp /\ err' = "OK"
  <2>1. pc # "idle" /\ Return("OK")
    BY <1>1
  <2>2. Recs' = [Recs EXCEPT ![k0] = RecOf(k0)']
        /\ pc' = "idle" /\ op' = NoOp /\ err' = "OK"
    BY <1>3, <1>5, <2>1, Answer
  <2> QED  BY <1>6, <2>2
<1>8. out = <<>> /\ rsize = 0
  BY <1>1 DEF Cont, OldInv
<1>9. RS!Stored = Stored
  BY StoredIs DEF Cont
<1>10. RS!Insert
  BY <1>1, <1>2, <1>3, <1>7, <1>8, <1>9
  DEF RS!Insert, RS!Return, RS!NoCall, NoOp, Recs
<1> QED  BY <1>1, <1>10, ReturnCont DEF RS!Next

(* It does not, and the record is deleted again.                           *)
LEMMA InsKeyFailsSim ==
  ASSUME Inv, Cont, InsKeyFails
  PROVE  Cont' /\ RS!Next
<1>1. /\ pc = "binsky" /\ pc' = "bdeldt"
      /\ \/ /\ op.key \in Stored /\ err' = "QDUP"
            /\ lf' = [key |-> op.key, exct |-> TRUE]
         \/ err' = "QF2BIG" /\ lf' = [key |-> op.key, exct |-> FALSE]
      /\ UNCHANGED <<st, index, op, d, rem, base, tail, out, rsize, old>>
  BY DEF InsKeyFails, local
<1>2. op.key \in Key /\ op.name = "ins"
  BY <1>1 DEF Inv, CallInv
<1>3. \A k \in Key : RecOf(k)' = RecOf(k)
  BY <1>1 DEF RecOf
<1>4. Recs' = Recs
  BY <1>1, <1>3, Silent
<1>5. RS!Stored = Stored
  BY StoredIs DEF Cont
<1>6. RS!LookUp
  BY <1>1, <1>2, <1>4, <1>5 DEF RS!LookUp, Recs
<1>7. Cont'
  <2>1. OldInv'
    BY <1>1, <1>2, <1>3 DEF Cont, OldInv
  <2>2. ErrInv'
    BY <1>1, <1>2 DEF ErrInv, Stored
  <2>3. InsCont'
    BY <1>1, <1>2 DEF Cont, InsCont
  <2>4. UpdCont'
    BY <1>1, <1>2 DEF UpdCont
  <2>5. ReadCont'
    BY <1>1 DEF ReadCont
  <2> QED  BY <2>1, <2>2, <2>3, <2>4, <2>5 DEF Cont
<1> QED  BY <1>6, <1>7 DEF RS!Next

----------------------------------------------------------------------------
(* bupddt.                                                                 *)

(* One segment of the old record gets bytes of the new one.                *)
LEMMA UpdSegSim ==
  ASSUME Inv, Cont, UpdSeg
  PROVE  Cont' /\ UNCHANGED RS!vars
<1>1. PICK n : n = Copied(SegAt(st, d))
  OBVIOUS
<1>2. /\ pc = "bupddt" /\ pc' = pc /\ d # 0 /\ rem >= 0
      /\ rem' = (IF n = rem /\ n = 0 THEN -1 ELSE rem - n)
      /\ base' = base + n /\ d' = Nxt(st, d) /\ tail' = d
      /\ UNCHANGED <<index, lf, op, err, out, rsize, old>>
  BY <1>1 DEF UpdSeg, Nxt
<1>3. /\ Inv' /\ d \in Used(st) /\ Used(st') = Used(st)
      /\ tail = 0 \/ rem > 0 => d \in Owns(st, index, NoKey, op.key)
      /\ \A c \in Addr \ {d} : SegAt(st', c) = SegAt(st, c)
  BY UpdSegInv
<1>4. /\ n \in 0 .. rem /\ (n # rem => n = SegAt(st, d).size)
      /\ SegAt(st', d) = [size |-> n, next |-> IF n = rem THEN 0 ELSE SegAt(st, d).next,
                          data |-> SubSeq(op.rec, base + 1, base + n)]
  BY <1>1, UpdSegInv
<1>5. /\ st \in Store(Data) /\ Full(st) /\ Chains(st) /\ d \in Int /\ d \in Addr
      /\ st' \in Store(Data) /\ Full(st') /\ Chains(st')
      /\ op.rec \in Seq(Byte) /\ base \in Nat /\ rem \in Nat
      /\ Len(op.rec) \in Nat /\ base + rem = Len(op.rec) /\ n \in Nat
      /\ index \in [Key -> Addr \cup {ZNULL}]
  <2>1. /\ st \in Store(Data) /\ Full(st) /\ Chains(st) /\ d \in Int
        /\ d \in Addr /\ op.rec \in Seq(Byte) /\ base \in Nat
        /\ Len(op.rec) \in Nat /\ index \in [Key -> Addr \cup {ZNULL}]
    BY <1>2, InvFacts
  <2>2. base + rem = Len(op.rec) /\ rem \in Nat
    BY <1>2 DEF Inv, TypeInv, PosInv, UpdInv
  <2>3. st' \in Store(Data) /\ Full(st') /\ Chains(st')
    BY <1>3 DEF Inv, TypeInv, StoreInv, OwnInv
  <2> QED  BY <1>4, <2>1, <2>2, <2>3
<1>6. /\ op.name = "upd" /\ op.key \in Key /\ Gone = NoKey
      /\ index[op.key] # ZNULL /\ op.key # Gone
  <2>1. op.name = "upd" /\ op.key \in Key /\ index[op.key] # ZNULL
    BY <1>2 DEF Inv, CallInv
  <2> QED  BY <1>2, <2>1, RecordFacts DEF Gone
<1>7. PICK k0 \in Key : k0 = op.key
  BY <1>6
<1>8. PICK p : p = index[k0]
  OBVIOUS
<1>9. /\ p \in Int /\ p \in Used(st) /\ p # ZNULL
      /\ RecOf(k0) = BytesAt(st, p) /\ SegsOf(st, p) \subseteq Used(st)
      /\ SegsOf(st, p) = Owns(st, index, NoKey, k0)
      /\ \A q \in SegsOf(st, p) : q \notin Cur
  BY <1>6, <1>7, <1>8, RecordChain
<1>10. d \in SegsOf(st, d)
  BY <1>5, ChainStep
<1>11. ASSUME tail # 0, rem <= 0 PROVE d \in Cur
  BY <1>2, <1>10, <1>11, CurIs DEF Inv
<1>12. ASSUME NEW k \in Key, k # k0 PROVE RecOf(k)' = RecOf(k)
  <2>1. ASSUME index[k] # ZNULL, NEW q \in SegsOf(st, index[k])
        PROVE  SegAt(st', q) = SegAt(st, q)
    <3>1. /\ k # Gone /\ k0 # Gone /\ index[k0] # ZNULL
      BY <1>6, <1>7, RecordFacts
    <3>2. q \notin Cur /\ q \notin SegsOf(st, p) /\ q \in Used(st)
      BY <1>8, <1>12, <2>1, <3>1, RecordChain
    <3>3. q # d
      BY <1>3, <1>5, <1>7, <1>9, <1>11, <3>2
    <3> QED  BY <1>3, <3>2, <3>3 DEF Used
  <2> QED  BY <1>2, <1>3, <2>1, RecordStays
<1>13. RecOf(op.key)' = RecOf(k0)'
  BY <1>2, <1>7 DEF RecOf
<1>14. UpdCont'
  <2>1. CASE tail # 0 /\ rem = 0
    <3>1. n = 0 /\ rem' = -1
      BY <1>2, <1>4, <2>1
    <3>2. RecOf(k0)' = RecOf(k0)
      <4>1. ASSUME NEW q \in SegsOf(st, p) PROVE SegAt(st', q) = SegAt(st, q)
        <5>1. q # d /\ q \in Used(st)
          BY <1>9, <1>11, <2>1
        <5> QED  BY <1>3, <5>1 DEF Used
      <4> QED  BY <1>2, <1>3, <1>8, <4>1, RecordStays
    <3>3. RecOf(k0) = op.rec
      BY <1>2, <1>5, <1>7, <2>1 DEF Cont, UpdCont
    <3> QED  BY <1>2, <1>13, <3>1, <3>2, <3>3 DEF UpdCont
  <2>2. CASE tail = 0 \/ rem > 0
    <3>1. d \in SegsOf(st, p)
      BY <1>3, <1>7, <1>9, <2>2
    <3>2. PICK x \in Seq(Byte) : /\ BytesAt(st, p) = x \o BytesAt(st, d)
                                 /\ BytesAt(st', p) = x \o BytesAt(st', d)
      <4>1. \A c \in SegsOf(st, p) : c \notin SegsOf(st, d) =>
              SegAt(st', c) = SegAt(st, c)
        BY <1>3, <1>9, <1>10 DEF Used
      <4>2. Used(st) \subseteq Used(st')
        BY <1>3
      <4>3. /\ st \in Store(Data) /\ st' \in Store(Data) /\ Full(st)
            /\ Full(st') /\ Chains(st) /\ Chains(st') /\ p \in Used(st)
        BY <1>5, <1>9
      <4> QED  BY <3>1, <4>1, <4>2, <4>3, BytesFrom, ZenonT(40)
    <3>3. PICK i \in Nat : i = base
      BY <1>5
    <3>4. PICK j \in Nat : j = base + n
      BY <1>5
    <3>5. i <= j /\ j <= Len(op.rec) /\ (n = rem => j = Len(op.rec)) /\ 0 <= i
      BY <1>4, <1>5, <3>3, <3>4
    <3>6. /\ SubSeq(op.rec, 1, i) \in Seq(Byte)
          /\ SubSeq(op.rec, i + 1, j) \in Seq(Byte)
          /\ SubSeq(op.rec, 1, i) \o SubSeq(op.rec, i + 1, j) =
               SubSeq(op.rec, 1, j)
          /\ SubSeq(op.rec, 1, Len(op.rec)) = op.rec
          /\ SubSeq(op.rec, 1, j) \in Seq(Byte)
      <4>1. PICK z \in Nat : z = 0
        OBVIOUS
      <4>2. z <= i /\ i <= j /\ z <= j /\ j <= Len(op.rec) /\ i <= Len(op.rec)
        BY <3>5, <4>1
      <4>3. /\ SubSeq(op.rec, z + 1, i) \in Seq(Byte)
            /\ SubSeq(op.rec, i + 1, j) \in Seq(Byte)
            /\ SubSeq(op.rec, z + 1, j) \in Seq(Byte)
            /\ SubSeq(op.rec, z + 1, i) \o SubSeq(op.rec, i + 1, j) =
                 SubSeq(op.rec, z + 1, j)
            /\ SubSeq(op.rec, 1, Len(op.rec)) = op.rec
        <5>1. PICK r \in Seq(Byte) : r = op.rec
          BY <1>5
        <5>2. j <= Len(r) /\ i <= Len(r)
          BY <4>2, <5>1
        <5>3. /\ SubSeq(r, z + 1, i) \in Seq(Byte)
              /\ SubSeq(r, z + 1, i) \o SubSeq(r, i + 1, j) = SubSeq(r, z + 1, j)
              /\ SubSeq(r, 1, Len(r)) = r
          BY <4>2, <5>2, Parts
        <5>4. SubSeq(r, i + 1, j) \in Seq(Byte)
          BY <4>2, <5>2, Parts
        <5>5. SubSeq(r, z + 1, j) \in Seq(Byte)
          BY <4>2, <5>2, Parts
        <5> QED  BY <5>1, <5>3, <5>4, <5>5
      <4>4. z + 1 = 1
        BY <4>1
      <4> QED  BY <4>3, <4>4
    <3>7. x = SubSeq(op.rec, 1, i)
      <4>1. BytesAt(st, d) \in Seq(Byte)
        BY <1>3, <1>5, BytesStep
      <4>2. RecOf(k0) = SubSeq(op.rec, 1, i) \o BytesAt(st, d)
        <5>1. ~(tail # 0 /\ rem <= 0)
          BY <1>5, <2>2
        <5>2. RecOf(op.key) = To(base) \o BytesAt(st, d)
          BY <1>2, <5>1 DEF Cont, UpdCont
        <5> QED  BY <1>7, <3>3, <5>2 DEF To
      <4> QED  BY <1>9, <3>2, <3>6, <4>1, <4>2, Cancelled
    <3>8. BytesAt(st', d) = SubSeq(op.rec, i + 1, j) \o BytesAt(st', Nxt(st', d))
          /\ BytesAt(st', Nxt(st', d)) \in Seq(Byte)
          /\ Nxt(st', d) = IF n = rem THEN 0 ELSE Nxt(st, d)
      <4>1. Nxt(st', d) = (IF n = rem THEN 0 ELSE Nxt(st, d))
            /\ SegAt(st', d).data = SubSeq(op.rec, i + 1, j)
        BY <1>4, <3>3, <3>4 DEF Nxt
      <4>2. Nxt(st', d) \in Used(st') \cup {0} /\ d \in Used(st')
        BY <1>3, <1>5 DEF Chains
      <4> QED  BY <1>5, <4>1, <4>2, BytesStep
    <3>9. RecOf(k0)' = BytesAt(st', p)
      BY <1>2, <1>8, <1>9 DEF RecOf
    <3>10. RecOf(k0)' = SubSeq(op.rec, 1, j) \o BytesAt(st', Nxt(st', d))
      <4>1. PICK a \in Seq(Byte) : a = SubSeq(op.rec, 1, i)
        BY <3>6
      <4>2. PICK b \in Seq(Byte) : b = SubSeq(op.rec, i + 1, j)
        BY <3>6
      <4>3. PICK c \in Seq(Byte) : c = BytesAt(st', Nxt(st', d))
        BY <3>8
      <4>4. a \o (b \o c) = (a \o b) \o c
        BY Regroup, Zenon
      <4>5. a \o b = SubSeq(op.rec, 1, j)
        BY <3>6, <4>1, <4>2, Zenon
      <4>6. BytesAt(st', d) = b \o c
        BY <3>8, <4>2, <4>3, Zenon
      <4>7. BytesAt(st', p) = a \o (b \o c)
        BY <3>2, <3>7, <4>1, <4>6, Zenon
      <4> QED  BY <3>9, <4>3, <4>4, <4>5, <4>7, Zenon
    <3>11. CASE n = rem
      <4>1. BytesAt(st', Nxt(st', d)) = <<>>
        BY <1>5, <3>8, <3>11, BytesStep
      <4>2. RecOf(k0)' = op.rec
        BY <3>5, <3>6, <3>10, <3>11, <4>1, Joined
      <4>3. rem' <= 0
        BY <1>2, <1>5, <3>11
      <4> QED  BY <1>2, <1>13, <4>2, <4>3 DEF UpdCont
    <3>12. CASE n # rem
      <4>1. rem' > 0 /\ ~(rem' <= 0) /\ tail' # 0
        BY <1>2, <1>4, <1>5, <3>12
      <4>2. RecOf(op.key)' = To(base)' \o BytesAt(st, d)'
        BY <1>2, <1>13, <3>4, <3>8, <3>10, <3>12 DEF To
      <4> QED  BY <1>2, <4>1, <4>2 DEF UpdCont
    <3> QED  BY <3>11, <3>12
  <2> QED  BY <1>5, <2>1, <2>2
<1>15. Cont'
  <2>1. OldInv'
    BY <1>2, <1>6 DEF Cont, OldInv
  <2>2. ErrInv'
    BY <1>2 DEF Cont, ErrInv
  <2>3. InsCont'
    BY <1>2, <1>6 DEF InsCont
  <2>4. ReadCont'
    BY <1>2 DEF ReadCont
  <2> QED  BY <1>14, <2>1, <2>2, <2>3, <2>4 DEF Cont
<1> QED  BY <1>2, <1>7, <1>12, <1>15, Silent

(* The old segments are used up, or the new record has ended.              *)
LEMMA UpdRestSim ==
  ASSUME Inv, Cont, UpdRest
  PROVE  Cont' /\ (RS!Next \/ UNCHANGED RS!vars)
<1>1. pc = "bupddt" /\ (d = 0 \/ rem < 0) /\ UNCHANGED <<st, index, lf, out, rsize>>
  BY DEF UpdRest
<1>2. /\ op.name = "upd" /\ op.key \in Key /\ index[op.key] # ZNULL
      /\ index[op.key] \in Addr /\ index[op.key] # 0
      /\ op.rec \in Seq(Byte) /\ rem \in Int /\ base \in Nat /\ Len(op.rec) \in Nat
      /\ rem >= -1 /\ (rem >= 0 => base + rem = Len(op.rec))
      /\ tail = 0 => d = index[op.key] /\ rem >= 0
  <2>1. op.name = "upd" /\ op.key \in Key /\ index[op.key] # ZNULL /\ UpdInv
    BY <1>1 DEF Inv, CallInv, PosInv
  <2> QED  BY <2>1, InvFacts DEF UpdInv
<1>3. tail # 0
  BY <1>1, <1>2
<1>4. /\ err = "OK" /\ out = <<>> /\ rsize = 0
      /\ rem <= 0 => RecOf(op.key) = op.rec
      /\ rem > 0 => RecOf(op.key) = To(base) \o BytesAt(st, d)
  <2>1. RecOf(op.key) = IF tail # 0 /\ rem <= 0 THEN op.rec
                        ELSE To(base) \o BytesAt(st, d)
    BY <1>1 DEF Cont, UpdCont
  <2>2. err = "OK" /\ out = <<>> /\ rsize = 0
    BY <1>1 DEF Cont, ErrInv, OldInv
  <2>3. rem > 0 => ~(rem <= 0)
    BY <1>2
  <2> QED  BY <1>3, <2>1, <2>2, <2>3
<1>5. \A k \in Key : RecOf(k)' = RecOf(k)
  BY <1>1 DEF RecOf
<1>6. CASE d = 0 /\ rem <= 0
  <2>1. Return("OK")
    BY <1>4, <1>6 DEF UpdRest
  <2>2. PICK k0 \in Key : k0 = op.key
    BY <1>2
  <2>3. /\ Recs' = [Recs EXCEPT ![k0] = RecOf(k0)']
        /\ pc' = "idle" /\ op' = NoOp /\ err' = "OK"
    BY <1>1, <1>5, <2>1, <2>2, Answer
  <2>4. RecOf(k0)' = op.rec
    BY <1>4, <1>5, <1>6, <2>2
  <2>5. op.key \in RS!Stored
    BY <1>2, StoredIs DEF Cont, Stored
  <2>6. RS!Update
    BY <1>1, <1>2, <1>4, <2>2, <2>3, <2>4, <2>5
    DEF RS!Update, RS!Return, RS!NoCall, NoOp, Recs
  <2> QED  BY <2>1, <2>6, ReturnCont DEF RS!Next
<1>7. CASE ~(d = 0 /\ rem <= 0)
  <2>1. /\ pc' = (IF d # 0 THEN "bdeldt" ELSE "binsdt")
        /\ UNCHANGED <<op, d, rem, base, tail, err, old>>
    BY <1>7 DEF UpdRest, local
  <2>2. RecOf(op.key)' = RecOf(op.key)
    BY <1>1, <2>1 DEF RecOf
  <2>3. CASE d # 0
    <3>1. pc' = "bdeldt" /\ rem <= 0
      BY <1>1, <1>2, <2>1, <2>3
    <3>2. OldInv'
      BY <1>1, <1>2, <1>4, <2>1, <3>1 DEF Cont, OldInv
    <3>3. ErrInv'
      BY <1>2, <1>4, <2>1, <3>1 DEF ErrInv
    <3>4. InsCont'
      BY <1>2, <2>1, <3>1 DEF InsCont
    <3>5. UpdCont'
      BY <1>4, <2>1, <2>2, <3>1 DEF UpdCont
    <3>6. ReadCont'
      BY <3>1 DEF ReadCont
    <3> QED
      BY <1>1, <1>5, <2>1, <3>1, <3>2, <3>3, <3>4, <3>5, <3>6, Silent DEF Cont
  <2>4. CASE d = 0
    <3>1. pc' = "binsdt" /\ rem > 0 /\ base < Len(op.rec) /\ base + rem = Len(op.rec)
      BY <1>2, <1>7, <2>1, <2>4
    <3>2. BytesAt(st, d) = <<>>
      BY <2>4, BytesStep, InvFacts
    <3>3. RecOf(op.key) = To(base)
      <4>1. To(base) \in Seq(Byte)
        <5>1. \A i \in 1 .. base : op.rec[i] \in Byte
          BY <1>2, <3>1
        <5> QED  BY <1>2, <3>1, <5>1, SubSeqProperties DEF To
      <4> QED  BY <1>4, <3>1, <3>2, <4>1, Joined
    <3>4. From(base + rem) = <<>>
      <4>1. SubSeq(op.rec, Len(op.rec) + 1, Len(op.rec)) = <<>>
        BY <1>2
      <4> QED  BY <3>1, <4>1 DEF From
    <3>5. OldInv'
      BY <1>1, <1>2, <1>4, <2>1, <3>1 DEF Cont, OldInv
    <3>6. ErrInv'
      BY <1>2, <1>4, <2>1, <3>1 DEF ErrInv
    <3>7. InsCont'
      BY <1>1, <1>2, <2>1, <3>1, <3>2, <3>4 DEF InsCont, From
    <3>8. UpdCont'
      BY <1>2, <2>1, <2>2, <3>1, <3>3 DEF UpdCont, To
    <3>9. ReadCont'
      BY <3>1 DEF ReadCont
    <3> QED
      BY <1>1, <1>5, <2>1, <3>1, <3>5, <3>6, <3>7, <3>8, <3>9, Silent DEF Cont
  <2> QED  BY <2>3, <2>4
<1> QED  BY <1>6, <1>7

(* The new segments are linked to the old ones, or there are none.         *)
LEMMA UpdLinkSim ==
  ASSUME Inv, Cont, UpdLink
  PROVE  Cont' /\ RS!Next
<1>1. pc = "relink" /\ Return(err) /\ UNCHANGED <<index, lf, out, rsize>>
  BY DEF UpdLink
<1>2. /\ Inv' /\ Used(st') = Used(st)
      /\ \A c \in Addr \ {tail} : SegAt(st', c) = SegAt(st, c)
      /\ SegAt(st', tail).data = SegAt(st, tail).data /\ Nxt(st', tail) = d
  BY UpdLinkInv
<1>3. /\ op.name = "upd" /\ op.key \in Key /\ index[op.key] # ZNULL
      /\ Gone = NoKey /\ op.key # Gone
      /\ tail \in Owns(st, index, Gone, op.key) /\ Nxt(st, tail) = 0
  <2>1. op.name = "upd" /\ op.key \in Key /\ index[op.key] # ZNULL /\ Ended
    BY <1>1 DEF Inv, CallInv, PosInv
  <2> QED  BY <1>1, <2>1, RecordFacts DEF Ended, Kept, Gone
<1>4. /\ st \in Store(Data) /\ Full(st) /\ Chains(st)
      /\ st' \in Store(Data) /\ Full(st') /\ Chains(st')
      /\ d \in Int /\ op.rec \in Seq(Byte) /\ Len(op.rec) \in Nat /\ base \in Nat
      /\ d \in Used(st) \cup {0}
  <2>1. Nxt(st', tail) \in Used(st') \cup {0}
    <3>1. tail \in Used(st')
      BY <1>2, <1>3 DEF Inv, OwnInv, Cover
    <3> QED  BY <1>2, <3>1 DEF Inv, OwnInv, Chains
  <2> QED  BY <1>2, <2>1, InvFacts DEF Inv, TypeInv, StoreInv, OwnInv
<1>5. PICK k0 \in Key : k0 = op.key
  BY <1>3
<1>6. PICK p : p = index[k0]
  OBVIOUS
<1>7. /\ p \in Int /\ p \in Used(st) /\ p # ZNULL
      /\ RecOf(k0) = BytesAt(st, p) /\ SegsOf(st, p) \subseteq Used(st)
      /\ tail \in SegsOf(st, p) /\ tail \notin Cur /\ tail \in Used(st)
  <2>1. /\ SegsOf(st, p) = Owns(st, index, Gone, k0)
        /\ p \in Int /\ p \in Used(st) /\ p # ZNULL
        /\ RecOf(k0) = BytesAt(st, p) /\ SegsOf(st, p) \subseteq Used(st)
        /\ \A q \in SegsOf(st, p) : q \notin Cur
    BY <1>3, <1>5, <1>6, RecordChain
  <2> QED  BY <1>3, <1>5, <2>1
<1>8. Cur = SegsOf(st, d)
  BY <1>1, CurIs DEF Inv
<1>9. ASSUME NEW k \in Key, k # k0 PROVE RecOf(k)' = RecOf(k)
  <2>1. ASSUME index[k] # ZNULL, NEW q \in SegsOf(st, index[k])
        PROVE  SegAt(st', q) = SegAt(st, q)
    <3>1. k # Gone /\ k0 # Gone /\ index[k0] # ZNULL
      BY <1>3, <1>5, RecordFacts
    <3>2. q \notin SegsOf(st, p) /\ q \in Used(st)
      BY <1>6, <1>9, <2>1, <3>1, RecordChain
    <3> QED  BY <1>2, <1>7, <3>2 DEF Used
  <2> QED  BY <1>1, <1>2, <2>1, RecordStays
<1>10. BytesAt(st', d) = BytesAt(st, d) /\ BytesAt(st, d) \in Seq(Byte)
  <2>1. SegsOf(st, d) \subseteq Addr
    BY <1>4, ChainStep
  <2>2. \A q \in SegsOf(st, d) : SegAt(st', q) = SegAt(st, q)
    BY <1>2, <1>7, <1>8, <2>1
  <2> QED  BY <1>4, <2>2, BytesFrame, BytesStep
<1>11. RecOf(k0)' = RecOf(k0) \o BytesAt(st, d)
  <2>1. PICK x \in Seq(Byte) : /\ BytesAt(st, p) = x \o BytesAt(st, tail)
                               /\ BytesAt(st', p) = x \o BytesAt(st', tail)
    <3>1. tail \in SegsOf(st, tail) /\ SegsOf(st, p) \subseteq Addr
      BY <1>4, <1>7, ChainStep DEF Used
    <3>2. \A c \in SegsOf(st, p) : c \notin SegsOf(st, tail) =>
            SegAt(st', c) = SegAt(st, c)
      BY <1>2, <3>1
    <3>3. Used(st) \subseteq Used(st')
      BY <1>2
    <3> QED  BY <1>4, <1>7, <3>2, <3>3, BytesFrom, ZenonT(40)
  <2>2. PICK y \in Seq(Byte) : y = SegAt(st, tail).data
    BY <1>4, <1>7 DEF Full
  <2>3. BytesAt(st, tail) = y
    <3>1. BytesAt(st, tail) = y \o BytesAt(st, 0) /\ BytesAt(st, 0) = <<>>
      BY <1>3, <1>4, <1>7, <2>2, BytesStep
    <3> QED  BY <3>1, Joined
  <2>4. PICK z \in Seq(Byte) : z = BytesAt(st, d)
    BY <1>10
  <2>5. BytesAt(st', tail) = y \o z
    <3>1. tail \in Used(st')
      BY <1>2, <1>7
    <3>2. BytesAt(st', tail) = SegAt(st', tail).data \o BytesAt(st', Nxt(st', tail))
      BY <1>4, <3>1, BytesStep
    <3> QED  BY <1>2, <1>10, <2>2, <2>4, <3>2
  <2>6. x \o (y \o z) = (x \o y) \o z
    BY Regroup, Zenon
  <2>7. RecOf(k0)' = BytesAt(st', p)
    BY <1>1, <1>6, <1>7 DEF RecOf
  <2>8. RecOf(k0) = x \o y /\ RecOf(k0)' = x \o (y \o z)
    BY <1>7, <2>1, <2>3, <2>5, <2>7, Zenon
  <2> QED  BY <2>4, <2>6, <2>8, Zenon
<1>12. RecOf(k0) = To(base)
  BY <1>1, <1>3, <1>5 DEF Cont, UpdCont
<1>13. /\ Recs' = [Recs EXCEPT ![k0] = RecOf(k0)']
       /\ pc' = "idle" /\ op' = NoOp /\ err' = err
  <2>1. pc # "idle"
    BY <1>1
  <2> QED  BY <1>1, <1>5, <1>9, <2>1, Answer
<1>14. op.key \in RS!Stored
  BY <1>3, StoredIs DEF Cont, Stored
<1>15. out = <<>> /\ rsize = 0
  BY <1>1 DEF Cont, OldInv
<1>16. CASE err = "OK"
  <2>1. BytesAt(st, d) = From(base)
    BY <1>1, <1>16 DEF Cont, InsCont
  <2>2. To(base) \o From(base) = op.rec
    <3>1. PICK i \in Nat : i = base
      BY <1>4
    <3>2. PICK k \in Nat : k = Len(op.rec)
      BY <1>4
    <3>3. PICK z \in Nat : z = 0
      OBVIOUS
    <3>4. z <= i /\ i <= k /\ k <= Len(op.rec) /\ z <= k /\ z + 1 = 1
      BY <1>1, <3>1, <3>2, <3>3 DEF Cont, ErrInv
    <3>5. SubSeq(op.rec, z + 1, i) \o SubSeq(op.rec, i + 1, k) =
            SubSeq(op.rec, z + 1, k) /\ SubSeq(op.rec, 1, Len(op.rec)) = op.rec
      BY <1>4, <3>4, Parts
    <3> QED  BY <3>1, <3>2, <3>4, <3>5 DEF To, From
  <2>3. RecOf(k0)' = op.rec
    BY <1>11, <1>12, <2>1, <2>2
  <2>4. RS!Update
    BY <1>1, <1>3, <1>5, <1>13, <1>14, <1>15, <1>16, <2>3
    DEF RS!Update, RS!Return, RS!NoCall, NoOp, Recs
  <2> QED  BY <1>1, <2>4, ReturnCont DEF RS!Next
<1>17. CASE err = "QF2BIG" /\ d = 0 /\ base < Len(op.rec)
  <2>1. BytesAt(st, d) = <<>>
    BY <1>4, <1>17, BytesStep
  <2>2. /\ To(base) \in RS!Before(op.rec) \ {op.rec}
        /\ To(base) \in Seq(Byte)
    <3>1. PICK i \in Nat : i = base
      BY <1>4
    <3>2. SubSeq(op.rec, 1, i) \in Seq(Byte) /\ Len(SubSeq(op.rec, 1, i)) = i
      <4>1. \A j \in 1 .. i : op.rec[j] \in Byte
        BY <1>4, <1>17, <3>1
      <4> QED  BY <1>4, <1>17, <3>1, <4>1, SubSeqProperties
    <3>3. SubSeq(op.rec, 1, i) # op.rec /\ i \in 0 .. Len(op.rec)
      BY <1>4, <1>17, <3>1, <3>2
    <3> QED  BY <3>1, <3>2, <3>3 DEF To, RS!Before
  <2>3. RecOf(k0)' = To(base)
    BY <1>11, <1>12, <2>1, <2>2, Joined
  <2>4. RS!Truncate
    BY <1>1, <1>3, <1>5, <1>13, <1>14, <1>15, <1>17, <2>2, <2>3
    DEF RS!Truncate, RS!Return, RS!NoCall, NoOp, Recs
  <2> QED  BY <1>1, <2>4, ReturnCont DEF RS!Next
<1> QED  BY <1>1, <1>16, <1>17 DEF Cont, ErrInv

----------------------------------------------------------------------------
(* bdeldt, bseldt and brecsz.                                              *)

(* One segment deleted, which is no record's any more.                     *)
LEMMA DelSegSim ==
  ASSUME Inv, Cont, DelSeg
  PROVE  Cont' /\ UNCHANGED RS!vars
<1>1. /\ pc = "bdeldt" /\ pc' = pc /\ d # 0 /\ err' = First(DelDatErr(st, d))
      /\ UNCHANGED <<index, lf, op, rem, base, tail, out, rsize, old>>
  BY DEF DelSeg
<1>2. /\ Inv' /\ d \in Used(st) /\ err' = err
      /\ \A c \in Addr \ {d} : SegAt(st', c) = SegAt(st, c)
  BY <1>1, DelSegInv DEF First
<1>3. /\ op.key \in Key /\ op.name \in {"ins", "upd", "del"}
      /\ Gone = (IF op.name = "del" THEN op.key ELSE NoKey) /\ NoKey \notin Key
  BY <1>1, RecordFacts DEF Inv, CallInv, Gone
<1>4. d \in Cur
  <2>1. Cur = SegsOf(st, d) /\ st \in Store(Data) /\ d \in Addr
    BY <1>1, <1>2, CurIs, InvFacts DEF Inv
  <2> QED  BY <2>1, ChainStep
<1>5. ASSUME NEW k \in Key, k # Gone PROVE RecOf(k)' = RecOf(k)
  <2>1. ASSUME index[k] # ZNULL, NEW q \in SegsOf(st, index[k])
        PROVE  SegAt(st', q) = SegAt(st, q)
    <3>1. q \notin Cur /\ q \in Used(st)
      BY <1>5, <2>1, RecordChain
    <3> QED  BY <1>2, <1>4, <3>1 DEF Used
  <2> QED  BY <1>1, <1>2, <2>1, RecordStays
<1>6. op.name # "del" => RecOf(op.key)' = RecOf(op.key)
  <2>1. PICK k0 \in Key : k0 = op.key
    BY <1>3
  <2>2. op.name # "del" => RecOf(k0)' = RecOf(k0)
    BY <1>3, <1>5
  <2>3. RecOf(op.key)' = RecOf(k0)'
    BY <1>1, <2>1 DEF RecOf
  <2> QED  BY <2>1, <2>2, <2>3
<1>7. Cont'
  <2>1. OldInv'
    BY <1>1, <1>3, <1>6 DEF Cont, OldInv
  <2>2. ErrInv'
    BY <1>1, <1>2 DEF Cont, ErrInv
  <2>3. InsCont'
    BY <1>1 DEF Cont, InsCont
  <2>4. UpdCont'
    BY <1>1, <1>6 DEF Cont, UpdCont
  <2>5. ReadCont'
    BY <1>1 DEF ReadCont
  <2> QED  BY <2>1, <2>2, <2>3, <2>4, <2>5 DEF Cont
<1> QED  BY <1>1, <1>3, <1>5, <1>7, Silent

(* All are deleted; a delete takes the key out of the tree.                *)
LEMMA DelDoneSim ==
  ASSUME Inv, Cont, DelDone
  PROVE  Cont' /\ RS!Next
<1>1. pc = "bdeldt" /\ d = 0 /\ UNCHANGED <<out, rsize>> /\ pc # "idle"
  BY DEF DelDone
<1>2. /\ op.key \in Key /\ op.name \in {"ins", "upd", "del"}
      /\ op.name \in {"upd", "del"} => index[op.key] # ZNULL
      /\ index \in [Key -> Addr \cup {ZNULL}]
  BY <1>1 DEF Inv, TypeInv, CallInv
<1>3. PICK k0 \in Key : k0 = op.key
  BY <1>2
<1>4. out = <<>> /\ rsize = 0
  BY <1>1 DEF Cont, OldInv
<1>5. RS!Stored = Stored
  BY StoredIs DEF Cont
<1>6. CASE op.name # "del"
  <2>1. Return(err) /\ UNCHANGED <<st, index, lf>>
    BY <1>6 DEF DelDone
  <2>2. \A k \in Key : RecOf(k)' = RecOf(k)
    BY <2>1 DEF RecOf
  <2>3. /\ Recs' = [Recs EXCEPT ![k0] = RecOf(k0)']
        /\ RecOf(k0)' = old => Recs' = Recs
        /\ pc' = "idle" /\ op' = NoOp /\ err' = err
    BY <1>1, <1>3, <2>1, <2>2, Answer
  <2>4. CASE op.name = "ins"
    <3>1. Recs' = Recs
      BY <1>3, <2>2, <2>3, <2>4 DEF Cont, OldInv
    <3>2. \/ err = "QF2BIG"
          \/ /\ err = "QDUP" /\ index[op.key] # ZNULL
             /\ lf = [key |-> op.key, exct |-> TRUE]
      BY <1>1, <2>4 DEF Cont, ErrInv
    <3>3. CASE err = "QF2BIG"
      <4>1. RS!NoSpace
        BY <1>1, <1>4, <2>1, <2>3, <2>4, <3>1, <3>3
        DEF RS!NoSpace, RS!Return, RS!NoCall, NoOp, Recs
      <4> QED  BY <2>1, <4>1, ReturnCont DEF RS!Next
    <3>4. CASE /\ err = "QDUP" /\ index[op.key] # ZNULL
               /\ lf = [key |-> op.key, exct |-> TRUE]
      <4>1. op.key \in RS!Stored
        BY <1>2, <1>5, <3>4 DEF Stored
      <4>2. RS!Duplicate
        BY <1>1, <1>4, <2>1, <2>3, <2>4, <3>1, <3>4, <4>1
        DEF RS!Duplicate, RS!Return, RS!NoCall, NoOp, Recs
      <4> QED  BY <2>1, <4>2, ReturnCont DEF RS!Next
    <3> QED  BY <3>2, <3>3, <3>4
  <2>5. CASE op.name = "upd"
    <3>1. err = "OK" /\ RecOf(k0)' = op.rec
      BY <1>1, <1>3, <2>2, <2>5 DEF Cont, ErrInv, UpdCont
    <3>2. op.key \in RS!Stored
      BY <1>2, <1>5, <2>5 DEF Stored
    <3>3. RS!Update
      BY <1>1, <1>3, <1>4, <2>1, <2>3, <2>5, <3>1, <3>2
      DEF RS!Update, RS!Return, RS!NoCall, NoOp, Recs
    <3> QED  BY <2>1, <3>3, ReturnCont DEF RS!Next
  <2> QED  BY <1>2, <1>6, <2>4, <2>5
<1>7. CASE op.name = "del"
  <2>1. /\ index' = [index EXCEPT ![k0] = ZNULL]
        /\ lf' = [key |-> k0, exct |-> FALSE] /\ err = "OK"
    BY <1>1, <1>3, <1>7 DEF DelDone, Cont, ErrInv
  <2>2. PICK e \in {"OK", "QF2BIG"} : Return(e) /\ st' \in {st} \cup TreeGives(st)
    BY <1>7, <2>1 DEF DelDone, First
  <2>3. ASSUME NEW k \in Key, k # k0 PROVE RecOf(k)' = RecOf(k)
    <3>1. \A a \in Addr : SegAt(st', a) = SegAt(st, a)
      BY <1>1, <2>2, TreeBlocks
    <3>2. index'[k] = index[k] /\ Inv'
      BY <1>2, <2>1, <2>3, DelDoneInv
    <3> QED  BY <3>1, <3>2, SameSegs
  <2>4. /\ Recs' = [Recs EXCEPT ![k0] = RecOf(k0)']
        /\ pc' = "idle" /\ op' = NoOp /\ err' = e
    BY <1>1, <1>3, <2>2, <2>3, Answer
  <2>5. RecOf(k0)' = NoRec
    BY <1>2, <2>1 DEF RecOf
  <2>6. op.key \in RS!Stored
    BY <1>2, <1>5, <1>7 DEF Stored
  <2>7. CASE e = "OK"
    <3>1. RS!Delete
      BY <1>1, <1>3, <1>4, <1>7, <2>1, <2>4, <2>5, <2>6, <2>7
      DEF RS!Delete, RS!Return, RS!NoCall, NoOp, Recs
    <3> QED  BY <2>2, <3>1, ReturnCont DEF RS!Next
  <2>8. CASE e = "QF2BIG"
    <3>1. RS!NoSpace
      BY <1>1, <1>3, <1>4, <1>7, <2>1, <2>4, <2>5, <2>8
      DEF RS!NoSpace, RS!Return, RS!NoCall, NoOp, Recs
    <3> QED  BY <2>2, <3>1, ReturnCont DEF RS!Next
  <2> QED  BY <2>2, <2>7, <2>8
<1> QED  BY <1>6, <1>7

(* One segment read.                                                       *)
LEMMA SelSegSim ==
  ASSUME Inv, Cont, SelSeg
  PROVE  Cont' /\ UNCHANGED RS!vars
<1>1. PICK n : n = Copied(SegAt(st, d))
  OBVIOUS
<1>2. PICK y : y = SegAt(st, d).data
  OBVIOUS
<1>3. /\ pc = "bseldt" /\ pc' = pc /\ rem > 0 /\ d # 0
      /\ out' = out \o SubSeq(y, 1, n)
      /\ rsize' = rsize + n /\ rem' = rem - n /\ d' = Nxt(st, d)
      /\ UNCHANGED <<st, index, lf, op, base, tail, err, old>>
  BY <1>1, <1>2 DEF SelSeg, Nxt
<1>4. /\ d \in Used(st) /\ st \in Store(Data) /\ Full(st) /\ Chains(st)
      /\ out \in Seq(Byte) /\ rsize = Len(out) /\ rem + rsize = op.size
      /\ rem \in Nat /\ op.size \in Nat /\ op.name = "sel" /\ op.key \in Key
  BY <1>3, InvFacts DEF Cont, ReadCont, Inv, TypeInv, CallInv
<1>5. PICK x \in Seq(Byte) : x = BytesAt(st, Nxt(st, d))
  BY <1>4, BytesStep DEF Chains
<1>6. /\ BytesAt(st, d) = y \o x /\ y \in Seq(Byte) /\ Nxt(st, d) \in Used(st) \cup {0}
      /\ Len(y) = SegAt(st, d).size /\ Len(y) \in Nat
  <2>1. BytesAt(st, d) = SegAt(st, d).data \o BytesAt(st, Nxt(st, d))
    BY <1>4, BytesStep
  <2>2. y \in Seq(Byte) /\ Len(y) = SegAt(st, d).size
    BY <1>2, <1>4 DEF Full
  <2>3. Nxt(st, d) \in Used(st) \cup {0}
    BY <1>4 DEF Chains
  <2> QED  BY <1>2, <1>5, <2>1, <2>2, <2>3, LenProperties
<1>7. old = out \o (y \o x)
  BY <1>3, <1>6 DEF Cont, ReadCont
<1>8. n \in 0 .. rem /\ n <= Len(y) /\ n \in Nat /\ (n < rem => n = Len(y))
  BY <1>1, <1>4, <1>6 DEF Copied
<1>9. PICK u \in Seq(Byte) : u = SubSeq(y, 1, n)
  <2>1. PICK z \in Nat : z = 0
    OBVIOUS
  <2>2. z <= n /\ n <= n /\ z + 1 = 1
    BY <1>8, <2>1
  <2>3. SubSeq(y, z + 1, n) \in Seq(Byte)
    BY <1>6, <1>8, <2>2, Parts
  <2> QED  BY <2>2, <2>3
<1>10. PICK v \in Seq(Byte) : v = SubSeq(y, n + 1, Len(y))
  <2>1. PICK k \in Nat : k = Len(y)
    BY <1>6
  <2>2. n <= k /\ k <= k /\ k <= Len(y)
    BY <1>8, <2>1
  <2>3. SubSeq(y, n + 1, k) \in Seq(Byte)
    BY <1>6, <1>8, <2>2, Parts
  <2> QED  BY <2>1, <2>3
<1>11. u \o v = y /\ Len(u) = n /\ (n = Len(y) => v = <<>>)
  <2>1. PICK k \in Nat : k = Len(y)
    BY <1>6
  <2>2. PICK z \in Nat : z = 0
    OBVIOUS
  <2>3. z <= n /\ n <= k /\ k <= Len(y) /\ z + 1 = 1 /\ n - z = n
    BY <1>8, <2>1, <2>2
  <2>4. /\ SubSeq(y, z + 1, n) \o SubSeq(y, n + 1, k) = SubSeq(y, z + 1, k)
        /\ Len(SubSeq(y, z + 1, n)) = n - z
        /\ SubSeq(y, n + 1, n) = <<>> /\ SubSeq(y, 1, Len(y)) = y
    <3>1. y \in Seq(Byte) /\ n \in Nat
      BY <1>6, <1>8
    <3>2. /\ SubSeq(y, z + 1, n) \o SubSeq(y, n + 1, k) = SubSeq(y, z + 1, k)
          /\ Len(SubSeq(y, z + 1, n)) = n - z
      BY <2>3, <3>1, Parts
    <3>3. SubSeq(y, n + 1, n) = <<>> /\ SubSeq(y, 1, Len(y)) = y
      BY <2>3, <3>1, Parts
    <3> QED  BY <3>2, <3>3
  <2> QED  BY <1>9, <1>10, <2>1, <2>3, <2>4
<1>12. old = (out \o u) \o (v \o x) /\ out \o u \in Seq(Byte)
       /\ Len(out \o u) = rsize + n /\ v \o x \in Seq(Byte)
  <2>1. (u \o v) \o x = u \o (v \o x)
    BY Regroup, Zenon
  <2>2. /\ v \o x \in Seq(Byte) /\ out \o u \in Seq(Byte)
        /\ Len(out \o u) = Len(out) + Len(u)
    <3>1. out \in Seq(Byte) /\ u \in Seq(Byte) /\ v \in Seq(Byte) /\ x \in Seq(Byte)
      BY <1>4
    <3>2. v \o x \in Seq(Byte)
      BY <3>1, Joined
    <3> QED  BY <3>1, <3>2, Joined
  <2>3. PICK w \in Seq(Byte) : w = v \o x
    BY <2>2
  <2>4. out \o (u \o w) = (out \o u) \o w
    BY <1>4, Regroup, ZenonT(40)
  <2>5. old = out \o (u \o w)
    BY <1>7, <1>11, <2>1, <2>3, Zenon
  <2>6. old = (out \o u) \o (v \o x)
    BY <2>3, <2>4, <2>5, Zenon
  <2> QED  BY <1>4, <1>11, <2>2, <2>6
<1>13. ReadCont'
  <2>1. rem' > 0 => v \o x = BytesAt(st', d')
    <3>1. ASSUME rem' > 0 PROVE v = <<>>
      BY <1>3, <1>4, <1>8, <1>11, <3>1
    <3>2. <<>> \o x = x
      BY Joined
    <3> QED  BY <1>3, <1>5, <3>1, <3>2
  <2>2. /\ out' \in Seq(Byte) /\ rsize' = Len(out') /\ rem' >= 0
        /\ rem' + rsize' = op'.size /\ d' \in Used(st') \cup {0}
        /\ old' = out' \o (v \o x)
    BY <1>3, <1>4, <1>6, <1>8, <1>9, <1>12
  <2> QED  BY <1>3, <1>12, <2>1, <2>2 DEF ReadCont
<1>14. \A k \in Key : RecOf(k)' = RecOf(k)
  BY <1>3 DEF RecOf
<1>15. Cont'
  <2>1. OldInv'
    BY <1>3, <1>4, <1>14 DEF Cont, OldInv
  <2>2. ErrInv'
    BY <1>3 DEF Cont, ErrInv
  <2>3. InsCont'
    BY <1>3, <1>4 DEF InsCont
  <2>4. UpdCont'
    BY <1>3, <1>4 DEF UpdCont
  <2> QED  BY <1>13, <2>1, <2>2, <2>3, <2>4 DEF Cont
<1> QED  BY <1>3, <1>4, <1>14, <1>15, Silent

(* The size of one segment added.                                          *)
LEMMA RecSegSim ==
  ASSUME Inv, Cont, RecSeg
  PROVE  Cont' /\ UNCHANGED RS!vars
<1>1. /\ pc = "brecsz" /\ pc' = pc /\ d # 0
      /\ rem' = rem + SegAt(st, d).size /\ d' = Nxt(st, d)
      /\ UNCHANGED <<st, index, lf, op, base, tail, err, out, rsize, old>>
  BY DEF RecSeg, Nxt
<1>2. /\ d \in Used(st) /\ st \in Store(Data) /\ Full(st) /\ Chains(st)
      /\ rem \in Nat /\ op.name = "recs" /\ op.key \in Key
      /\ old \in Seq(Byte) /\ rem + Len(BytesAt(st, d)) = Len(old)
  BY <1>1, InvFacts DEF Cont, ReadCont, Inv, TypeInv, CallInv
<1>3. PICK x \in Seq(Byte) : x = BytesAt(st, Nxt(st, d))
  BY <1>2, BytesStep DEF Chains
<1>4. PICK y \in Seq(Byte) : y = SegAt(st, d).data
  BY <1>2 DEF Full
<1>5. /\ BytesAt(st, d) = y \o x /\ Nxt(st, d) \in Used(st) \cup {0}
      /\ Len(y) = SegAt(st, d).size
      /\ Len(y) \in Nat /\ Len(x) \in Nat /\ Len(y \o x) = Len(y) + Len(x)
  BY <1>2, <1>3, <1>4, BytesStep, Joined DEF Full, Chains
<1>6. ReadCont'
  <2>1. /\ rem' >= 0 /\ rem' + Len(x) = Len(old)
    BY <1>1, <1>2, <1>5
  <2>2. BytesAt(st, d)' = x /\ d' \in Used(st') \cup {0}
    BY <1>1, <1>3, <1>5
  <2> QED  BY <1>1, <1>2, <2>1, <2>2 DEF ReadCont
<1>7. \A k \in Key : RecOf(k)' = RecOf(k)
  BY <1>1 DEF RecOf
<1>8. Cont'
  <2>1. OldInv'
    BY <1>1, <1>2, <1>7 DEF Cont, OldInv
  <2>2. ErrInv'
    BY <1>1 DEF Cont, ErrInv
  <2>3. InsCont'
    BY <1>1, <1>2 DEF InsCont
  <2>4. UpdCont'
    BY <1>1, <1>2 DEF UpdCont
  <2> QED  BY <1>6, <2>1, <2>2, <2>3, <2>4 DEF Cont
<1> QED  BY <1>1, <1>2, <1>7, <1>8, Silent

(* As much as was asked for is read, or all of it.                         *)
LEMMA SelDoneSim ==
  ASSUME Inv, Cont, SelDone
  PROVE  Cont' /\ RS!Next
<1>1. /\ pc \in {"bseldt", "brecsz"} /\ pc # "idle"
      /\ Return(err) /\ UNCHANGED <<st, index, lf, out>>
      /\ pc = "bseldt" => (rem = 0 \/ d = 0) /\ rsize' = rsize
      /\ pc = "brecsz" => d = 0 /\ rsize' = rem
  BY DEF SelDone
<1>2. /\ op.key \in Key /\ index[op.key] # ZNULL
      /\ pc = "bseldt" => op.name = "sel"
      /\ pc = "brecsz" => op.name = "recs"
      /\ rem \in Int /\ op.size \in Nat
  BY <1>1 DEF Inv, TypeInv, CallInv
<1>3. PICK k0 \in Key : k0 = op.key
  BY <1>2
<1>4. \A k \in Key : RecOf(k)' = RecOf(k)
  BY <1>1 DEF RecOf
<1>5. err = "OK" /\ RecOf(k0)' = old
  <2>1. err = "OK"
    BY <1>1 DEF Cont, ErrInv
  <2>2. old = RecOf(k0)
    BY <1>1, <1>2, <1>3 DEF Cont, OldInv
  <2> QED  BY <1>4, <2>1, <2>2
<1>6. Recs' = Recs /\ pc' = "idle" /\ op' = NoOp /\ err' = "OK"
  BY <1>1, <1>3, <1>4, <1>5, Answer
<1>7. op.key \in RS!Stored
  BY <1>2, StoredIs DEF Cont, Stored
<1>8. Recs[op.key] = old /\ RecordOf(op.key) = old
  BY <1>1, <1>2 DEF Recs, RecordOf
<1>9. BytesAt(st, 0) = <<>>
  BY BytesStep, InvFacts
<1>10. CASE pc = "bseldt"
  <2>1. /\ out \in Seq(Byte) /\ rsize = Len(out) /\ rem >= 0 /\ rem + rsize = op.size
        /\ \E z \in Seq(Byte) : old = out \o z /\ (rem > 0 => z = BytesAt(st, d))
    BY <1>10 DEF Cont, ReadCont
  <2>2. PICK z \in Seq(Byte) : old = out \o z /\ (rem > 0 => z = BytesAt(st, d))
    BY <2>1
  <2>3. /\ Len(old) = Len(out) + Len(z) /\ Len(z) \in Nat /\ Len(out) \in Nat
        /\ SubSeq(old, 1, Len(out)) = out /\ (rem > 0 => z = <<>>)
        /\ Len(<<>>) = 0
    BY <1>1, <1>9, <1>10, <2>1, <2>2, Joined
  <2>4. (IF Len(old) < op.size THEN Len(old) ELSE op.size) = Len(out)
    BY <1>2, <2>1, <2>3
  <2>5. RS!Select
    BY <1>1, <1>2, <1>6, <1>7, <1>8, <1>10, <2>1, <2>3, <2>4
    DEF RS!Select, RS!Return, RS!NoCall, NoOp, Recs
  <2> QED  BY <1>1, <2>5, ReturnCont DEF RS!Next
<1>11. CASE pc = "brecsz"
  <2>1. rem = Len(old)
    <3>1. rem + Len(BytesAt(st, d)) = Len(old) /\ d = 0
      BY <1>1, <1>11 DEF Cont, ReadCont
    <3>2. Len(BytesAt(st, d)) = 0
      BY <1>9, <3>1
    <3> QED  BY <1>2, <3>1, <3>2
  <2>2. out = <<>>
    BY <1>11 DEF Cont, OldInv
  <2>3. RS!Size
    BY <1>1, <1>2, <1>6, <1>7, <1>8, <1>11, <2>1, <2>2
    DEF RS!Size, RS!Return, RS!NoCall, NoOp, Recs
  <2> QED  BY <1>1, <2>3, ReturnCont DEF RS!Next
<1> QED  BY <1>1, <1>10, <1>11

----------------------------------------------------------------------------
(* The refinement.                                                         *)

(* At first no key has a record.                                           *)
LEMMA InitCont == Init => Cont /\ RS!Init
<1> SUFFICES ASSUME Init PROVE Cont /\ RS!Init
  OBVIOUS
<1>1. /\ pc = "idle" /\ op = NoOp /\ index = [k \in Key |-> ZNULL] /\ out = <<>>
      /\ lf = [key |-> NoKey, exct |-> FALSE] /\ err = "OK" /\ rsize = 0
  BY DEF Init
<1>2. Cont
  BY <1>1 DEF Cont, OldInv, ErrInv, InsCont, UpdCont, ReadCont, NoOp
<1>3. Recs = [k \in Key |-> NoRec]
  BY <1>1 DEF Recs, RecordOf
<1> QED  BY <1>1, <1>2, <1>3 DEF RS!Init, RS!NoCall, NoOp, Recs

(* Every step is one of the record store, or none of its business.         *)
LEMMA NextCont == Inv /\ Cont /\ [Next]_vars => Cont' /\ [RS!Next]_(RS!vars)
<1> SUFFICES ASSUME Inv, Cont, [Next]_vars PROVE Cont' /\ [RS!Next]_(RS!vars)
  OBVIOUS
<1>1. CASE Call
  BY <1>1, CallsSim
<1>2. CASE Step
  <2>1. CASE InsRest \/ InsPart \/ InsBlock \/ InsFails
    BY <2>1, InsRestSim, InsPartSim, InsBlockSim, InsFailsSim
  <2>2. CASE InsKey \/ InsKeyFails
    BY <2>2, InsKeySim, InsKeyFailsSim
  <2>3. CASE UpdSeg \/ UpdRest \/ UpdLink
    BY <2>3, UpdSegSim, UpdRestSim, UpdLinkSim
  <2>4. CASE DelSeg \/ DelDone
    BY <2>4, DelSegSim, DelDoneSim
  <2>5. CASE SelSeg \/ RecSeg \/ SelDone
    BY <2>5, SelSegSim, RecSegSim, SelDoneSim
  <2> QED  BY <1>2, <2>1, <2>2, <2>3, <2>4, <2>5 DEF Step
<1>3. CASE UNCHANGED vars
  <2>1. UNCHANGED <<st, index, lf, pc, op, d, rem, base, tail, err, out, rsize,
                    old>>
    BY <1>3 DEF vars
  <2>2. OldInv' /\ ErrInv'
    BY <2>1 DEF Cont, OldInv, ErrInv, RecOf
  <2>3. InsCont' /\ UpdCont' /\ ReadCont'
    <3>1. InsCont'
      BY <2>1 DEF Cont, InsCont, RecOf, To, From
    <3>2. UpdCont'
      BY <2>1 DEF Cont, UpdCont, RecOf, To, From
    <3>3. ReadCont'
      BY <2>1 DEF Cont, ReadCont, RecOf, To, From
    <3> QED  BY <3>1, <3>2, <3>3
  <2>4. \A k \in Key : RecordOf(k)' = RecordOf(k)
    BY <2>1 DEF RecordOf
  <2>5. UNCHANGED RS!vars
    BY <2>1, <2>4 DEF RS!vars
  <2> QED  BY <2>2, <2>3, <2>5 DEF Cont
<1> QED  BY <1>1, <1>2, <1>3 DEF Next

(* The data functions are calls on a store of records: a record is read as *)
(* it was written, whatever segments it is in and whatever happened to     *)
(* the others; an insert or an update for which the file has no room       *)
(* leaves what RecordStore says.                                           *)
THEOREM RecordsImplemented == Spec => ImplementsRecords
<1>1. Init => Inv /\ Cont /\ RS!Init
  BY InitInv, InitCont
<1>2. Inv /\ Cont /\ [Next]_vars => Inv' /\ Cont' /\ [RS!Next]_(RS!vars)
  BY NextInv, NextCont
<1>3. Spec => RS!Spec
  BY <1>1, <1>2, PTL DEF Spec, RS!Spec
<1> QED  BY <1>3 DEF ImplementsRecords
=============================================================================
