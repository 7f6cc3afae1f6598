--------------------------- MODULE BlockCacheProofs ---------------------------
(***************************************************************************)
(* Proofs about BlockCache, for every number of slots, blocks, failures    *)
(* and every threshold: its types and WiredStays, then that the cache is a *)
(* store (Coherent, SuperKept, QueueSound, HeadFound).                     *)
(***************************************************************************)
EXTENDS BlockCache, WellFoundedInduction, FiniteSetTheorems, TLAPS

USE DEF NONE, ZSUPER, Slot, Blk, Rec

SlotRec == [inmem : Blk \cup {NONE}, rec : Rec, busy : BOOLEAN,
            writes : 0 .. MaxWrites]
Queue   == [h : Slot, t : Slot, nxt : [Slot -> Slot \cup {NONE}]]

(* A slot without a block is not wired: bgtslt may take it.                *)
SlotsOK(S) ==
  /\ S \in [Slot -> SlotRec]
  /\ \A s \in Slot : S[s].inmem = NONE => S[s].busy = FALSE

(* The tail and no other slot ends the queue: bqmove finds a new head.     *)
QueueOK(q) ==
  /\ q \in Queue
  /\ \A s \in Slot : s = q.t <=> q.nxt[s] = NONE

SameBlocks(S, T) == \A s \in Slot : T[s].inmem = S[s].inmem

FileOK ==
  /\ disk \in [Blk -> Rec]
  /\ fails \in 0 .. MaxFails
  /\ lost \in [Blk -> {"no", "told", "silent"}]

(* What brdblk and bgtfre know when bgtslt is at work and has returned.    *)
Pending ==
  /\ pc \in {"slot", "fill"} =>
       /\ req.blk \in Blk
       /\ req.name = "grow" => super < NBLK
  /\ pc = "fill" => vic \in Slot /\ slots[vic].busy = FALSE

IInv ==
  /\ FileOK /\ SlotsOK(slots) /\ QueueOK(lru)
  /\ super \in 2 .. NBLK /\ smod \in BOOLEAN
  /\ pc \in {"idle", "slot", "fill", "super"}
  /\ req \in [name : Request, blk : Blk \cup {NONE}]
  /\ vic \in Slot \cup {NONE} /\ turned \subseteq Slot
  /\ Pending

(* The part of WiredStays that one step keeps.                             *)
Wired ==
  \A s \in Slot : slots[s].busy => \/ slots'[s].inmem = slots[s].inmem
                                   \/ slots' = NoSlots

----------------------------------------------------------------------------
(* The first slot with a block is a slot with that block: brdblk, bwrblk   *)
(* and bgtslt search from slot zero.                                       *)
LEMMA OwnerHas ==
  ASSUME NEW S, NEW b, Resident(S, b)
  PROVE  /\ Owner(S, b) \in Slot /\ S[Owner(S, b)].inmem = b
         /\ \A r \in Slot : S[r].inmem = b => Owner(S, b) <= r
<1> DEFINE T == {s \in Slot : S[s].inmem = b}
<1>1. T # {} /\ T \subseteq Nat
  BY CacheConstants DEF Resident
<1>2. PICK x \in T : \A y \in T : ~(<<y, x>> \in OpToRel(<, Nat))
  <2> HIDE DEF T
  <2> QED  BY <1>1, WFMin, NatLessThanWellFounded, Zenon
<1>3. \A y \in T : x <= y
  <2> SUFFICES ASSUME NEW y \in T  PROVE x <= y
    OBVIOUS
  <2>1. x \in Nat /\ y \in Nat
    BY <1>1
  <2>2. <<y, x>> \in Nat \X Nat /\ <<y, x>>[1] = y /\ <<y, x>>[2] = x
    BY <2>1
  <2>3. ~(y < x)
    BY <1>2, <2>2, Zenon DEF OpToRel
  <2> QED  BY <2>1, <2>3
<1> QED  BY <1>2, <1>3 DEF Owner

(* bqmove keeps the queue a queue with one end.                            *)
LEMMA MoveOK ==
  ASSUME NEW q, QueueOK(q), NEW s \in Slot
  PROVE  QueueOK(Move(q, s))
<1>1. CASE s = q.t  BY <1>1 DEF Move
<1>2. CASE s # q.t
  <2>1. q.nxt[s] \in Slot  BY <1>2 DEF QueueOK, Queue
  <2> DEFINE m == Move(q, s)
  <2>2. /\ m \in Queue /\ m.t = s
        /\ \A r \in Slot :
             m.nxt[r] = IF r = s THEN NONE ELSE IF r = q.t THEN s
                        ELSE IF q.nxt[r] = s THEN q.nxt[s] ELSE q.nxt[r]
    BY <1>2, <2>1 DEF QueueOK, Queue, Move
  <2>3. q \in Queue /\ \A r \in Slot : r = q.t <=> q.nxt[r] = NONE
    BY DEF QueueOK
  <2>4. \A r \in Slot : r = s <=> m.nxt[r] = NONE
    <3> HIDE DEF m
    <3> QED  BY <1>2, <2>1, <2>2, <2>3, CacheConstants
  <2> HIDE DEF m
  <2>5. QueueOK(m)
    BY <2>2, <2>4 DEF QueueOK
  <2> QED  BY <2>5 DEF m
<1> QED  BY <1>1, <1>2

LEMMA NewQueueOK == QueueOK(NewQueue)
  BY CacheConstants DEF QueueOK, Queue, NewQueue

LEMMA NoSlotsOK == SlotsOK(NoSlots)
  BY CacheConstants DEF SlotsOK, SlotRec, NoSlots, EmptySlot

LEMMA CleanOK ==
  ASSUME NEW S, SlotsOK(S), NEW s \in Slot
  PROVE  SlotsOK(Clean(S, s)) /\ SameBlocks(S, Clean(S, s))
<1>1. 0 \in 0 .. MaxWrites
  BY CacheConstants
<1> HIDE DEF Slot, Blk, Rec
<1>2. Clean(S, s) \in [Slot -> SlotRec]
  BY <1>1 DEF SlotsOK, SlotRec, Clean
<1>3. \A r \in Slot : /\ Clean(S, s)[r].inmem = S[r].inmem
                       /\ Clean(S, s)[r].busy = S[r].busy
  BY DEF SlotsOK, SlotRec, Clean
<1> QED  BY <1>2, <1>3 DEF SlotsOK, SameBlocks

(* A change of the content of a block changes no slot's block.             *)
LEMMA WithOK ==
  ASSUME NEW S, SlotsOK(S), NEW s \in Slot
  PROVE  SlotsOK(With(S, s)) /\ SameBlocks(S, With(S, s))
<1>1. SlotsOK(Outdated(S, S[s].inmem)) /\ SameBlocks(S, Outdated(S, S[s].inmem))
  BY DEF SlotsOK, SlotRec, Outdated, SameBlocks
<1>2. Count(S[s].writes) \in 0 .. MaxWrites
  BY CacheConstants DEF Count, SlotsOK, SlotRec
<1> HIDE DEF Slot, Blk, Rec
<1> QED
  BY <1>1, <1>2 DEF SlotsOK, SlotRec, With, SameBlocks, Rec

LEMMA MarkOK ==
  ASSUME FileOK, NEW b \in Blk, NEW how \in {"told", "silent"}
  PROVE  Mark(b, how) \in [Blk -> {"no", "told", "silent"}]
  BY DEF FileOK, Mark

(* bwrblk, whether it succeeds or not.                                     *)
LEMMA WriteOK ==
  ASSUME FileOK, NEW d \in [Blk -> Rec], NEW S, SlotsOK(S), NEW s \in Slot,
         S[s].inmem \in Blk, NEW how \in {"told", "silent"},
         WriteOk(d, S, s) \/ WriteFails(d, S, s, how)
  PROVE  FileOK'
<1>1. CASE WriteOk(d, S, s)
  BY <1>1 DEF WriteOk, FileOK, SlotsOK, SlotRec
<1>2. CASE WriteFails(d, S, s, how)
  BY <1>2, MarkOK, CacheConstants DEF WriteFails, FileOK
<1> QED  BY <1>1, <1>2

----------------------------------------------------------------------------
(* The end of a request.                                                   *)
LEMMA DoneOK ==
  ASSUME Done, FileOK', SlotsOK(slots'), QueueOK(lru'),
         super' \in 2 .. NBLK, smod' \in BOOLEAN
  PROVE  IInv'
  BY DEF Done, IInv, Pending, NoReq, Request

(* Whatever is done with a block that is in memory, no other slot changes  *)
(* its block, unless btsync empties them all.                              *)
LEMMA ServeOK ==
  ASSUME IInv, NEW r, r.blk \in Blk, NEW S, SlotsOK(S),
         NEW s \in Slot, S[s].inmem = r.blk, Serve(r, S, s)
  PROVE  IInv' /\ (slots' = NoSlots \/ SameBlocks(S, slots'))
<1> DEFINE C == With(S, s)
<1>1. /\ FileOK /\ QueueOK(lru) /\ super \in 2 .. NBLK /\ smod \in BOOLEAN
      /\ QueueOK(Move(lru, s))
  BY MoveOK DEF IInv
<1>2. /\ SlotsOK(C) /\ SameBlocks(S, C)
      /\ SlotsOK(Clean(C, s)) /\ SameBlocks(C, Clean(C, s))
  BY WithOK, CleanOK
<1>3. C[s].inmem \in Blk
  BY <1>2 DEF SameBlocks
<1>4. SameBlocks(S, Clean(C, s))
  BY <1>2 DEF SameBlocks
<1> HIDE DEF C
<1>5. CASE Used(r, S, s) /\ lru' = Move(lru, s)
  <2>1. FileOK' /\ super' = super /\ smod' = smod /\ Done
    BY <1>1, <1>5 DEF Used, file, FileOK
  <2>2. SlotsOK(slots') /\ SameBlocks(S, slots')
    <3>1. CASE slots' = S
      BY <3>1 DEF SameBlocks
    <3>2. CASE slots' = [S EXCEPT ![s].busy = (r.name = "wire")]
      <4>1. S[s].inmem # NONE /\ (r.name = "wire") \in BOOLEAN
        BY CacheConstants
      <4> HIDE DEF Slot, Blk, Rec
      <4>2. slots' \in [Slot -> SlotRec]
        BY <3>2, <4>1, ZenonT(40) DEF SlotsOK, SlotRec
      <4>3. \A x \in Slot : /\ slots'[x].inmem = S[x].inmem
                            /\ x # s => slots'[x].busy = S[x].busy
        BY <3>2 DEF SlotsOK, SlotRec
      <4> QED  BY <4>1, <4>2, <4>3 DEF SlotsOK, SameBlocks
    <3> QED  BY <1>5, <3>1, <3>2 DEF Used
  <2> QED  BY <1>1, <1>5, <2>1, <2>2, DoneOK
<1>6. CASE Altered(r, S, s) /\ lru' = Move(lru, s)
  <2>1. OldDisk(r.blk) \in [Blk -> Rec]
    BY <1>1 DEF OldDisk, FileOK
  <2>2. CASE slots' = C /\ disk' = OldDisk(r.blk) /\ UNCHANGED <<fails, lost>>
    BY <1>1, <1>2, <1>6, <2>1, <2>2, DoneOK DEF Altered, FileOK
  <2>3. CASE /\ slots' = Clean(C, s)
             /\ \/ WriteOk(OldDisk(r.blk), C, s)
                \/ WriteFails(OldDisk(r.blk), C, s, "silent")
    <3>1. FileOK'
      BY <1>1, <1>2, <1>3, <2>1, <2>3, WriteOK
    <3> QED  BY <1>1, <1>2, <1>4, <1>6, <2>3, <3>1, DoneOK DEF Altered
  <2> QED  BY <1>6, <2>2, <2>3 DEF Altered, C
<1>7. CASE SuperOut(r, S, s)
  <2>1. FileOK'
    BY <1>1, <1>2, <1>3, <1>7, WriteOK DEF SuperOut, FileOK, C
  <2>2. CASE slots' = NoSlots /\ lru' = NewQueue /\ smod' = FALSE
    BY <1>1, <1>7, <2>1, <2>2, NoSlotsOK, NewQueueOK, DoneOK DEF SuperOut
  <2>3. CASE slots' = Clean(C, s) /\ lru' = Move(lru, s) /\ smod' = smod
    BY <1>1, <1>2, <1>4, <1>7, <2>1, <2>3, DoneOK DEF SuperOut
  <2> QED  BY <1>7, <2>2, <2>3 DEF SuperOut, C
<1> QED  BY <1>5, <1>6, <1>7 DEF Serve

----------------------------------------------------------------------------
(* brdblk: the block is in memory, or bgtslt is called for it.             *)
LEMMA ReadOK ==
  ASSUME IInv, NEW r \in [name : Request, blk : Blk \cup {NONE}],
         r.blk \in Blk, r.name # "grow", Hit(r) \/ Miss(r)
  PROVE  IInv' /\ Wired
<1>1. CASE Hit(r)
  <2>1. Owner(slots, r.blk) \in Slot /\ slots[Owner(slots, r.blk)].inmem = r.blk
    BY <1>1, OwnerHas DEF Hit
  <2>2. SlotsOK(slots) /\ Serve(r, slots, Owner(slots, r.blk))
    BY <1>1 DEF Hit, IInv
  <2>3. IInv' /\ (slots' = NoSlots \/ SameBlocks(slots, slots'))
    BY <2>1, <2>2, ServeOK
  <2> QED  BY <2>3 DEF Wired, SameBlocks
<1>2. CASE Miss(r)
  <2>1. FileOK'
    BY <1>2 DEF Miss, file, IInv, FileOK
  <2> QED  BY <1>2, <2>1 DEF Miss, file, IInv, Pending, Wired
<1> QED  BY <1>1, <1>2

LEMMA FreeSlotOK == ASSUME IInv, FreeSlot  PROVE IInv' /\ Wired
<1>1. vic' \in Slot /\ slots[vic'].inmem = NONE
  BY OwnerHas DEF FreeSlot
<1>2. slots[vic'].busy = FALSE
  BY <1>1 DEF IInv, SlotsOK
<1>3. FileOK'
  BY DEF FreeSlot, file, IInv, FileOK
<1> QED  BY <1>1, <1>2, <1>3 DEF FreeSlot, file, IInv, Pending, Wired

LEMMA RotateOK == ASSUME IInv, Rotate  PROVE IInv' /\ Wired
<1>1. lru.h \in Slot
  BY DEF IInv, QueueOK, Queue
<1>2. QueueOK(Move(lru, lru.h))
  BY <1>1, MoveOK DEF IInv
<1>3. FileOK'
  BY DEF Rotate, file, IInv, FileOK
<1> QED  BY <1>1, <1>2, <1>3 DEF Rotate, file, IInv, Pending, Wired

LEMMA EvictOK == ASSUME IInv, Evict  PROVE IInv' /\ Wired
<1> DEFINE b == slots[lru.h].inmem
           s == Owner(slots, b)
<1>1. lru.h \in Slot /\ Resident(slots, b) /\ FileOK /\ SlotsOK(slots)
  BY DEF IInv, QueueOK, Queue, Resident
<1>2. s \in Slot /\ slots[s].inmem = b
  BY <1>1, OwnerHas
<1>3. b \in Blk
  BY <1>1 DEF Evict, Resident, SlotsOK, SlotRec
<1>4. slots[lru.h].busy = FALSE
  BY <1>1 DEF Evict, SlotsOK, SlotRec
<1> HIDE DEF s
<1>5. /\ slots' = Clean(slots, s) /\ vic' = lru.h
      /\ WriteOk(disk, slots, s) \/ WriteFails(disk, slots, s, "told")
  BY DEF Evict, s
<1>6. disk \in [Blk -> Rec]
  BY <1>1 DEF FileOK
<1>7. FileOK'
  BY <1>1, <1>2, <1>3, <1>5, <1>6, WriteOK
<1>8. SlotsOK(slots') /\ SameBlocks(slots, slots')
  BY <1>1, <1>2, <1>5, CleanOK
<1>9. slots'[lru.h].busy = FALSE
  <2> HIDE DEF Slot, Blk, Rec
  <2> QED  BY <1>1, <1>2, <1>4, <1>5 DEF Clean, SlotsOK, SlotRec
<1> QED
  BY <1>1, <1>5, <1>7, <1>8, <1>9 DEF Evict, IInv, Pending, Wired, SameBlocks

(* The slot that bgtslt returned is not wired, so that what is read into   *)
(* it takes no wired slot's place.                                         *)
LEMMA FillOK == ASSUME IInv, Fill  PROVE IInv' /\ Wired
<1>1. /\ vic \in Slot /\ slots[vic].busy = FALSE /\ req.blk \in Blk
      /\ SlotsOK(slots) /\ disk[req.blk] \in Rec
  BY DEF Fill, IInv, Pending, FileOK
<1>2. Serve(req, Filled, vic)
  BY DEF Fill
<1>3. /\ Filled \in [Slot -> SlotRec] /\ Filled[vic].inmem = req.blk
      /\ \A s \in Slot \ {vic} : Filled[s] = slots[s]
  <2> HIDE DEF Slot, Blk, Rec
  <2> QED  BY <1>1 DEF Filled, SlotsOK, SlotRec
<1>4. SlotsOK(Filled)
  BY <1>1, <1>3, CacheConstants DEF SlotsOK
<1>5. IInv' /\ (slots' = NoSlots \/ SameBlocks(Filled, slots'))
  BY <1>1, <1>2, <1>3, <1>4, ServeOK
<1> QED  BY <1>1, <1>3, <1>5 DEF Wired, SameBlocks

LEMMA FillFailsOK == ASSUME IInv, FillFails  PROVE IInv' /\ Wired
<1>1. vic \in Slot /\ SlotsOK(slots) /\ FileOK
  BY DEF FillFails, IInv, Pending
<1>2. SlotsOK(slots') /\ SameBlocks(slots, slots')
  <2>1. CASE slots' = slots
    BY <1>1, <2>1 DEF SameBlocks
  <2>2. CASE slots' = [slots EXCEPT ![vic].rec = "other"]
    <3>1. "other" \in Rec  OBVIOUS
    <3> HIDE DEF Slot, Blk, Rec
    <3>2. slots' \in [Slot -> SlotRec]
      BY <1>1, <2>2, <3>1 DEF SlotsOK, SlotRec
    <3>3. \A s \in Slot : /\ slots'[s].inmem = slots[s].inmem
                          /\ slots'[s].busy = slots[s].busy
      BY <1>1, <2>2 DEF SlotsOK, SlotRec
    <3> QED  BY <1>1, <3>2, <3>3 DEF SlotsOK, SameBlocks
  <2> QED  BY <2>1, <2>2 DEF FillFails
<1>3. lost' \in [Blk -> {"no", "told", "silent"}]
  <2>1. slots[vic].inmem = NONE \/ slots[vic].inmem \in Blk
    BY <1>1 DEF SlotsOK, SlotRec
  <2>2. slots[vic].inmem \in Blk =>
          Mark(slots[vic].inmem, "told") \in [Blk -> {"no", "told", "silent"}]
    BY <1>1, MarkOK
  <2> QED  BY <1>1, <2>1, <2>2 DEF FillFails, FileOK
<1>4. FileOK'
  BY <1>1, <1>3, CacheConstants DEF FillFails, file, FileOK
<1>5. IInv'
  BY <1>2, <1>4, DoneOK DEF FillFails, file, IInv
<1> QED  BY <1>2, <1>5 DEF Wired, SameBlocks

----------------------------------------------------------------------------
(* bgtfre with an empty free list.                                         *)
LEMMA GrowOK == ASSUME IInv, Grow  PROVE IInv' /\ Wired
<1>1. FileOK'
  BY DEF Grow, file, IInv, FileOK
<1>2. super \in Blk
  BY CacheConstants DEF Grow, IInv
<1> QED  BY <1>1, <1>2 DEF Grow, file, IInv, Pending, Request, Wired

(* What holds of the slot that takes the new block.                        *)
LEMMA Growing ==
  ASSUME IInv, pc = "fill", req.name = "grow"
  PROVE  /\ vic \in Slot /\ slots[vic].busy = FALSE
         /\ super \in Blk /\ super + 1 \in 2 .. NBLK
         /\ SlotsOK(slots) /\ FileOK /\ QueueOK(Move(lru, vic))
         /\ 1 \in 0 .. MaxWrites
  BY CacheConstants, MoveOK DEF IInv, Pending

LEMMA ExtendOK == ASSUME IInv, Extend  PROVE IInv' /\ Wired
<1> DEFINE s == Owner(Extended, super)
<1>1. /\ vic \in Slot /\ slots[vic].busy = FALSE
      /\ super \in Blk /\ super + 1 \in 2 .. NBLK
      /\ SlotsOK(slots) /\ FileOK /\ QueueOK(Move(lru, vic))
      /\ 1 \in 0 .. MaxWrites
  BY Growing DEF Extend
<1>2. \A x \in Slot : /\ Extended[x] \in SlotRec
                      /\ Extended[x].busy = slots[x].busy
                      /\ Extended[x].inmem = IF x = vic THEN super
                                             ELSE slots[x].inmem
  <2> HIDE DEF Slot, Blk, ZSUPER
  <2> QED  BY <1>1, ZenonT(40) DEF Extended, SlotsOK, SlotRec
<1>3. SlotsOK(Extended)
  <2>1. Extended \in [Slot -> SlotRec]
    BY <1>2 DEF Extended
  <2> QED  BY <1>1, <1>2, <2>1 DEF SlotsOK
<1>4. s \in Slot /\ Extended[s].inmem = super
  BY <1>1, <1>2, OwnerHas DEF Resident
<1> HIDE DEF s
<1>5. /\ WriteOk(NewDisk, Extended, s) /\ slots' = Clean(Extended, s)
      /\ Done /\ lru' = Move(lru, vic) /\ super' = super + 1 /\ smod' = TRUE
  BY DEF Extend, s
<1>6. NewDisk \in [Blk -> Rec]
  BY <1>1 DEF NewDisk, FileOK
<1>7. FileOK'
  BY <1>1, <1>3, <1>4, <1>5, <1>6, WriteOK
<1>8. SlotsOK(slots') /\ SameBlocks(Extended, slots')
  BY <1>3, <1>4, <1>5, CleanOK
<1>9. IInv'
  BY <1>1, <1>5, <1>7, <1>8, DoneOK
<1> QED  BY <1>1, <1>2, <1>8, <1>9 DEF Wired, SameBlocks

LEMMA ExtendFailsOK == ASSUME IInv, ExtendFails  PROVE IInv' /\ Wired
<1> DEFINE S == [slots EXCEPT ![vic].inmem = super, ![vic].writes = 1]
           s == Owner(S, super)
<1>1. /\ vic \in Slot /\ slots[vic].busy = FALSE
      /\ super \in Blk /\ super + 1 \in 2 .. NBLK
      /\ SlotsOK(slots) /\ FileOK /\ QueueOK(Move(lru, vic))
      /\ 1 \in 0 .. MaxWrites
  BY Growing DEF ExtendFails
<1>2. /\ S \in [Slot -> SlotRec] /\ S[vic].inmem = super
      /\ S[vic].busy = FALSE
      /\ \A x \in Slot \ {vic} : S[x] = slots[x]
  <2> HIDE DEF Slot, Blk, Rec
  <2> QED  BY <1>1 DEF SlotsOK, SlotRec
<1>3. slots' = Clean(S, s) /\ Done /\ lru' = Move(lru, vic)
  BY DEF ExtendFails
<1> HIDE DEF S, s
<1>4. SlotsOK(S)
  BY <1>1, <1>2 DEF SlotsOK
<1>5. s \in Slot
  BY <1>1, <1>2, OwnerHas DEF Resident, s
<1>6. SlotsOK(slots') /\ SameBlocks(S, slots')
  BY <1>3, <1>4, <1>5, CleanOK
<1>7. FileOK'
  BY <1>1, CacheConstants, SMTT(30) DEF ExtendFails, file, FileOK
<1>8. IInv'
  BY <1>1, <1>3, <1>6, <1>7, DoneOK DEF ExtendFails, file, IInv
<1> QED  BY <1>1, <1>2, <1>6, <1>8 DEF Wired, SameBlocks

----------------------------------------------------------------------------
(* btsync up to any slot.                                                  *)
LEMMA SavedOK ==
  ASSUME IInv, NEW n
  PROVE  /\ SavedUpTo(n) \in [Blk -> Rec]
         /\ SlotsOK(CleanUpTo(n)) /\ SameBlocks(slots, CleanUpTo(n))
<1>1. SlotsOK(slots) /\ FileOK
  BY DEF IInv
<1>2. SavedUpTo(n) \in [Blk -> Rec]
  <2> SUFFICES ASSUME NEW b \in Blk, Resident(slots, b)
               PROVE  slots[Owner(slots, b)].rec \in Rec
    BY <1>1 DEF SavedUpTo, FileOK
  <2>1. Owner(slots, b) \in Slot
    BY OwnerHas
  <2> QED  BY <1>1, <2>1 DEF SlotsOK, SlotRec
<1>3. 0 \in 0 .. MaxWrites
  BY CacheConstants
<1>4. \A x \in Slot : /\ CleanUpTo(n)[x] \in SlotRec
                      /\ CleanUpTo(n)[x].inmem = slots[x].inmem
                      /\ CleanUpTo(n)[x].busy = slots[x].busy
  <2> SUFFICES ASSUME NEW x \in Slot
               PROVE  /\ CleanUpTo(n)[x] \in SlotRec
                      /\ CleanUpTo(n)[x].inmem = slots[x].inmem
                      /\ CleanUpTo(n)[x].busy = slots[x].busy
    OBVIOUS
  <2>1. \/ CleanUpTo(n)[x] = slots[x]
        \/ CleanUpTo(n)[x] = [slots[x] EXCEPT !.writes = 0]
    BY DEF CleanUpTo
  <2>2. slots[x] \in SlotRec
    BY <1>1 DEF SlotsOK
  <2> HIDE DEF Slot, Blk, Rec
  <2> QED  BY <1>3, <2>1, <2>2 DEF SlotRec
<1>5. CleanUpTo(n) \in [Slot -> SlotRec]
  BY <1>4 DEF CleanUpTo
<1> QED  BY <1>1, <1>2, <1>4, <1>5 DEF SlotsOK, SameBlocks

LEMMA SyncOK == ASSUME IInv, Sync  PROVE IInv' /\ Wired
<1>1. FileOK'
  BY SavedOK DEF Sync, IInv, FileOK
<1>2. /\ SlotsOK(slots') /\ QueueOK(lru')
      /\ slots' = NoSlots \/ SameBlocks(slots, slots')
  BY SavedOK, NoSlotsOK, NewQueueOK DEF Sync, IInv
<1>3. pc' \in {"idle", "super"}
  BY DEF Sync
<1> QED
  BY <1>1, <1>2, <1>3 DEF Sync, IInv, Pending, Wired, SameBlocks

LEMMA SyncFailsOK == ASSUME IInv, SyncFails  PROVE IInv' /\ Wired
<1>1. PICK s \in Slot :
        /\ slots[s].inmem # NONE
        /\ disk' = SavedUpTo(s) /\ slots' = CleanUpTo(s + 1)
        /\ lost' = Mark(slots[s].inmem, "told")
  BY DEF SyncFails
<1>2. SlotsOK(slots) /\ FileOK
  BY DEF IInv
<1>3. slots[s].inmem \in Blk
  BY <1>1, <1>2 DEF SlotsOK, SlotRec
<1>4. lost' \in [Blk -> {"no", "told", "silent"}]
  BY <1>1, <1>2, <1>3, MarkOK
<1>5. disk' \in [Blk -> Rec] /\ SlotsOK(slots') /\ SameBlocks(slots, slots')
  BY <1>1, SavedOK
<1>6. FileOK'
  BY <1>2, <1>4, <1>5, CacheConstants DEF SyncFails, FileOK
<1> QED
  BY <1>5, <1>6 DEF SyncFails, IInv, Pending, Wired, SameBlocks

(* The requests that start with brdblk.                                    *)
LEMMA AskOK ==
  ASSUME IInv, NEW b \in Blk, NEW name \in Request \ {"grow"}, Ask(name, b)
  PROVE  IInv' /\ Wired
<1> DEFINE r == [name |-> name, blk |-> b]
<1>1. r \in [name : Request, blk : Blk \cup {NONE}] /\ r.blk \in Blk
      /\ r.name # "grow"
  OBVIOUS
<1>2. Hit(r) \/ Miss(r)
  BY DEF Ask
<1> HIDE DEF r
<1> QED  BY <1>1, <1>2, ReadOK

LEMMA BwrsupOK == ASSUME IInv, Bwrsup  PROVE IInv' /\ Wired
<1> DEFINE r == [name |-> "super", blk |-> ZSUPER]
<1>1. r \in [name : Request, blk : Blk \cup {NONE}] /\ r.blk \in Blk
      /\ r.name # "grow"
  BY CacheConstants DEF Request
<1>2. Hit(r) \/ Miss(r)
  BY DEF Bwrsup
<1> HIDE DEF r
<1> QED  BY <1>1, <1>2, ReadOK

----------------------------------------------------------------------------
LEMMA InitOK == Init => IInv
<1> SUFFICES ASSUME Init  PROVE IInv
  OBVIOUS
<1>1. FileOK
  BY CacheConstants DEF Init, FileOK
<1>2. SlotsOK(slots) /\ QueueOK(lru)
  BY NoSlotsOK, NewQueueOK DEF Init
<1>3. super \in 2 .. NBLK /\ smod \in BOOLEAN /\ turned \subseteq Slot
  <2>1. super \in 2 .. NBLK
    BY CacheConstants DEF Init
  <2>2. smod = FALSE /\ turned = {}
    BY DEF Init
  <2> QED  BY <2>1, <2>2
<1>4. req \in [name : Request, blk : Blk \cup {NONE}] /\ vic \in Slot \cup {NONE}
  BY DEF Init, NoReq, Request
<1>5. pc = "idle" /\ Pending
  BY DEF Init, Pending
<1> HIDE DEF Slot, Blk, NONE
<1> QED  BY <1>1, <1>2, <1>3, <1>4, <1>5 DEF IInv

LEMMA NextOK == IInv /\ [Next]_vars => IInv' /\ (Wired \/ UNCHANGED vars)
<1> SUFFICES ASSUME IInv, [Next]_vars
             PROVE  IInv' /\ (Wired \/ UNCHANGED vars)
  OBVIOUS
<1>1. CASE Client
  <2>1. CASE \E b \in Blk : \E name \in Request \ {"grow"} : Ask(name, b)
    BY <2>1, AskOK
  <2>2. CASE Grow \/ Sync \/ SyncFails
    BY <2>2, GrowOK, SyncOK, SyncFailsOK
  <2> QED
    BY <1>1, <2>1, <2>2 DEF Client, Get, Put, PutThrough, Wire, Unwire, Request
<1>2. CASE Work
  BY <1>2, FreeSlotOK, RotateOK, EvictOK, FillOK, FillFailsOK, ExtendOK,
     ExtendFailsOK, BwrsupOK DEF Work
<1>3. CASE UNCHANGED vars
  BY <1>3 DEF vars, IInv, FileOK, Pending
<1> QED  BY <1>1, <1>2, <1>3 DEF Next

(* The inductive invariant: besides the types, only the tail ends the      *)
(* queue, only a slot with a block is wired, and the slot that bgtslt has  *)
(* returned is not wired when brdblk or bgtfre fills it.                   *)
THEOREM CacheInductive == Spec => []IInv
<1>1. IInv /\ [Next]_vars => IInv'
  BY NextOK
<1> QED  BY <1>1, InitOK, PTL DEF Spec

(* Slots and blocks are indexed within their bounds by every sequence of   *)
(* requests and failures; in particular bqhead never finds an empty queue, *)
(* so that bgtslt always returns a slot.                                   *)
THEOREM CacheTypeCorrect == Spec => []CacheTypeOK
<1>1. IInv => CacheTypeOK
  BY DEF IInv, CacheTypeOK, FileOK, SlotsOK, SlotRec, QueueOK, Queue
<1> QED  BY <1>1, CacheInductive, PTL

(* No request, failure or growth of the file takes the slot of a wired     *)
(* block, for every number of slots.                                       *)
THEOREM WiredBlocksStay == Spec => WiredStays
<1>1. IInv /\ [Next]_vars =>
        [ \A s \in Slot : slots[s].busy => \/ slots'[s].inmem = slots[s].inmem
                                           \/ slots' = NoSlots ]_vars
  BY NextOK DEF Wired
<1> QED  BY <1>1, CacheInductive, PTL DEF Spec, WiredStays

----------------------------------------------------------------------------
(* The cache is a store.                                                   *)
(*                                                                         *)
(* The argument is about the copies of a block.  After a growth that       *)
(* failed two slots can have the same block: the first of them is the one  *)
(* that brdblk and bwrblk find.  When that one is replaced the next copy   *)
(* takes its part, so it must be right by then.  The order of the queue is *)
(* what makes it so: a copy that is out of date is ahead of the first one, *)
(* and bgtslt takes slots from the head.                                   *)

HIDE DEF NONE, ZSUPER, Slot, Blk, Rec

(* Slots and places correspond one to one.                                 *)
Inverses(p, a) ==
  /\ p \in [Slot -> Slot] /\ a \in [Slot -> Slot]
  /\ \A s \in Slot : a[p[s]] = s /\ p[a[s]] = s

(* p gives each slot its place in queue q, from 0 at the head, and a the   *)
(* slot at each place: following the links visits every slot once.         *)
Ranked(q, p, a) ==
  /\ Inverses(p, a)
  /\ p[q.h] = 0 /\ p[q.t] = NSLOT - 1
  /\ \A s \in Slot : s # q.t => p[q.nxt[s]] = p[s] + 1

(* The slot that a search for its block finds.                             *)
First(S, s) == \A r \in Slot : S[r].inmem = S[s].inmem => s <= r

(* The copy of block b in slot c is what was last written to b, and is not *)
(* lost when the slot is given up without a save.                          *)
Right(S, d, c, b) == S[c].rec = "last" /\ (S[c].writes # 0 \/ d[b] = "last")

(* Block b reads as last written, now and after any replacement: a copy is *)
(* right or ahead of the first copy in the queue, and the file is right    *)
(* when there is no copy.                                                  *)
Good(S, d, p, b) ==
  /\ ~Resident(S, b) => d[b] = "last"
  /\ \A s, c \in Slot : First(S, s) /\ S[s].inmem = b /\ S[c].inmem = b =>
       Right(S, d, c, b) \/ p[c] < p[s]

(* The blocks this is claimed of: those of the file that no failure has    *)
(* touched, and the superblock while smod says it is as in the file.       *)
Tracked(b) == b < super /\ lost[b] = "no" /\ (b = ZSUPER => ~smod)

AllGood(S, d, p) == \A b \in Blk : Tracked(b) => Good(S, d, p, b)

(* A slot never has a block past the next one the file will get, and that  *)
(* one, left by a growth that failed, is not wired; of the copies of a     *)
(* block only the first is wired.                                          *)
CopiesOK(S) ==
  \A s \in Slot : /\ S[s].inmem <= super
                  /\ S[s].busy => S[s].inmem # super /\ First(S, s)

(* Some slot is not wired, and one more than that when a wire is pending.  *)
Room(S) ==
  /\ \E s \in Slot : ~S[s].busy
  /\ pc \in {"slot", "fill"} /\ req.name = "wire" =>
       \A s \in Slot : \E r \in Slot \ {s} : ~S[r].busy

(* The slots bqhead has moved are wired and at the end of the queue.       *)
TurnedOK(S, p) ==
  /\ pc \notin {"slot", "fill"} => turned = {}
  /\ pc = "slot" => \A s \in turned : /\ S[s].busy
                                      /\ \A r \in Slot \ turned : p[r] < p[s]

(* The block asked for is in the file and not in memory; the slot bgtslt   *)
(* has returned was empty, or at the head with its block saved.            *)
AskedOK ==
  /\ pc \in {"slot", "fill"} /\ req.name # "grow" =>
       /\ req.blk < super /\ ~Resident(slots, req.blk)
       /\ req.name = "super" => req.blk = ZSUPER
  /\ pc = "fill" /\ slots[vic].inmem # NONE =>
       /\ vic = lru.h
       /\ \A s \in Slot : First(slots, s) /\ slots[s].inmem = slots[vic].inmem
                            => slots[s].writes = 0

(* Once btsync has saved the slots every block is right in the file.       *)
Saved == \A b \in 1 .. super - 1 : lost[b] = "no" => disk[b] = "last"
SyncedOK ==
  \/ pc = "super"
  \/ pc \in {"slot", "fill"} /\ req.name = "super"
  => Saved

CInv ==
  /\ CopiesOK(slots) /\ Room(slots) /\ AskedOK /\ SyncedOK
  /\ \E p, a \in [Slot -> Slot] :
       Ranked(lru, p, a) /\ TurnedOK(slots, p) /\ AllGood(slots, disk, p)

----------------------------------------------------------------------------
(* The places of the slots after bqmove of slot s, and their slots.        *)
Shift(p, s) ==
  [r \in Slot |-> IF r = s THEN NSLOT - 1
                  ELSE IF p[r] > p[s] THEN p[r] - 1 ELSE p[r]]
ShiftAt(a, n) ==
  [i \in Slot |-> IF i = NSLOT - 1 THEN a[n]
                  ELSE IF i >= n THEN a[i + 1] ELSE a[i]]

(* Two slots have two places.                                              *)
LEMMA RankOneToOne ==
  ASSUME NEW q, NEW p, NEW a, Ranked(q, p, a),
         NEW r \in Slot, NEW s \in Slot, p[r] = p[s]
  PROVE  r = s
  BY DEF Ranked, Inverses

(* bqmove keeps the order of all slots but the one it moves, which comes   *)
(* last.                                                                   *)
LEMMA ShiftOrder ==
  ASSUME NEW q, NEW p, NEW a, Ranked(q, p, a), NEW s \in Slot
  PROVE  /\ Shift(p, s)[s] = NSLOT - 1
         /\ \A r \in Slot \ {s} : Shift(p, s)[r] < Shift(p, s)[s]
         /\ \A r, t \in Slot \ {s} :
              p[r] < p[t] <=> Shift(p, s)[r] < Shift(p, s)[t]
<1>1. p \in [Slot -> Slot] /\ \A r \in Slot \ {s} : p[r] # p[s]
  BY RankOneToOne DEF Ranked, Inverses
<1>2. \A r \in Slot : p[r] \in Int /\ p[r] >= 0 /\ p[r] <= NSLOT - 1
  BY <1>1, CacheConstants DEF Slot
<1>3. \A r \in Slot : Shift(p, s)[r] = IF r = s THEN NSLOT - 1
                        ELSE IF p[r] > p[s] THEN p[r] - 1 ELSE p[r]
  BY DEF Shift
<1>4. \A r \in Slot \ {s} : Shift(p, s)[r] < NSLOT - 1
  BY <1>1, <1>2, <1>3, CacheConstants
<1>5. \A r, t \in Slot \ {s} :
        p[r] < p[t] <=> Shift(p, s)[r] < Shift(p, s)[t]
  <2> SUFFICES ASSUME NEW r \in Slot \ {s}, NEW t \in Slot \ {s}
               PROVE  p[r] < p[t] <=> Shift(p, s)[r] < Shift(p, s)[t]
    OBVIOUS
  <2>1. /\ p[r] \in Int /\ p[t] \in Int /\ p[s] \in Int
        /\ p[r] # p[s] /\ p[t] # p[s]
    BY <1>1, <1>2
  <2> QED  BY <1>3, <2>1
<1> QED  BY <1>3, <1>4, <1>5

LEMMA ShiftInverse ==
  ASSUME NEW q, NEW p, NEW a, Ranked(q, p, a), NEW s \in Slot
  PROVE  Inverses(Shift(p, s), ShiftAt(a, p[s]))
<1> DEFINE n == p[s]  P == Shift(p, s)  A == ShiftAt(a, n)
<1>1. /\ p \in [Slot -> Slot] /\ a \in [Slot -> Slot] /\ n \in Slot
      /\ \A r \in Slot : a[p[r]] = r /\ p[a[r]] = r
      /\ NSLOT \in Nat /\ NSLOT >= 3
  BY CacheConstants DEF Ranked, Inverses
<1>2. \A r \in Slot : /\ p[r] \in Int /\ 0 <= p[r] /\ p[r] < NSLOT
                      /\ r # s => p[r] # n
  <2> SUFFICES ASSUME NEW r \in Slot
               PROVE  /\ p[r] \in Int /\ 0 <= p[r] /\ p[r] < NSLOT
                      /\ r # s => p[r] # n
    OBVIOUS
  <2>1. p[r] \in Slot
    BY <1>1
  <2>2. p[r] = n => r = s
    BY RankOneToOne
  <2>3. p[r] \in Int /\ 0 <= p[r] /\ p[r] < NSLOT
    BY <1>1, <2>1 DEF Slot
  <2> QED  BY <2>2, <2>3
<1>3. \A r \in Slot : P[r] = IF r = s THEN NSLOT - 1
                             ELSE IF p[r] > n THEN p[r] - 1 ELSE p[r]
  BY DEF Shift
<1>4. \A i \in Slot : A[i] = IF i = NSLOT - 1 THEN s
                             ELSE IF i >= n THEN a[i + 1] ELSE a[i]
  BY <1>1 DEF ShiftAt
<1>5. P \in [Slot -> Slot]
  <2>1. ASSUME NEW r \in Slot  PROVE P[r] \in Slot
    <3> HIDE DEF P, n
    <3>1. /\ p[r] \in Int /\ 0 <= p[r] /\ p[r] < NSLOT
          /\ n \in Int /\ 0 <= n
      BY <1>1, <1>2 DEF Slot
    <3>2. P[r] \in Int /\ 0 <= P[r] /\ P[r] <= NSLOT - 1
      BY <1>1, <1>3, <3>1
    <3> QED  BY <3>2 DEF Slot
  <2> QED  BY <2>1 DEF Shift
<1>6. A \in [Slot -> Slot]
  <2>1. \A i \in Slot : i # NSLOT - 1 => i + 1 \in Slot
    BY CacheConstants DEF Slot
  <2>2. \A i \in Slot : A[i] \in Slot
    BY <1>1, <1>4, <2>1
  <2> QED  BY <2>2 DEF ShiftAt
<1> HIDE DEF n, P, A
<1>7. ASSUME NEW r \in Slot  PROVE A[P[r]] = r
  <2>1. P[r] \in Slot
    BY <1>5
  <2>2. CASE r = s
    BY <1>3, <1>4, <2>1, <2>2
  <2>3. CASE r # s /\ p[r] > n
    <3>1. P[r] = p[r] - 1 /\ p[r] \in Int /\ p[r] < NSLOT /\ n \in Int
      BY <1>1, <1>2, <1>3, <2>3 DEF Slot
    <3>2. P[r] # NSLOT - 1 /\ P[r] >= n /\ P[r] + 1 = p[r]
      BY <1>1, <2>3, <3>1
    <3> QED  BY <1>1, <1>4, <2>1, <3>2
  <2>4. CASE r # s /\ ~(p[r] > n)
    <3>1. P[r] = p[r] /\ p[r] \in Int /\ n \in Int /\ p[r] # n /\ n < NSLOT
      BY <1>1, <1>2, <1>3, <2>4 DEF Slot
    <3>2. P[r] # NSLOT - 1 /\ ~(P[r] >= n)
      BY <1>1, <2>4, <3>1
    <3> QED  BY <1>1, <1>4, <2>1, <3>1, <3>2
  <2> QED  BY <2>2, <2>3, <2>4
<1>8. ASSUME NEW i \in Slot  PROVE P[A[i]] = i
  <2>1. i \in Int /\ 0 <= i /\ i < NSLOT /\ n \in Int /\ 0 <= n /\ n < NSLOT
    BY <1>1, <1>2 DEF Slot
  <2>2. CASE i = NSLOT - 1
    BY <1>3, <1>4, <2>2
  <2>3. CASE i # NSLOT - 1 /\ i >= n
    <3>1. i + 1 \in Slot
      BY <1>1, <2>1, <2>3 DEF Slot
    <3> DEFINE x == a[i + 1]
    <3>2. A[i] = x /\ x \in Slot /\ p[x] = i + 1
      BY <1>1, <1>4, <2>3, <3>1
    <3> HIDE DEF x
    <3>3. x # s
      BY <2>1, <2>3, <3>2 DEF n
    <3>4. P[x] = p[x] - 1
      BY <1>3, <2>1, <2>3, <3>2, <3>3
    <3> QED  BY <2>1, <3>2, <3>4
  <2>4. CASE i # NSLOT - 1 /\ ~(i >= n)
    <3> DEFINE x == a[i]
    <3>1. A[i] = x /\ x \in Slot /\ p[x] = i
      BY <1>1, <1>4, <2>4
    <3> HIDE DEF x
    <3>2. x # s
      BY <2>1, <2>4, <3>1 DEF n
    <3>3. P[x] = p[x]
      BY <1>3, <2>1, <2>4, <3>1, <3>2
    <3> QED  BY <3>1, <3>3
  <2> QED  BY <2>2, <2>3, <2>4
<1>9. P = Shift(p, s) /\ A = ShiftAt(a, p[s])
  BY DEF P, A, n
<1>10. Inverses(P, A)
  BY <1>5, <1>6, <1>7, <1>8 DEF Inverses
<1> QED  BY <1>9, <1>10

(* bqmove keeps every slot in the queue once.                              *)
LEMMA MoveRanked ==
  ASSUME NEW q, QueueOK(q), NEW p, NEW a, Ranked(q, p, a), NEW s \in Slot
  PROVE  Ranked(Move(q, s), Shift(p, s), ShiftAt(a, p[s]))
<1>8. Inverses(Shift(p, s), ShiftAt(a, p[s]))
  BY ShiftInverse
<1> DEFINE m == Move(q, s)  P == Shift(p, s)
<1>1. /\ p \in [Slot -> Slot] /\ NSLOT \in Nat /\ NSLOT >= 3
      /\ q.h \in Slot /\ q.t \in Slot /\ p[q.h] = 0 /\ p[q.t] = NSLOT - 1
      /\ \A r \in Slot : r # q.t => q.nxt[r] \in Slot /\ p[q.nxt[r]] = p[r] + 1
  BY CacheConstants DEF Ranked, Inverses, QueueOK, Queue
<1>2. \A r \in Slot : p[r] \in Int /\ 0 <= p[r] /\ p[r] <= NSLOT - 1
  BY <1>1 DEF Slot
<1>3. \A r, t \in Slot : p[r] = p[t] => r = t
  BY RankOneToOne
<1>4. \A r \in Slot : P[r] = IF r = s THEN NSLOT - 1
                             ELSE IF p[r] > p[s] THEN p[r] - 1 ELSE p[r]
  BY DEF Shift
<1>5. P[m.h] = 0
  <2>1. CASE s = q.t
    BY <1>1, <1>2, <1>4, <2>1 DEF Move
  <2>2. CASE s # q.t /\ s = q.h
    <3>1. m.h = q.nxt[s] /\ q.nxt[s] \in Slot /\ p[q.nxt[s]] = 1 /\ p[s] = 0
      BY <1>1, <2>2 DEF Move
    <3> QED  BY <1>4, <3>1
  <2>3. CASE s # q.t /\ s # q.h
    <3>1. m.h = q.h
      BY <2>3 DEF Move
    <3> QED  BY <1>1, <1>2, <1>4, <2>3, <3>1
  <2> QED  BY <2>1, <2>2, <2>3
<1>6. P[m.t] = NSLOT - 1
  BY <1>4 DEF Move
<1>7. ASSUME NEW r \in Slot, r # m.t  PROVE P[m.nxt[r]] = P[r] + 1
  <2>0. m.t = s
    BY DEF Move
  <2>1. CASE s = q.t
    <3>1. m = q /\ r # q.t
      BY <1>7, <2>0, <2>1 DEF Move
    <3>2. q.nxt[r] \in Slot /\ p[q.nxt[r]] = p[r] + 1 /\ p[r] < NSLOT - 1
      BY <1>1, <1>2, <1>3, <3>1
    <3> QED  BY <1>1, <1>2, <1>4, <2>1, <3>1, <3>2
  <2>2. CASE s # q.t
    <3>1. m.nxt[r] = IF r = q.t THEN s
                     ELSE IF q.nxt[r] = s THEN q.nxt[s] ELSE q.nxt[r]
      BY <1>7, <2>0, <2>2 DEF Move
    <3>2. r # s /\ p[r] # p[s] /\ p[s] < NSLOT - 1 /\ p[s] \in Int
      BY <1>1, <1>2, <1>3, <1>7, <2>0, <2>2
    <3>3. CASE r = q.t
      BY <1>1, <1>4, <3>1, <3>2, <3>3
    <3>4. CASE r # q.t /\ q.nxt[r] = s
      <4>1. /\ p[s] = p[r] + 1 /\ q.nxt[s] \in Slot /\ p[q.nxt[s]] = p[s] + 1
            /\ m.nxt[r] = q.nxt[s] /\ p[r] \in Int
        BY <1>1, <1>2, <2>2, <3>1, <3>4
      <4>2. P[q.nxt[s]] = p[s] /\ P[r] = p[r]
        BY <1>4, <3>2, <4>1
      <4> QED  BY <4>1, <4>2
    <3>5. CASE r # q.t /\ q.nxt[r] # s
      <4> DEFINE t == q.nxt[r]
      <4>1. /\ t \in Slot /\ p[t] = p[r] + 1 /\ p[t] # p[s]
            /\ m.nxt[r] = t /\ p[r] \in Int
        BY <1>1, <1>2, <1>3, <3>1, <3>5
      <4> HIDE DEF t
      <4>2. P[t] = P[r] + 1
        BY <1>4, <3>2, <3>5, <4>1
      <4> QED  BY <4>1, <4>2
    <3> QED  BY <3>3, <3>4, <3>5
  <2> QED  BY <2>1, <2>2
<1> HIDE DEF m, P
<1> QED  BY <1>5, <1>6, <1>7, <1>8 DEF Ranked, m, P

LEMMA NewQueueRanked ==
  Ranked(NewQueue, [s \in Slot |-> s], [s \in Slot |-> s])
<1>1. /\ NewQueue.h = 0 /\ NewQueue.t = NSLOT - 1
      /\ 0 \in Slot /\ NSLOT - 1 \in Slot
  BY CacheConstants DEF NewQueue, Slot
<1>2. \A s \in Slot : s # NSLOT - 1 =>
        NewQueue.nxt[s] = s + 1 /\ s + 1 \in Slot
  BY CacheConstants DEF NewQueue, Slot
<1> QED  BY <1>1, <1>2 DEF Ranked, Inverses

----------------------------------------------------------------------------
(* The search for a block and the first slot that has it.                  *)
LEMMA OwnerIsFirst ==
  ASSUME NEW S, NEW b, Resident(S, b)
  PROVE  /\ Owner(S, b) \in Slot /\ S[Owner(S, b)].inmem = b
         /\ First(S, Owner(S, b))
  BY OwnerHas DEF First

LEMMA FirstIsOwner ==
  ASSUME NEW S, NEW s \in Slot, First(S, s)
  PROVE  Resident(S, S[s].inmem) /\ Owner(S, S[s].inmem) = s
<1> DEFINE o == Owner(S, S[s].inmem)
<1>1. Resident(S, S[s].inmem)
  BY DEF Resident
<1>2. o \in Slot /\ S[o].inmem = S[s].inmem /\ o <= s
  BY <1>1, OwnerHas
<1> HIDE DEF o
<1>3. s <= o
  BY <1>2 DEF First
<1>4. o \in Int /\ s \in Int
  BY <1>2, CacheConstants DEF Slot
<1>5. o = s
  BY <1>2, <1>3, <1>4
<1> QED  BY <1>1, <1>5 DEF o

(* Two first slots of a block are one.                                     *)
LEMMA FirstOnce ==
  ASSUME NEW S, NEW s \in Slot, NEW r \in Slot, First(S, s), First(S, r),
         S[s].inmem = S[r].inmem
  PROVE  s = r
<1>1. s <= r /\ r <= s /\ s \in Int /\ r \in Int
  BY CacheConstants DEF First, Slot
<1> QED  BY <1>1

(* A step that changes no slot's block and makes no copy of b wrong.       *)
LEMMA KeepGood ==
  ASSUME NEW S, NEW d, NEW p, NEW b, Good(S, d, p, b),
         NEW T, NEW e, NEW P,
         \A c \in Slot : T[c].inmem = b <=> S[c].inmem = b,
         \A c \in Slot :
           S[c].inmem = b /\ Right(S, d, c, b) => Right(T, e, c, b),
         ~Resident(S, b) /\ d[b] = "last" => e[b] = "last",
         \A s, c \in Slot : /\ First(S, s) /\ S[s].inmem = b /\ S[c].inmem = b
                            /\ p[c] < p[s]
                            => P[c] < P[s]
  PROVE  Good(T, e, P, b)
<1>1. Resident(T, b) <=> Resident(S, b)
  BY DEF Resident
<1>2. ASSUME NEW s \in Slot, NEW c \in Slot,
             First(T, s), T[s].inmem = b, T[c].inmem = b
      PROVE  Right(T, e, c, b) \/ P[c] < P[s]
  <2>1. First(S, s) /\ S[s].inmem = b /\ S[c].inmem = b
    BY <1>2 DEF First
  <2> QED  BY <2>1 DEF Good
<1> QED  BY <1>1, <1>2 DEF Good

(* Slot v can be given up as far as block b goes: it does not have it, or  *)
(* is at the head and the block is saved.                                  *)
MayLeave(S, p, v, b) ==
  S[v].inmem = b =>
    /\ p[v] = 0
    /\ \A s \in Slot : First(S, s) /\ S[s].inmem = b => S[s].writes = 0

(* The slots but v have the blocks they had, and b as it was.              *)
SameElsewhere(S, T, v, b) ==
  \A c \in Slot \ {v} :
     /\ T[c].inmem = S[c].inmem
     /\ S[c].inmem = b => T[c].rec = S[c].rec /\ T[c].writes = S[c].writes

(* The slot at the head, empty or with a block that is saved, gets another *)
(* block: what it had reads as before.                                     *)
LEMMA LeaveGood ==
  ASSUME NEW S, NEW d, NEW p \in [Slot -> Slot], NEW b, Good(S, d, p, b),
         NEW T, NEW e, NEW v \in Slot,
         T[v].inmem # b, e[b] = d[b],
         SameElsewhere(S, T, v, b), MayLeave(S, p, v, b)
  PROVE  Good(T, e, p, b)
<1> USE DEF SameElsewhere, MayLeave
<1>1. CASE S[v].inmem # b
  BY <1>1, KeepGood DEF Right
<1>2. CASE S[v].inmem = b
  <2> DEFINE o == Owner(S, b)
  <2>1. Resident(S, b)
    BY <1>2 DEF Resident
  <2>2. o \in Slot /\ S[o].inmem = b /\ First(S, o)
    BY <2>1, OwnerIsFirst
  <2> HIDE DEF o
  <2>3. \A c \in Slot : p[c] \in Int /\ p[c] >= 0
    BY DEF Slot
  <2>4. Right(S, d, o, b)
    <3>1. ~(p[o] < p[o])
      BY <2>2, <2>3
    <3> QED  BY <2>2, <3>1 DEF Good
  <2>5. d[b] = "last"
    BY <1>2, <2>2, <2>4 DEF Right
  <2>6. ASSUME NEW s \in Slot, NEW c \in Slot,
               First(T, s), T[s].inmem = b, T[c].inmem = b
        PROVE  Right(T, e, c, b) \/ p[c] < p[s]
    <3>1. c # v /\ s # v /\ S[c].inmem = b /\ S[s].inmem = b
      BY <2>6
    <3>2. Right(S, d, c, b) \/ p[c] < p[o]
      BY <2>2, <3>1 DEF Good
    <3>3. Right(S, d, c, b) => Right(T, e, c, b)
      BY <2>5, <3>1 DEF Right
    <3>4. CASE o = v
      BY <1>2, <2>3, <3>2, <3>3, <3>4
    <3>5. CASE o # v
      <4>1. T[o].inmem = b
        BY <2>2, <3>5
      <4>2. s <= o /\ o <= s /\ s \in Int /\ o \in Int
        BY <2>2, <2>6, <3>1, <4>1, CacheConstants DEF First, Slot
      <4>3. s = o
        BY <4>2
      <4> QED  BY <3>2, <3>3, <4>3
    <3> QED  BY <3>4, <3>5
  <2> QED  BY <2>5, <2>6 DEF Good
<1> QED  BY <1>1, <1>2

(* The first slot of a block is used or changed and goes to the tail: all  *)
(* other copies are ahead of it, and other blocks keep their order.        *)
LEMMA ServedGood ==
  ASSUME NEW q, NEW p, NEW a, Ranked(q, p, a), NEW s \in Slot,
         NEW S, NEW d, First(S, s), NEW T, NEW e, NEW b,
         \A c \in Slot : T[c].inmem = S[c].inmem,
         \A c \in Slot : S[c].inmem # S[s].inmem =>
            T[c].rec = S[c].rec /\ T[c].writes = S[c].writes,
         b # S[s].inmem => Good(S, d, p, b) /\ e[b] = d[b],
         b = S[s].inmem => Right(T, e, s, b)
  PROVE  Good(T, e, Shift(p, s), b)
<1>1. CASE b = S[s].inmem
  <2>1. Resident(T, b)
    BY <1>1 DEF Resident
  <2>2. ASSUME NEW r \in Slot, NEW c \in Slot,
               First(T, r), T[r].inmem = b, T[c].inmem = b
        PROVE  Right(T, e, c, b) \/ Shift(p, s)[c] < Shift(p, s)[r]
    <3>1. First(S, r) /\ S[r].inmem = S[s].inmem
      BY <1>1, <2>2 DEF First
    <3>2. r = s
      BY <3>1, FirstOnce
    <3>3. CASE c = s
      BY <1>1, <3>3
    <3>4. CASE c # s
      BY <3>2, <3>4, ShiftOrder
    <3> QED  BY <3>3, <3>4
  <2> QED  BY <2>1, <2>2 DEF Good
<1>2. CASE b # S[s].inmem
  <2>1. \A c \in Slot : S[c].inmem = b /\ Right(S, d, c, b) => Right(T, e, c, b)
    BY <1>2 DEF Right
  <2>2. \A r, c \in Slot : /\ First(S, r) /\ S[r].inmem = b /\ S[c].inmem = b
                           /\ p[c] < p[r]
                           => Shift(p, s)[c] < Shift(p, s)[r]
    BY <1>2, ShiftOrder
  <2> QED  BY <1>2, <2>1, <2>2, KeepGood
<1> QED  BY <1>1, <1>2

(* What bwrblk and a change leave of a slot.                               *)
LEMMA CleanIs ==
  ASSUME NEW S, SlotsOK(S), NEW s \in Slot, NEW c \in Slot
  PROVE  /\ Clean(S, s)[c].inmem = S[c].inmem /\ Clean(S, s)[c].rec = S[c].rec
         /\ Clean(S, s)[c].busy = S[c].busy
         /\ Clean(S, s)[c].writes = IF c = s THEN 0 ELSE S[c].writes
  BY DEF Clean, SlotsOK, SlotRec

LEMMA WithIs ==
  ASSUME NEW S, SlotsOK(S), NEW s \in Slot, NEW c \in Slot
  PROVE  /\ With(S, s)[c].inmem = S[c].inmem /\ With(S, s)[c].busy = S[c].busy
         /\ S[c].inmem # S[s].inmem => /\ With(S, s)[c].rec = S[c].rec
                                       /\ With(S, s)[c].writes = S[c].writes
         /\ With(S, s)[s].rec = "last" /\ With(S, s)[s].writes # 0
<1>1. Outdated(S, S[s].inmem) \in [Slot -> SlotRec]
  BY DEF SlotsOK, SlotRec, Outdated, Rec
<1>2. /\ Outdated(S, S[s].inmem)[c].inmem = S[c].inmem
      /\ Outdated(S, S[s].inmem)[c].busy = S[c].busy
      /\ S[c].inmem # S[s].inmem => Outdated(S, S[s].inmem)[c] = S[c]
  BY DEF SlotsOK, SlotRec, Outdated
<1>3. Count(S[s].writes) # 0
  BY CacheConstants DEF Count, SlotsOK, SlotRec
<1> DEFINE O == Outdated(S, S[s].inmem)
<1> HIDE DEF O
<1> QED  BY <1>1, <1>2, <1>3 DEF With, SlotRec, O

----------------------------------------------------------------------------
LEMMA StepCoherent ==
  ASSUME CopiesOK(slots)', Room(slots)', AskedOK', SyncedOK',
         NEW p, NEW a, Ranked(lru', p, a), TurnedOK(slots, p)',
         \A b \in Blk : Tracked(b)' => Good(slots', disk', p, b)
  PROVE  CInv'
<1>1. p \in [Slot -> Slot] /\ a \in [Slot -> Slot]
  BY DEF Ranked, Inverses
<1>2. AllGood(slots, disk, p)'
  BY DEF AllGood
<1>3. Ranked(lru, p, a)'
  OBVIOUS
<1>4. \E x, y \in [Slot -> Slot] :
         (Ranked(lru, x, y) /\ TurnedOK(slots, x) /\ AllGood(slots, disk, x))'
  BY <1>1, <1>2, <1>3
<1> QED  BY <1>4 DEF CInv

(* The end of a request, or of a btsync that keeps the slots.              *)
LEMMA DoneCoherent ==
  ASSUME pc' = "idle", turned' = {},
         CopiesOK(slots)', \E s \in Slot : ~slots'[s].busy,
         NEW p, NEW a, Ranked(lru', p, a),
         \A b \in Blk : Tracked(b)' => Good(slots', disk', p, b)
  PROVE  CInv'
<1>1. Room(slots)' /\ AskedOK' /\ SyncedOK' /\ TurnedOK(slots, p)'
  BY DEF Room, AskedOK, SyncedOK, TurnedOK
<1> QED  BY <1>1, StepCoherent

(* The slots are empty and the file is right.                              *)
LEMMA EmptyCoherent ==
  ASSUME pc' = "idle", turned' = {}, slots' = NoSlots, lru' = NewQueue,
         super' \in Nat,
         \A b \in Blk : Tracked(b)' => disk'[b] = "last"
  PROVE  CInv'
<1>1. \A x \in Slot : slots'[x].inmem = NONE /\ slots'[x].busy = FALSE
  BY DEF NoSlots, EmptySlot
<1>2. CopiesOK(slots)' /\ \E x \in Slot : ~slots'[x].busy
  <2>1. 0 \in Slot /\ NONE <= super' /\ NONE # super'
    BY CacheConstants DEF Slot, NONE
  <2> QED  BY <1>1, <2>1 DEF CopiesOK
<1>3. ASSUME NEW b \in Blk, Tracked(b)'
      PROVE  Good(slots', disk', [x \in Slot |-> x], b)
  <2>1. b # NONE
    BY CacheConstants DEF Blk, NONE
  <2> QED  BY <1>1, <1>3, <2>1 DEF Good
<1> QED  BY <1>2, <1>3, NewQueueRanked, DoneCoherent

(* What brdblk's caller does with the first slot that has its block.       *)
LEMMA ServeCoherent ==
  ASSUME IInv, NEW r, r.blk \in Blk, r.blk < super, NEW S, SlotsOK(S),
         NEW s \in Slot, S[s].inmem = r.blk, First(S, s), CopiesOK(S),
         \E x \in Slot : ~S[x].busy,
         r.name = "wire" => \E x \in Slot \ {s} : ~S[x].busy,
         r.name = "super" => r.blk = ZSUPER /\ Saved,
         NEW p, NEW a, Ranked(lru, p, a), AllGood(S, disk, p),
         Serve(r, S, s)
  PROVE  CInv'
<1> DEFINE C == With(S, s)
<1>1. /\ FileOK /\ QueueOK(lru) /\ super \in Int /\ MaxWrites \in Nat
      /\ p \in [Slot -> Slot]
      /\ Ranked(Move(lru, s), Shift(p, s), ShiftAt(a, p[s]))
  <2>1. FileOK /\ QueueOK(lru) /\ super \in Int /\ MaxWrites \in Nat
    BY CacheConstants DEF IInv
  <2>2. p \in [Slot -> Slot]
    BY DEF Ranked, Inverses
  <2>3. Ranked(Move(lru, s), Shift(p, s), ShiftAt(a, p[s]))
    BY <2>1, MoveRanked
  <2> QED  BY <2>1, <2>2, <2>3
<1>2. SlotsOK(C)
  BY WithOK
<1>3. /\ \A c \in Slot : /\ C[c].inmem = S[c].inmem /\ C[c].busy = S[c].busy
                         /\ S[c].inmem # r.blk => /\ C[c].rec = S[c].rec
                                                   /\ C[c].writes = S[c].writes
      /\ C[s].rec = "last" /\ C[s].writes # 0
  BY WithIs
<1>4. /\ \A c \in Slot :
              /\ Clean(C, s)[c].inmem = S[c].inmem
              /\ Clean(C, s)[c].busy = S[c].busy
              /\ S[c].inmem # r.blk => /\ Clean(C, s)[c].rec = S[c].rec
                                        /\ Clean(C, s)[c].writes = S[c].writes
      /\ Clean(C, s)[s].rec = "last"
  BY <1>2, <1>3, CleanIs
<1> HIDE DEF C
<1>5. pc' = "idle" /\ turned' = {} /\ super' = super
  BY DEF Serve, Done, Used, Altered, SuperOut, file
<1>6. \A b \in Blk : Tracked(b) => Good(S, disk, p, b)
  BY DEF AllGood
<1>7. p[s] \in Int
  BY <1>1, CacheConstants DEF Slot
<1>8. CASE Used(r, S, s) /\ lru' = Move(lru, s)
  <2>1. disk' = disk /\ \A b : Tracked(b)' <=> Tracked(b)
    BY <1>8 DEF Used, file, Tracked
  <2>2. \A c \in Slot :
          /\ slots'[c].inmem = S[c].inmem /\ slots'[c].rec = S[c].rec
          /\ slots'[c].writes = S[c].writes
          /\ slots'[c].busy => S[c].busy \/ (c = s /\ r.name = "wire")
    <3>1. CASE slots' = S
      BY <3>1
    <3>2. CASE slots' = [S EXCEPT ![s].busy = (r.name = "wire")]
      BY <3>2 DEF SlotsOK, SlotRec
    <3> QED  BY <1>8, <3>1, <3>2 DEF Used
  <2>3. CopiesOK(slots)'
    <3>1. S[s].inmem # super
      BY <1>1, CacheConstants DEF Blk
    <3>2. \A c \in Slot : First(S, c) => First(slots', c)
      BY <2>2 DEF First
    <3> QED  BY <1>5, <2>2, <3>1, <3>2 DEF CopiesOK
  <2>4. \E x \in Slot : ~slots'[x].busy
    BY <2>2
  <2>5. ASSUME NEW b \in Blk, Tracked(b)'
        PROVE  Good(slots', disk', Shift(p, s), b)
    <3>1. Good(S, disk, p, b)
      BY <1>6, <2>1, <2>5
    <3>2. b = S[s].inmem => Right(slots', disk', s, b)
      BY <1>7, <2>1, <2>2, <3>1 DEF Good, Right
    <3> QED  BY <1>1, <2>1, <2>2, <3>1, <3>2, ServedGood
  <2> QED  BY <1>1, <1>5, <1>8, <2>3, <2>4, <2>5, DoneCoherent
<1>9. ASSUME slots' = C \/ slots' = Clean(C, s)
      PROVE  CopiesOK(slots)' /\ \E x \in Slot : ~slots'[x].busy
  <2>1. \A c \in Slot : /\ slots'[c].inmem = S[c].inmem
                        /\ slots'[c].busy = S[c].busy
    BY <1>3, <1>4, <1>9
  <2> QED  BY <1>5, <2>1 DEF CopiesOK, First
<1>10. CASE Altered(r, S, s) /\ lru' = Move(lru, s)
  <2> DEFINE O == OldDisk(r.blk)
  <2>1. \A b \in Blk : O[b] = IF b = r.blk THEN "other" ELSE disk[b]
    BY <1>1 DEF OldDisk, FileOK
  <2>2. smod' = smod
    BY <1>10 DEF Altered
  <2>3. CASE slots' = C /\ disk' = O /\ UNCHANGED <<fails, lost>>
    <3>1. ASSUME NEW b \in Blk, Tracked(b)'
          PROVE  Good(slots', disk', Shift(p, s), b)
      <4>1. Tracked(b)
        BY <1>5, <2>2, <2>3, <3>1 DEF Tracked
      <4>2. b = S[s].inmem => Right(slots', disk', s, b)
        BY <1>3, <2>3 DEF Right
      <4> QED  BY <1>1, <1>3, <1>6, <2>1, <2>3, <4>1, <4>2, ServedGood
    <3> QED  BY <1>1, <1>5, <1>9, <1>10, <2>3, <3>1, DoneCoherent
  <2>4. CASE slots' = Clean(C, s) /\ WriteOk(O, C, s)
    <3>1. /\ lost' = lost
          /\ \A b \in Blk : disk'[b] = IF b = r.blk THEN "last" ELSE disk[b]
      BY <1>1, <1>3, <2>1, <2>4 DEF WriteOk, OldDisk, FileOK
    <3>2. ASSUME NEW b \in Blk, Tracked(b)'
          PROVE  Good(slots', disk', Shift(p, s), b)
      <4>1. Tracked(b)
        BY <1>5, <2>2, <3>1, <3>2 DEF Tracked
      <4>2. b = S[s].inmem => Right(slots', disk', s, b)
        BY <1>4, <2>4, <3>1 DEF Right
      <4> QED  BY <1>1, <1>4, <1>6, <2>4, <3>1, <4>1, <4>2, ServedGood
    <3> QED  BY <1>1, <1>5, <1>9, <1>10, <2>4, <3>2, DoneCoherent
  <2>5. CASE slots' = Clean(C, s) /\ WriteFails(O, C, s, "silent")
    <3>1. /\ disk' = O
          /\ \A b \in Blk : lost'[b] = "no" => b # r.blk /\ lost[b] = "no"
      BY <1>1, <1>3, <2>5 DEF WriteFails, Mark, FileOK
    <3>2. ASSUME NEW b \in Blk, Tracked(b)'
          PROVE  Good(slots', disk', Shift(p, s), b)
      <4>1. Tracked(b) /\ b # S[s].inmem
        BY <1>5, <2>2, <3>1, <3>2 DEF Tracked
      <4> QED  BY <1>1, <1>4, <1>6, <2>1, <2>5, <3>1, <4>1, ServedGood
    <3> QED  BY <1>1, <1>5, <1>9, <1>10, <2>5, <3>2, DoneCoherent
  <2> QED  BY <1>10, <2>3, <2>4, <2>5 DEF Altered, C
<1>11. CASE SuperOut(r, S, s)
  <2>1. r.blk = ZSUPER /\ Saved
    BY <1>11 DEF SuperOut
  <2>2. CASE /\ WriteOk(disk, C, s)
             /\ slots' = NoSlots /\ lru' = NewQueue /\ smod' = FALSE
    <3>1. /\ lost' = lost
          /\ \A b \in Blk : disk'[b] = IF b = r.blk THEN "last" ELSE disk[b]
      BY <1>1, <1>3, <2>2 DEF WriteOk, FileOK
    <3>2. ASSUME NEW b \in Blk, Tracked(b)'  PROVE disk'[b] = "last"
      <4>1. CASE b = ZSUPER
        BY <2>1, <3>1, <4>1
      <4>2. CASE b # ZSUPER
        <5>1. b \in 1 .. super - 1
          BY <1>1, <1>5, <3>2, <4>2, CacheConstants DEF Tracked, Blk, ZSUPER
        <5> QED  BY <1>5, <2>1, <3>1, <3>2, <4>2, <5>1 DEF Saved, Tracked
      <4> QED  BY <4>1, <4>2
    <3>3. super' \in Nat
      BY <1>5, CacheConstants DEF IInv
    <3> QED  BY <1>5, <2>2, <3>2, <3>3, EmptyCoherent
  <2>3. CASE /\ WriteFails(disk, C, s, "told")
             /\ slots' = Clean(C, s) /\ lru' = Move(lru, s) /\ UNCHANGED smod
    <3>1. /\ disk' = disk
          /\ \A b \in Blk : lost'[b] = "no" => b # r.blk /\ lost[b] = "no"
      BY <1>1, <1>3, <2>3 DEF WriteFails, Mark, FileOK
    <3>2. ASSUME NEW b \in Blk, Tracked(b)'
          PROVE  Good(slots', disk', Shift(p, s), b)
      <4>1. Tracked(b) /\ b # S[s].inmem
        BY <1>5, <2>3, <3>1, <3>2 DEF Tracked
      <4> QED  BY <1>1, <1>4, <1>6, <2>3, <3>1, <4>1, ServedGood
    <3> QED  BY <1>1, <1>5, <1>9, <2>3, <3>2, DoneCoherent
  <2> QED  BY <1>11, <2>2, <2>3 DEF SuperOut, C
<1> QED  BY <1>8, <1>10, <1>11 DEF Serve

----------------------------------------------------------------------------
(* brdblk and bgtslt.                                                      *)

(* A request for a block of the file that starts.                          *)
LEMMA ReadCoherent ==
  ASSUME IInv, CInv, NEW r, r.blk \in Blk, r.blk < super, r.name # "grow",
         pc \in {"idle", "super"}, Hit(r) \/ Miss(r),
         r.name = "wire" =>
           \A s \in Slot : \E x \in Slot \ {s} : ~slots[x].busy,
         r.name = "super" => pc = "super" /\ r.blk = ZSUPER
  PROVE  CInv'
<1>1. PICK p, a \in [Slot -> Slot] : /\ Ranked(lru, p, a)
                                     /\ AllGood(slots, disk, p)
  BY DEF CInv
<1>2. /\ CopiesOK(slots) /\ \E x \in Slot : ~slots[x].busy
      /\ SlotsOK(slots) /\ turned = {}
  BY DEF CInv, Room, TurnedOK, IInv
<1>3. r.name = "super" => Saved
  BY DEF CInv, SyncedOK
<1>4. CASE Hit(r)
  <2> DEFINE s == Owner(slots, r.blk)
  <2>1. s \in Slot /\ slots[s].inmem = r.blk /\ First(slots, s)
    BY <1>4, OwnerIsFirst DEF Hit
  <2>2. Serve(r, slots, s)
    BY <1>4 DEF Hit
  <2> HIDE DEF s
  <2> QED  BY <1>1, <1>2, <1>3, <2>1, <2>2, ServeCoherent
<1>5. CASE Miss(r)
  <2>1. /\ UNCHANGED <<disk, super, smod, slots, lru, turned, lost>>
        /\ req' = r /\ pc' = "slot" /\ ~Resident(slots, r.blk)
    BY <1>5 DEF Miss, file
  <2>2. CopiesOK(slots)' /\ Room(slots)'
    BY <1>2, <2>1 DEF CopiesOK, Room
  <2>3. AskedOK' /\ SyncedOK'
    BY <1>3, <2>1 DEF AskedOK, SyncedOK, Saved
  <2>4. TurnedOK(slots, p)' /\ Ranked(lru', p, a)
    BY <1>1, <1>2, <2>1 DEF TurnedOK
  <2>5. \A b \in Blk : Tracked(b)' => Good(slots', disk', p, b)
    BY <1>1, <2>1 DEF AllGood, Tracked
  <2> QED  BY <2>2, <2>3, <2>4, <2>5, StepCoherent
<1> QED  BY <1>4, <1>5

LEMMA FreeSlotCoherent == ASSUME IInv, CInv, FreeSlot  PROVE CInv'
<1>1. PICK p, a \in [Slot -> Slot] : /\ Ranked(lru, p, a)
                                     /\ AllGood(slots, disk, p)
  BY DEF CInv
<1>2. /\ UNCHANGED <<disk, super, smod, slots, lru, req, turned, lost>>
      /\ pc = "slot" /\ pc' = "fill" /\ slots'[vic'].inmem = NONE
  BY OwnerHas DEF FreeSlot, file
<1>3. CopiesOK(slots)' /\ Room(slots)' /\ AskedOK' /\ SyncedOK'
  BY <1>2 DEF CInv, CopiesOK, Room, AskedOK, SyncedOK, Saved
<1>4. TurnedOK(slots, p)' /\ Ranked(lru', p, a)
  BY <1>1, <1>2 DEF TurnedOK
<1>5. \A b \in Blk : Tracked(b)' => Good(slots', disk', p, b)
  BY <1>1, <1>2 DEF AllGood, Tracked
<1> QED  BY <1>3, <1>4, <1>5, StepCoherent

(* A wired slot is the first one of its block: what is out of date stays   *)
(* ahead of it when it goes to the tail.                                   *)
LEMMA RotateCoherent == ASSUME IInv, CInv, Rotate  PROVE CInv'
<1> DEFINE h == lru.h
<1>1. PICK p, a \in [Slot -> Slot] :
        Ranked(lru, p, a) /\ TurnedOK(slots, p) /\ AllGood(slots, disk, p)
  BY DEF CInv
<1>2. /\ h \in Slot /\ slots[h].busy /\ QueueOK(lru)
      /\ lru' = Move(lru, h) /\ turned' = turned \cup {h}
      /\ UNCHANGED <<disk, super, smod, slots, req, lost, vic>>
      /\ pc = "slot" /\ pc' = "slot"
  BY DEF Rotate, file, IInv, QueueOK, Queue
<1>3. First(slots, h)
  BY <1>2 DEF CInv, CopiesOK
<1> HIDE DEF h
<1>4. CopiesOK(slots)' /\ Room(slots)' /\ AskedOK' /\ SyncedOK'
  BY <1>2 DEF CInv, CopiesOK, Room, AskedOK, SyncedOK, Saved
<1>5. PICK P, A : P = Shift(p, h) /\ Ranked(lru', P, A)
  BY <1>1, <1>2, MoveRanked
<1>6. TurnedOK(slots, P)'
  <2>1. ASSUME NEW s \in turned', NEW r \in Slot \ turned'
        PROVE  P[r] < P[s]
    <3>1. r \in Slot \ {h} /\ r \in Slot \ turned
      BY <1>2, <2>1
    <3>2. CASE s = h
      BY <1>1, <1>2, <1>5, <3>1, <3>2, ShiftOrder
    <3>3. CASE s # h
      <4>1. s \in turned /\ s \in Slot
        BY <1>2, <2>1, <3>3 DEF IInv
      <4>2. slots[s].busy /\ p[r] < p[s]
        BY <1>1, <1>2, <3>1, <4>1 DEF TurnedOK
      <4> QED  BY <1>1, <1>2, <1>5, <3>1, <3>3, <4>1, <4>2, ShiftOrder
    <3> QED  BY <3>2, <3>3
  <2>2. ASSUME NEW s \in turned'  PROVE slots'[s].busy
    BY <1>1, <1>2, <2>2 DEF TurnedOK
  <2> QED  BY <1>2, <2>1, <2>2 DEF TurnedOK
<1>7. ASSUME NEW b \in Blk, Tracked(b)'
      PROVE  Good(slots', disk', P, b)
  <2>1. Good(slots, disk, p, b)
    BY <1>1, <1>2, <1>7 DEF AllGood, Tracked
  <2>2. ~(p[h] < p[h])
    BY <1>2, CacheConstants DEF Slot
  <2>3. b = slots[h].inmem => Right(slots', disk', h, b)
    BY <1>2, <1>3, <2>1, <2>2 DEF Good
  <2> QED  BY <1>1, <1>2, <1>3, <1>5, <2>1, <2>3, ServedGood
<1> QED  BY <1>4, <1>5, <1>6, <1>7, StepCoherent

LEMMA EvictCoherent == ASSUME IInv, CInv, Evict  PROVE CInv'
<1> DEFINE b0 == slots[lru.h].inmem
           s == Owner(slots, b0)
<1>1. PICK p, a \in [Slot -> Slot] :
        Ranked(lru, p, a) /\ AllGood(slots, disk, p)
  BY DEF CInv
<1>2. /\ lru.h \in Slot /\ SlotsOK(slots) /\ Resident(slots, b0)
      /\ FileOK /\ super \in Int
  BY DEF IInv, QueueOK, Queue, Resident
<1>3. s \in Slot /\ slots[s].inmem = b0 /\ First(slots, s)
  BY <1>2, OwnerIsFirst
<1>4. b0 \in Blk
  BY <1>2 DEF Evict, Resident, SlotsOK, SlotRec
<1>5. /\ slots' = Clean(slots, s) /\ vic' = lru.h
      /\ WriteOk(disk, slots, s) \/ WriteFails(disk, slots, s, "told")
      /\ UNCHANGED <<super, smod, lru, req, turned>>
      /\ pc = "slot" /\ pc' = "fill"
  BY DEF Evict
<1> DEFINE v == lru.h
<1> HIDE DEF s, b0, v
<1>6. v \in Slot /\ slots[v].inmem = b0 /\ vic' = v /\ lru'.h = v
  BY <1>2, <1>5 DEF v, b0
<1>7. \A c \in Slot : /\ slots'[c].inmem = slots[c].inmem
                      /\ slots'[c].rec = slots[c].rec
                      /\ slots'[c].busy = slots[c].busy
                      /\ slots'[c].writes = IF c = s THEN 0 ELSE slots[c].writes
  BY <1>2, <1>3, <1>5, CleanIs
<1>8. \A x \in Slot : First(slots', x) <=> First(slots, x)
  BY <1>7 DEF First
<1>9. CopiesOK(slots)' /\ Room(slots)'
  <2>1. CopiesOK(slots) /\ Room(slots)
    BY DEF CInv
  <2>2. CopiesOK(slots)'
    BY <1>5, <1>7, <1>8, <2>1 DEF CopiesOK
  <2>3. Room(slots)'
    BY <1>5, <1>7, <2>1 DEF Room
  <2> QED  BY <2>2, <2>3
<1>10. AskedOK'
  <2>1. \A b : Resident(slots', b) <=> Resident(slots, b)
    BY <1>7 DEF Resident
  <2>2. ASSUME NEW x \in Slot, First(slots', x),
               slots'[x].inmem = slots'[v].inmem
        PROVE  slots'[x].writes = 0
    <3>1. x = s
      BY <1>3, <1>6, <1>7, <1>8, <2>2, FirstOnce
    <3> QED  BY <1>3, <1>7, <3>1
  <2> QED  BY <1>5, <1>6, <2>1, <2>2 DEF CInv, AskedOK
<1>11. ASSUME NEW b \in Blk, Tracked(b), lost'[b] = "no"
       PROVE  /\ Good(slots', disk', p, b)
              /\ disk[b] = "last" => disk'[b] = "last"
  <2>1. Good(slots, disk, p, b)
    BY <1>1, <1>11 DEF AllGood
  <2>2. b = b0 => Right(slots, disk, s, b)
    <3>1. ~(p[s] < p[s])
      BY <1>3, CacheConstants DEF Slot
    <3> QED  BY <1>3, <2>1, <3>1 DEF Good
  <2>3. \/ disk'[b] = disk[b] /\ (b = b0 => slots[s].writes = 0)
        \/ b = b0 /\ disk'[b] = "last"
    <3>1. CASE WriteOk(disk, slots, s)
      BY <1>2, <1>3, <1>4, <2>2, <3>1 DEF WriteOk, Right, FileOK
    <3>2. CASE WriteFails(disk, slots, s, "told")
      BY <1>2, <1>3, <1>4, <1>11, <3>2 DEF WriteFails, Mark, FileOK
    <3> QED  BY <1>5, <3>1, <3>2
  <2>4. \A c \in Slot : slots[c].inmem = b /\ Right(slots, disk, c, b)
                          => Right(slots', disk', c, b)
    BY <1>3, <1>7, <2>3 DEF Right
  <2> QED  BY <1>7, <2>1, <2>3, <2>4, KeepGood
<1>12. \A b \in Blk : lost'[b] = "no" => lost[b] = "no"
  BY <1>2, <1>3, <1>4, <1>5 DEF WriteOk, WriteFails, Mark, FileOK
<1>13. SyncedOK'
  <2>1. ASSUME Saved, NEW b \in 1 .. super' - 1, lost'[b] = "no"
        PROVE  disk'[b] = "last"
    <3>1. b \in Blk /\ b < super /\ b # ZSUPER
      BY <1>2, <1>5, CacheConstants DEF IInv, Blk, ZSUPER
    <3>2. lost[b] = "no" /\ Tracked(b)
      BY <1>12, <2>1, <3>1 DEF Tracked
    <3> QED  BY <1>5, <1>11, <2>1, <3>1, <3>2 DEF Saved
  <2> QED  BY <1>5, <2>1 DEF CInv, SyncedOK, Saved
<1>14. \A b \in Blk : Tracked(b)' => Good(slots', disk', p, b)
  BY <1>5, <1>11, <1>12 DEF Tracked
<1>15. TurnedOK(slots, p)' /\ Ranked(lru', p, a)
  BY <1>1, <1>5 DEF TurnedOK
<1> QED  BY <1>9, <1>10, <1>13, <1>14, <1>15, StepCoherent

(* What bgtslt guarantees of the slot it has returned.                     *)
LEMMA Returned ==
  ASSUME IInv, CInv, pc = "fill", NEW p, NEW a, Ranked(lru, p, a),
         NEW b \in Blk
  PROVE  MayLeave(slots, p, vic, b)
<1>1. b # NONE
  BY CacheConstants DEF Blk, NONE
<1> QED  BY <1>1 DEF CInv, AskedOK, Ranked, MayLeave

LEMMA FillCoherent == ASSUME IInv, CInv, Fill  PROVE CInv'
<1>1. PICK p, a \in [Slot -> Slot] :
        Ranked(lru, p, a) /\ AllGood(slots, disk, p)
  BY DEF CInv
<1>2. /\ vic \in Slot /\ slots[vic].busy = FALSE /\ req.blk \in Blk
      /\ SlotsOK(slots) /\ disk[req.blk] \in Rec /\ pc = "fill"
      /\ req.blk < super /\ ~Resident(slots, req.blk)
      /\ super \in Int /\ req.name # "grow"
  BY DEF Fill, IInv, Pending, FileOK, CInv, AskedOK
<1>3. /\ Filled \in [Slot -> SlotRec]
      /\ Filled[vic].inmem = req.blk /\ Filled[vic].rec = disk[req.blk]
      /\ Filled[vic].busy = FALSE
      /\ \A s \in Slot \ {vic} : Filled[s] = slots[s]
  BY <1>2, ZenonT(40) DEF Filled, SlotsOK, SlotRec
<1>4. SlotsOK(Filled)
  BY <1>2, <1>3, CacheConstants DEF SlotsOK, Blk, NONE
<1>5. \A s \in Slot : Filled[s].inmem = req.blk => s = vic
  BY <1>2, <1>3 DEF Resident
<1>6. First(Filled, vic)
  BY <1>2, <1>3, <1>5, CacheConstants DEF First, Slot
<1>7. CopiesOK(Filled)
  <2>1. CopiesOK(slots)
    BY DEF CInv
  <2>2. ASSUME NEW s \in Slot \ {vic}, First(slots, s)  PROVE First(Filled, s)
    BY <1>2, <1>3, <1>5, <2>2 DEF First
  <2>3. Filled[vic].inmem <= super
    BY <1>2, <1>3 DEF Blk
  <2> QED  BY <1>3, <2>1, <2>2, <2>3 DEF CopiesOK
<1>8. /\ \E x \in Slot : ~Filled[x].busy
      /\ req.name = "wire" => \E x \in Slot \ {vic} : ~Filled[x].busy
  <2>1. Room(slots)
    BY DEF CInv
  <2> QED  BY <1>2, <1>3, <2>1 DEF Room
<1>9. req.name = "super" => req.blk = ZSUPER /\ Saved
  BY <1>2 DEF CInv, AskedOK, SyncedOK
<1>10. ASSUME NEW b \in Blk, Tracked(b)  PROVE Good(Filled, disk, p, b)
  <2>1. Good(slots, disk, p, b)
    BY <1>1, <1>10 DEF AllGood
  <2>2. CASE b = req.blk
    <3>1. disk[b] = "last"
      BY <1>2, <2>1, <2>2 DEF Good
    <3> QED  BY <1>2, <1>3, <1>5, <2>2, <3>1 DEF Good, Right
  <2>3. CASE b # req.blk
    <3>1. MayLeave(slots, p, vic, b)
      BY <1>1, <1>2, Returned
    <3>2. SameElsewhere(slots, Filled, vic, b)
      BY <1>3 DEF SameElsewhere
    <3> QED  BY <1>2, <1>3, <2>1, <2>3, <3>1, <3>2, LeaveGood
  <2> QED  BY <2>2, <2>3
<1>11. AllGood(Filled, disk, p)
  BY <1>10 DEF AllGood
<1>12. Serve(req, Filled, vic)
  BY DEF Fill
<1> QED
  BY <1>1, <1>2, <1>3, <1>4, <1>6, <1>7, <1>8, <1>9, <1>11, <1>12, ServeCoherent

LEMMA FillFailsCoherent == ASSUME IInv, CInv, FillFails  PROVE CInv'
<1>1. PICK p, a \in [Slot -> Slot] :
        Ranked(lru, p, a) /\ AllGood(slots, disk, p)
  BY DEF CInv
<1>2. /\ vic \in Slot /\ SlotsOK(slots) /\ FileOK
      /\ UNCHANGED <<disk, super, smod, lru>> /\ pc' = "idle" /\ turned' = {}
  BY DEF FillFails, IInv, Pending, file, Done
<1>3. \A c \in Slot : /\ slots'[c].inmem = slots[c].inmem
                      /\ slots'[c].busy = slots[c].busy
                      /\ slots'[c].writes = slots[c].writes
                      /\ slots' # slots => c = vic \/ slots'[c] = slots[c]
  <2>1. \/ slots' = slots
        \/ slots' = [slots EXCEPT ![vic].rec = "other"]
    BY DEF FillFails
  <2>2. slots \in [Slot -> SlotRec]
    BY <1>2 DEF SlotsOK
  <2> QED  BY <1>2, <2>1, <2>2 DEF SlotRec
<1>4. CopiesOK(slots)' /\ \E x \in Slot : ~slots'[x].busy
  <2>1. CopiesOK(slots) /\ Room(slots)
    BY DEF CInv
  <2>2. \A x \in Slot : First(slots, x) => First(slots', x)
    BY <1>3 DEF First
  <2>3. CopiesOK(slots)'
    BY <1>2, <1>3, <2>1, <2>2 DEF CopiesOK
  <2> QED  BY <1>3, <2>1, <2>3 DEF Room
<1>5. \A b \in Blk : lost'[b] = "no" =>
        /\ lost[b] = "no"
        /\ slots' = slots \/ slots[vic].inmem # b
  <2>1. CASE UNCHANGED <<slots, lost>>
    BY <2>1
  <2>2. CASE lost' = IF slots[vic].inmem = NONE THEN lost
                     ELSE Mark(slots[vic].inmem, "told")
    <3>1. slots[vic].inmem \in Blk \cup {NONE} /\ NONE \notin Blk
      BY <1>2, CacheConstants DEF SlotsOK, SlotRec, Blk, NONE
    <3> QED  BY <1>2, <2>2, <3>1 DEF Mark, FileOK
  <2> QED  BY <2>1, <2>2 DEF FillFails
<1>6. ASSUME NEW b \in Blk, Tracked(b)'  PROVE Good(slots', disk', p, b)
  <2>1. Good(slots, disk, p, b)
    BY <1>1, <1>2, <1>5, <1>6 DEF AllGood, Tracked
  <2>2. \A c \in Slot : slots[c].inmem = b /\ Right(slots, disk, c, b)
                          => Right(slots', disk', c, b)
    BY <1>2, <1>3, <1>5, <1>6 DEF Right, Tracked
  <2> QED  BY <1>2, <1>3, <2>1, <2>2, KeepGood
<1> QED  BY <1>1, <1>2, <1>4, <1>6, DoneCoherent

----------------------------------------------------------------------------
(* bgtfre with an empty free list.                                         *)
LEMMA GrowCoherent == ASSUME IInv, CInv, Grow  PROVE CInv'
<1>1. PICK p, a \in [Slot -> Slot] :
        Ranked(lru, p, a) /\ AllGood(slots, disk, p)
  BY DEF CInv
<1>2. /\ UNCHANGED <<disk, super, smod, slots, lru, turned, lost>>
      /\ req'.name = "grow" /\ pc = "idle" /\ pc' = "slot"
  BY DEF Grow, file
<1>3. turned = {}
  BY <1>2 DEF CInv, TurnedOK
<1>4. CopiesOK(slots)' /\ Room(slots)' /\ AskedOK' /\ SyncedOK'
  BY <1>2 DEF CInv, CopiesOK, Room, AskedOK, SyncedOK
<1>5. TurnedOK(slots, p)' /\ Ranked(lru', p, a)
  BY <1>1, <1>2, <1>3 DEF TurnedOK
<1>6. \A b \in Blk : Tracked(b)' => Good(slots', disk', p, b)
  BY <1>1, <1>2 DEF AllGood, Tracked
<1> QED  BY <1>4, <1>5, <1>6, StepCoherent

(* The slots after the slot that bgtslt returned has got the number of the *)
(* new block and bwrblk has saved one slot with it.                        *)
LEMMA NewBlockCoherent ==
  ASSUME IInv, CInv, pc = "fill", req.name = "grow",
         NEW n, super = n, NEW T,
         \A c \in Slot : /\ T[c].inmem = IF c = vic THEN n ELSE slots[c].inmem
                         /\ T[c].busy = slots[c].busy,
         slots' = T, lru' = Move(lru, vic), Done,
         super' \in Nat, super' >= n,
         \A b \in Blk : Tracked(b)' /\ b # n =>
            /\ Tracked(b) /\ disk'[b] = disk[b]
            /\ SameElsewhere(slots, T, vic, b),
         Tracked(n)' => /\ \A c \in Slot : T[c].inmem = n => T[c].rec = "last"
                        /\ disk'[n] = "last"
  PROVE  CInv'
<1>1. PICK p, a \in [Slot -> Slot] :
        Ranked(lru, p, a) /\ AllGood(slots, disk, p)
  BY DEF CInv
<1>2. /\ vic \in Slot /\ slots[vic].busy = FALSE /\ SlotsOK(slots)
      /\ n \in Blk /\ QueueOK(lru) /\ n \in Nat
  <2>1. super \in Nat /\ QueueOK(lru)
    BY CacheConstants DEF IInv
  <2> QED  BY <2>1, Growing
<1>3. PICK P, A : P = Shift(p, vic) /\ Ranked(lru', P, A)
  BY <1>1, <1>2, MoveRanked
<1>4. CopiesOK(slots)' /\ \E x \in Slot : ~slots'[x].busy
  <2>1. CopiesOK(slots) /\ Room(slots)
    BY DEF CInv
  <2>2. ASSUME NEW c \in Slot
        PROVE  /\ T[c].inmem <= super'
               /\ T[c].busy => T[c].inmem # super' /\ First(T, c)
    <3>1. slots[c].inmem \in Int
      BY <1>2, CacheConstants DEF SlotsOK, SlotRec, Blk, NONE
    <3>2. slots[c].inmem <= n
      BY <2>1 DEF CopiesOK
    <3>3. T[c].inmem <= super'
      BY <1>2, <3>1, <3>2
    <3>4. ASSUME T[c].busy  PROVE T[c].inmem # super' /\ First(T, c)
      <4>1. /\ c # vic /\ slots[c].inmem < n /\ First(slots, c)
            /\ T[c].inmem = slots[c].inmem
        BY <1>2, <2>1, <3>1, <3>2, <3>4 DEF CopiesOK
      <4>2. First(T, c)
        BY <1>2, <3>1, <4>1 DEF First
      <4> QED  BY <1>2, <3>1, <4>1, <4>2
    <3> QED  BY <3>3, <3>4
  <2>3. CopiesOK(slots)'
    BY <2>2 DEF CopiesOK
  <2>4. \E x \in Slot : ~slots'[x].busy
    BY <2>1 DEF Room
  <2> QED  BY <2>3, <2>4
<1>5. ASSUME NEW b \in Blk, Tracked(b)'  PROVE Good(T, disk', P, b)
  <2>1. CASE b = n
    <3>1. Resident(T, b)
      BY <1>2, <2>1 DEF Resident
    <3>2. \A c \in Slot : T[c].inmem = b => Right(T, disk', c, b)
      BY <1>5, <2>1 DEF Right
    <3> QED  BY <3>1, <3>2 DEF Good
  <2>2. CASE b # n
    <3>1. Good(slots, disk, p, b)
      BY <1>1, <1>5, <2>2 DEF AllGood
    <3>2. MayLeave(slots, p, vic, b)
      BY <1>1, Returned
    <3>3. T[vic].inmem # b
      BY <1>2, <2>2
    <3>4. p \in [Slot -> Slot]
      BY <1>1 DEF Ranked, Inverses
    <3>5. disk'[b] = disk[b] /\ SameElsewhere(slots, T, vic, b)
      BY <1>5, <2>2
    <3>6. Good(T, disk', p, b)
      BY <1>2, <3>1, <3>2, <3>3, <3>4, <3>5, LeaveGood
    <3>7. \A r, c \in Slot : /\ First(T, r) /\ T[r].inmem = b /\ T[c].inmem = b
                             /\ p[c] < p[r]
                             => P[c] < P[r]
      BY <1>1, <1>2, <1>3, <3>3, ShiftOrder
    <3> QED  BY <3>6, <3>7, KeepGood
  <2> QED  BY <2>1, <2>2
<1>6. pc' = "idle" /\ turned' = {}
  BY DEF Done
<1> QED  BY <1>3, <1>4, <1>5, <1>6, DoneCoherent

(* All slots with the new block, those left by growths that failed too,    *)
(* have a content that is as good as any other.                            *)
LEMMA ExtendCoherent == ASSUME IInv, CInv, Extend  PROVE CInv'
<1> DEFINE o == Owner(Extended, super)
           T == Clean(Extended, o)
<1>1. PICK n : super = n
  OBVIOUS
<1>2. /\ vic \in Slot /\ n \in Blk /\ super + 1 \in 2 .. NBLK
      /\ SlotsOK(slots) /\ FileOK /\ 1 \in 0 .. MaxWrites
      /\ n \in Nat /\ n >= 2 /\ slots[vic].busy = FALSE
  <2>1. pc = "fill" /\ req.name = "grow"
    BY DEF Extend
  <2>2. super \in Nat /\ super >= 2
    BY CacheConstants DEF IInv
  <2> QED  BY <1>1, <2>1, <2>2, Growing
<1>3. \A c \in Slot :
        /\ Extended[c] \in SlotRec
        /\ Extended[c].inmem = IF c = vic THEN n ELSE slots[c].inmem
        /\ Extended[c].busy = slots[c].busy
        /\ Extended[c].inmem = n => Extended[c].rec = "last"
        /\ c # vic /\ slots[c].inmem \notin {n, ZSUPER} =>
             Extended[c] = slots[c]
  BY <1>1, <1>2, ZenonT(40) DEF Extended, SlotsOK, SlotRec, ZSUPER, Rec
<1>4. SlotsOK(Extended)
  <2>1. Extended \in [Slot -> SlotRec]
    BY <1>3 DEF Extended
  <2>2. n # NONE
    BY <1>2, CacheConstants DEF NONE
  <2> QED  BY <1>2, <1>3, <2>1, <2>2 DEF SlotsOK
<1>5. o \in Slot /\ Extended[o].inmem = n
  BY <1>1, <1>2, <1>3, OwnerHas DEF Resident
<1>6. /\ WriteOk(NewDisk, Extended, o) /\ slots' = T
      /\ Done /\ lru' = Move(lru, vic) /\ super' = n + 1 /\ smod' = TRUE
      /\ pc = "fill" /\ req.name = "grow"
  BY <1>1 DEF Extend
<1> HIDE DEF o
<1>7. \A c \in Slot :
        /\ T[c].inmem = IF c = vic THEN n ELSE slots[c].inmem
        /\ T[c].busy = slots[c].busy
        /\ T[c].rec = Extended[c].rec
        /\ c # o => T[c].writes = Extended[c].writes
  BY <1>3, <1>4, <1>5, CleanIs
<1> HIDE DEF T
<1>8. /\ lost' = lost /\ disk'[n] = "last"
      /\ \A b \in Blk \ {n, ZSUPER} : disk'[b] = disk[b]
  BY <1>1, <1>2, <1>3, <1>5, <1>6 DEF WriteOk, NewDisk, FileOK, ZSUPER
<1>9. ASSUME NEW b \in Blk, Tracked(b)', b # n
      PROVE  /\ Tracked(b) /\ disk'[b] = disk[b]
             /\ SameElsewhere(slots, T, vic, b)
  <2>1. b # ZSUPER /\ b < n /\ lost[b] = "no"
    BY <1>2, <1>6, <1>8, <1>9 DEF Tracked, Blk
  <2>2. Tracked(b) /\ disk'[b] = disk[b]
    BY <1>1, <1>8, <1>9, <2>1 DEF Tracked
  <2>3. ASSUME NEW c \in Slot \ {vic}
        PROVE  /\ T[c].inmem = slots[c].inmem
               /\ slots[c].inmem = b => /\ T[c].rec = slots[c].rec
                                        /\ T[c].writes = slots[c].writes
    <3>1. T[c].inmem = slots[c].inmem
      BY <1>7
    <3>2. ASSUME slots[c].inmem = b
          PROVE  T[c].rec = slots[c].rec /\ T[c].writes = slots[c].writes
      <4>1. Extended[c] = slots[c] /\ c # o
        BY <1>3, <1>5, <1>9, <2>1, <3>2
      <4> QED  BY <1>7, <4>1
    <3> QED  BY <3>1, <3>2
  <2> QED  BY <2>2, <2>3 DEF SameElsewhere
<1>10. /\ \A c \in Slot : T[c].inmem = n => T[c].rec = "last"
       /\ super' \in Nat /\ super' >= n
  BY <1>2, <1>3, <1>6, <1>7
<1>11. \A c \in Slot : /\ T[c].inmem = IF c = vic THEN n ELSE slots[c].inmem
                       /\ T[c].busy = slots[c].busy
  BY <1>7
<1> QED  BY <1>1, <1>6, <1>8, <1>9, <1>10, <1>11, NewBlockCoherent

LEMMA ExtendFailsCoherent == ASSUME IInv, CInv, ExtendFails  PROVE CInv'
<1> DEFINE S == [slots EXCEPT ![vic].inmem = super, ![vic].writes = 1]
           o == Owner(S, super)
           T == Clean(S, o)
<1>1. PICK n : super = n
  OBVIOUS
<1>2. /\ vic \in Slot /\ n \in Blk /\ SlotsOK(slots) /\ FileOK
      /\ 1 \in 0 .. MaxWrites /\ n \in Nat /\ slots[vic].busy = FALSE
  <2>1. pc = "fill" /\ req.name = "grow"
    BY DEF ExtendFails
  <2>2. super \in Nat
    BY CacheConstants DEF IInv
  <2> QED  BY <1>1, <2>1, <2>2, Growing
<1>3. /\ S \in [Slot -> SlotRec] /\ S[vic].inmem = n
      /\ S[vic].busy = slots[vic].busy
      /\ \A c \in Slot \ {vic} : S[c] = slots[c]
  BY <1>1, <1>2 DEF SlotsOK, SlotRec
<1>4. /\ slots' = T /\ Done /\ lru' = Move(lru, vic)
      /\ UNCHANGED <<disk, super, smod, lost>>
      /\ pc = "fill" /\ req.name = "grow"
  BY DEF ExtendFails, file
<1> HIDE DEF S
<1>5. SlotsOK(S)
  BY <1>2, <1>3, CacheConstants DEF SlotsOK, Blk, NONE
<1>6. o \in Slot /\ S[o].inmem = n
  BY <1>1, <1>2, <1>3, OwnerHas DEF Resident
<1> HIDE DEF o
<1>7. \A c \in Slot :
        /\ T[c].inmem = S[c].inmem /\ T[c].busy = S[c].busy
        /\ T[c].rec = S[c].rec
        /\ c # o => T[c].writes = S[c].writes
  BY <1>5, <1>6, CleanIs
<1> HIDE DEF T
<1>8. \A c \in Slot : /\ T[c].inmem = IF c = vic THEN n ELSE slots[c].inmem
                      /\ T[c].busy = slots[c].busy
  BY <1>3, <1>7
<1>9. ASSUME NEW b \in Blk, Tracked(b)', b # n
      PROVE  /\ Tracked(b) /\ disk'[b] = disk[b]
             /\ SameElsewhere(slots, T, vic, b)
  <2>1. Tracked(b) /\ disk'[b] = disk[b]
    BY <1>4, <1>9 DEF Tracked
  <2>2. ASSUME NEW c \in Slot \ {vic}, slots[c].inmem = b
        PROVE  T[c].rec = slots[c].rec /\ T[c].writes = slots[c].writes
    BY <1>3, <1>6, <1>7, <1>9, <2>2
  <2> QED  BY <1>8, <2>1, <2>2 DEF SameElsewhere
<1>10. ~Tracked(n)' /\ super' \in Nat /\ super' >= n
  BY <1>1, <1>2, <1>4 DEF Tracked
<1> QED  BY <1>1, <1>4, <1>8, <1>9, <1>10, NewBlockCoherent

----------------------------------------------------------------------------
(* btsync has saved the slots before n, and the writes of slot n itself    *)
(* are either still counted (m = n) or it has another block.               *)
LEMMA SavedGood ==
  ASSUME IInv, NEW p, NEW b \in Blk, Good(slots, disk, p, b),
         \A s \in Slot : ~(p[s] < p[s]), NEW n \in Int, NEW m \in Int,
         \/ m = n
         \/ m = n + 1 /\ n \in Slot /\ slots[n].inmem # b
  PROVE  /\ Good(CleanUpTo(m), SavedUpTo(n), p, b)
         /\ n >= NSLOT => SavedUpTo(n)[b] = "last"
<1> DEFINE T == CleanUpTo(m)  e == SavedUpTo(n)  o == Owner(slots, b)
<1>1. slots \in [Slot -> SlotRec] /\ Slot \subseteq Int
  BY CacheConstants DEF IInv, SlotsOK, Slot
<1>2. \A c \in Slot :
        /\ T[c].inmem = slots[c].inmem /\ T[c].rec = slots[c].rec
        /\ ~(c < m /\ c = Owner(slots, slots[c].inmem)) =>
             T[c].writes = slots[c].writes
  BY <1>1 DEF CleanUpTo, SlotRec
<1>3. e[b] = IF Resident(slots, b) /\ o < n /\ slots[o].writes # 0
             THEN slots[o].rec ELSE disk[b]
  BY DEF SavedUpTo
<1>4. CASE ~Resident(slots, b)
  <2>1. disk[b] = "last" /\ e[b] = "last"
    BY <1>3, <1>4 DEF Good
  <2>2. \A c \in Slot : T[c].inmem # b
    BY <1>2, <1>4 DEF Resident
  <2> HIDE DEF T, e
  <2>3. Good(T, e, p, b)
    BY <2>1, <2>2 DEF Good
  <2> QED  BY <2>1, <2>3 DEF T, e
<1>5. CASE Resident(slots, b)
  <2>1. o \in Slot /\ slots[o].inmem = b /\ First(slots, o)
    BY <1>5, OwnerIsFirst
  <2> HIDE DEF T, e
  <2>2. Right(slots, disk, o, b)
    BY <2>1 DEF Good
  <2>3. o < n => e[b] = "last"
    BY <1>3, <1>5, <2>2 DEF Right
  <2>4. disk[b] = "last" => e[b] = "last"
    BY <1>3, <2>2 DEF Right
  <2>5. ASSUME NEW c \in Slot, slots[c].inmem = b, Right(slots, disk, c, b)
        PROVE  Right(T, e, c, b)
    <3>1. CASE c < m /\ c = o
      <4>1. c < n
        BY <1>1, <2>5, <3>1
      <4> QED  BY <1>2, <2>3, <2>5, <3>1, <4>1 DEF Right
    <3>2. CASE ~(c < m /\ c = o)
      <4>1. T[c].writes = slots[c].writes
        BY <1>2, <2>5, <3>2 DEF o
      <4> QED  BY <1>2, <2>4, <2>5, <4>1 DEF Right
    <3> QED  BY <3>1, <3>2
  <2>6. Good(T, e, p, b)
    BY <1>2, <1>5, <2>5, KeepGood
  <2>7. n >= NSLOT => e[b] = "last"
    BY <2>1, <2>3, CacheConstants DEF Slot
  <2> QED  BY <2>6, <2>7 DEF T, e
<1> QED  BY <1>4, <1>5

LEMMA SyncCoherent == ASSUME IInv, CInv, Sync  PROVE CInv'
<1>1. PICK p, a \in [Slot -> Slot] :
        Ranked(lru, p, a) /\ AllGood(slots, disk, p)
  BY DEF CInv
<1>2. /\ SlotsOK(slots) /\ FileOK /\ super \in Nat /\ NSLOT \in Int
      /\ \A s \in Slot : ~(p[s] < p[s])
  BY CacheConstants DEF IInv, Slot
<1>3. /\ pc = "idle" /\ disk' = SavedUpTo(NSLOT)
      /\ UNCHANGED <<super, smod, req, turned, lost>>
  BY DEF Sync
<1>4. turned = {}
  BY <1>3 DEF CInv, TurnedOK
<1>5. ASSUME NEW b \in Blk, Tracked(b)
      PROVE  Good(CleanUpTo(NSLOT), disk', p, b) /\ disk'[b] = "last"
  <2>1. Good(slots, disk, p, b)
    BY <1>1, <1>5 DEF AllGood
  <2> QED  BY <1>2, <1>3, <2>1, SavedGood
<1>6. \A b \in Blk : Tracked(b)' <=> Tracked(b)
  BY <1>3 DEF Tracked
<1>7. CASE smod /\ slots' = CleanUpTo(NSLOT) /\ pc' = "super" /\ UNCHANGED lru
  <2>1. \A c \in Slot : /\ slots'[c].inmem = slots[c].inmem
                        /\ slots'[c].busy = slots[c].busy
    BY <1>2, <1>7 DEF CleanUpTo, SlotsOK, SlotRec
  <2>2. CopiesOK(slots)' /\ Room(slots)'
    <3>1. CopiesOK(slots) /\ Room(slots)
      BY DEF CInv
    <3>2. CopiesOK(slots)'
      BY <1>3, <2>1, <3>1 DEF CopiesOK, First
    <3> QED  BY <1>7, <2>1, <3>1, <3>2 DEF Room
  <2>3. AskedOK' /\ TurnedOK(slots, p)' /\ Ranked(lru', p, a)
    BY <1>1, <1>3, <1>4, <1>7 DEF AskedOK, TurnedOK
  <2>4. Saved'
    <3>1. ASSUME NEW b \in 1 .. super - 1, lost[b] = "no"
          PROVE  disk'[b] = "last"
      <4>1. b \in Blk /\ b < super /\ b # ZSUPER
        BY <1>2, CacheConstants DEF IInv, Blk, ZSUPER
      <4> QED  BY <1>5, <3>1, <4>1 DEF Tracked
    <3> QED  BY <1>3, <3>1 DEF Saved
  <2>5. \A b \in Blk : Tracked(b)' => Good(slots', disk', p, b)
    BY <1>5, <1>6, <1>7
  <2> QED  BY <2>2, <2>3, <2>4, <2>5, StepCoherent DEF SyncedOK
<1>8. CASE ~smod /\ slots' = NoSlots /\ lru' = NewQueue /\ UNCHANGED pc
  <2>1. pc' = "idle" /\ turned' = {} /\ super' \in Nat
    BY <1>2, <1>3, <1>4, <1>8
  <2> QED  BY <1>5, <1>6, <1>8, <2>1, EmptyCoherent
<1> QED  BY <1>7, <1>8 DEF Sync

LEMMA SyncFailsCoherent == ASSUME IInv, CInv, SyncFails  PROVE CInv'
<1>1. PICK p, a \in [Slot -> Slot] :
        Ranked(lru, p, a) /\ AllGood(slots, disk, p)
  BY DEF CInv
<1>2. PICK s \in Slot :
        /\ slots[s].inmem # NONE
        /\ disk' = SavedUpTo(s) /\ slots' = CleanUpTo(s + 1)
        /\ lost' = Mark(slots[s].inmem, "told")
  BY DEF SyncFails
<1>3. /\ SlotsOK(slots) /\ FileOK /\ s \in Int /\ s + 1 \in Int
      /\ \A r \in Slot : ~(p[r] < p[r])
  BY CacheConstants DEF IInv, Slot
<1>4. /\ pc = "idle" /\ pc' = "idle"
      /\ UNCHANGED <<super, smod, lru, turned>>
  BY DEF SyncFails
<1>5. turned' = {}
  BY <1>4 DEF CInv, TurnedOK
<1>6. \A c \in Slot : /\ slots'[c].inmem = slots[c].inmem
                      /\ slots'[c].busy = slots[c].busy
  BY <1>2, <1>3 DEF CleanUpTo, SlotsOK, SlotRec
<1>7. CopiesOK(slots)' /\ \E x \in Slot : ~slots'[x].busy
  <2>1. CopiesOK(slots) /\ Room(slots)
    BY DEF CInv
  <2>2. CopiesOK(slots)'
    BY <1>4, <1>6, <2>1 DEF CopiesOK, First
  <2> QED  BY <1>6, <2>1, <2>2 DEF Room
<1>8. ASSUME NEW b \in Blk, Tracked(b)'  PROVE Good(slots', disk', p, b)
  <2>1. Tracked(b) /\ slots[s].inmem # b
    <3>1. slots[s].inmem \in Blk
      BY <1>2, <1>3 DEF SlotsOK, SlotRec
    <3> QED  BY <1>2, <1>3, <1>4, <1>8, <3>1 DEF Tracked, Mark, FileOK
  <2>2. Good(slots, disk, p, b)
    BY <1>1, <2>1 DEF AllGood
  <2>3. Good(CleanUpTo(s + 1), SavedUpTo(s), p, b)
    BY <1>3, <2>1, <2>2, SavedGood
  <2> QED  BY <1>2, <2>3
<1> QED  BY <1>1, <1>4, <1>5, <1>7, <1>8, DoneCoherent

(* The requests that start with brdblk; when there is room to wire one     *)
(* more, two slots are not wired.                                          *)
LEMMA AskCoherent ==
  ASSUME IInv, CInv, NEW b \in Blk,
         NEW name \in {"get", "put", "through", "unwire"}, Ask(name, b)
  PROVE  CInv'
<1> DEFINE r == [name |-> name, blk |-> b]
<1>1. /\ r.blk \in Blk /\ r.blk < super /\ pc = "idle"
      /\ r.name \notin {"grow", "wire", "super"}
      /\ Hit(r) \/ Miss(r)
  BY DEF Ask
<1> HIDE DEF r
<1> QED  BY <1>1, ReadCoherent

LEMMA WireCoherent ==
  ASSUME IInv, CInv, NEW b \in Blk, Wire(b)
  PROVE  CInv'
<1> DEFINE r == [name |-> "wire", blk |-> b]
           busy == {s \in Slot : slots[s].busy}
<1>1. /\ r.blk \in Blk /\ r.blk < super /\ pc = "idle"
      /\ r.name = "wire"
      /\ Hit(r) \/ Miss(r)
      /\ Cardinality(busy) < NSLOT - 1
  BY DEF Wire, Ask
<1>2. ASSUME NEW s \in Slot, \A x \in Slot \ {s} : slots[x].busy  PROVE FALSE
  <2>1. Slot \ {s} \subseteq busy /\ busy \subseteq Slot
    BY <1>2
  <2>2. NSLOT - 1 >= 0 /\ 0 \in Int /\ NSLOT - 1 \in Int
    BY CacheConstants
  <2>3. IsFiniteSet(Slot) /\ Cardinality(Slot) = NSLOT
    <3>1. /\ IsFiniteSet(0 .. NSLOT - 1)
          /\ Cardinality(0 .. NSLOT - 1) =
               IF 0 > NSLOT - 1 THEN 0 ELSE (NSLOT - 1) - 0 + 1
      BY <2>2, FS_Interval, Zenon
    <3> QED  BY <2>2, <3>1, CacheConstants DEF Slot
  <2>4. /\ IsFiniteSet(Slot \ {s})
        /\ Cardinality(Slot \ {s}) = NSLOT - 1
    BY <2>3, FS_RemoveElement
  <2>5. IsFiniteSet(busy)
    BY <2>1, <2>3, FS_Subset
  <2>6. Cardinality(Slot \ {s}) <= Cardinality(busy)
    BY <2>1, <2>5, FS_Subset
  <2>7. Cardinality(busy) \in Nat
    BY <2>5, FS_CardinalityType
  <2> QED  BY <1>1, <2>2, <2>4, <2>6, <2>7
<1>3. \A s \in Slot : \E x \in Slot \ {s} : ~slots[x].busy
  BY <1>2
<1> HIDE DEF r
<1> QED  BY <1>1, <1>3, ReadCoherent

LEMMA BwrsupCoherent == ASSUME IInv, CInv, Bwrsup  PROVE CInv'
<1> DEFINE r == [name |-> "super", blk |-> ZSUPER]
<1>1. /\ r.blk \in Blk /\ r.blk < super /\ pc = "super" /\ r.blk = ZSUPER
      /\ r.name = "super"
      /\ Hit(r) \/ Miss(r)
  BY CacheConstants DEF Bwrsup, ZSUPER, Blk, IInv
<1> HIDE DEF r
<1> QED  BY <1>1, ReadCoherent

----------------------------------------------------------------------------
LEMMA InitCoherent == Init => CInv
<1> SUFFICES ASSUME Init  PROVE CInv
  OBVIOUS
<1> DEFINE p == [s \in Slot |-> s]
<1>1. p \in [Slot -> Slot] /\ Ranked(lru, p, p)
  BY NewQueueRanked DEF Init
<1>2. \A s \in Slot : slots[s].inmem = NONE /\ slots[s].busy = FALSE
  BY DEF Init, NoSlots, EmptySlot
<1>3. pc = "idle" /\ turned = {} /\ super = 2 /\ disk = [b \in Blk |-> "last"]
  BY DEF Init
<1>4. CopiesOK(slots) /\ Room(slots)
  <2>1. 0 \in Slot /\ NONE <= 2
    BY CacheConstants DEF Slot, NONE
  <2> QED  BY <1>2, <1>3, <2>1 DEF CopiesOK, Room
<1>5. AskedOK /\ SyncedOK /\ TurnedOK(slots, p)
  BY <1>3 DEF AskedOK, SyncedOK, TurnedOK
<1> HIDE DEF p
<1>6. AllGood(slots, disk, p)
  <2>1. \A b \in Blk : b # NONE
    BY CacheConstants DEF Blk, NONE
  <2> QED  BY <1>2, <1>3, <2>1 DEF AllGood, Good
<1> QED  BY <1>1, <1>4, <1>5, <1>6 DEF CInv

LEMMA NextCoherent == IInv /\ CInv /\ [Next]_vars => CInv'
<1> SUFFICES ASSUME IInv, CInv, [Next]_vars  PROVE CInv'
  OBVIOUS
<1>1. CASE Client
  BY <1>1, AskCoherent, WireCoherent, GrowCoherent, SyncCoherent,
     SyncFailsCoherent DEF Client, Get, Put, PutThrough, Unwire
<1>2. CASE Work
  BY <1>2, FreeSlotCoherent, RotateCoherent, EvictCoherent, FillCoherent,
     FillFailsCoherent, ExtendCoherent, ExtendFailsCoherent, BwrsupCoherent
  DEF Work
<1>3. CASE UNCHANGED vars
  BY <1>3 DEF vars, CInv, CopiesOK, Room, AskedOK, SyncedOK, Saved, TurnedOK,
              AllGood, Tracked
<1> QED  BY <1>1, <1>2, <1>3 DEF Next

(* The copies of a block are right or ahead of the first one in the queue, *)
(* on top of the invariant of BlockCacheProofs.                            *)
THEOREM CoherenceInductive == Spec => [](IInv /\ CInv)
<1>1. IInv /\ CInv /\ [Next]_vars => (IInv /\ CInv)'
  BY NextOK, NextCoherent
<1>2. Init => IInv /\ CInv
  BY InitOK, InitCoherent
<1> QED  BY <1>1, <1>2, PTL DEF Spec

(* What a search for a good block finds is what was last written to it.    *)
LEMMA GoodIsCurrent ==
  ASSUME NEW p \in [Slot -> Slot], NEW b, Good(slots, disk, p, b)
  PROVE  Current(b) = "last"
<1>1. CASE ~Resident(slots, b)
  BY <1>1 DEF Good, Current
<1>2. CASE Resident(slots, b)
  <2> DEFINE o == Owner(slots, b)
  <2>1. o \in Slot /\ slots[o].inmem = b /\ First(slots, o)
    BY <1>2, OwnerIsFirst
  <2>2. Current(b) = slots[o].rec
    BY <1>2 DEF Current
  <2> HIDE DEF o
  <2>3. ~(p[o] < p[o])
    BY <2>1, CacheConstants DEF Slot
  <2> QED  BY <2>1, <2>2, <2>3 DEF Good, Right
<1> QED  BY <1>1, <1>2

(* The cache is a store: whatever bgtslt replaced, bputky wrote through    *)
(* and btsync emptied, a block no failure has touched reads as it was last *)
(* written, for every number of slots and failures.                        *)
THEOREM CacheIsAStore == Spec => []Coherent
<1>1. IInv /\ CInv => Coherent
  <2> SUFFICES ASSUME IInv, CInv, NEW b \in 1 .. super - 1, lost[b] = "no"
               PROVE  Current(b) = "last"
    BY DEF Coherent
  <2>1. PICK p \in [Slot -> Slot] : AllGood(slots, disk, p)
    BY DEF CInv
  <2>2. b \in Blk /\ Tracked(b)
    BY CacheConstants DEF IInv, Blk, ZSUPER, Tracked
  <2> QED  BY <2>1, <2>2, GoodIsCurrent DEF AllGood
<1> QED  BY <1>1, CoherenceInductive, PTL

(* btsync loses no change of the superblock when it skips bwrsup.          *)
THEOREM SuperblockKept == Spec => []SuperKept
<1>1. IInv /\ CInv => SuperKept
  <2> SUFFICES ASSUME IInv, CInv, ~smod, lost[ZSUPER] = "no"
               PROVE  Current(ZSUPER) = "last"
    BY DEF SuperKept
  <2>1. PICK p \in [Slot -> Slot] : AllGood(slots, disk, p)
    BY DEF CInv
  <2>2. ZSUPER \in Blk /\ Tracked(ZSUPER)
    BY CacheConstants DEF IInv, Blk, ZSUPER, Tracked
  <2> QED  BY <2>1, <2>2, GoodIsCurrent DEF AllGood
<1> QED  BY <1>1, CoherenceInductive, PTL

(* bqhead ends within one turn of the queue: the slots it has moved are    *)
(* the last ones, so that the head is among them only when all are wired.  *)
THEOREM HeadIsFound == Spec => []HeadFound
<1>1. IInv /\ CInv => HeadFound
  <2> SUFFICES ASSUME IInv, CInv, pc = "slot", lru.h \in turned  PROVE FALSE
    BY DEF HeadFound
  <2>1. PICK p, a \in [Slot -> Slot] :
          Ranked(lru, p, a) /\ TurnedOK(slots, p)
    BY DEF CInv
  <2>2. PICK x \in Slot : ~slots[x].busy
    BY DEF CInv, Room
  <2>3. x \notin turned
    BY <2>1, <2>2 DEF TurnedOK
  <2>4. p[x] < p[lru.h]
    BY <2>1, <2>3 DEF TurnedOK
  <2> QED  BY <2>1, <2>4, CacheConstants DEF Ranked, Slot
<1> QED  BY <1>1, CoherenceInductive, PTL

(* The slot reached after n links from the head is the one at place n.     *)
LEMMA FollowIsPlace ==
  ASSUME NEW q, QueueOK(q), NEW p, NEW a, Ranked(q, p, a), NEW F,
         F = [n \in Slot |-> IF n = 0 THEN q.h
                             ELSE IF F[n - 1] = NONE THEN NONE
                             ELSE q.nxt[F[n - 1]]],
         NEW m \in Slot
  PROVE  F[m] = a[m]
<1> DEFINE W == {n \in Slot : F[n] # a[n]}
<1> SUFFICES ASSUME m \in W  PROVE FALSE
  OBVIOUS
<1>1. Slot \subseteq Nat /\ NONE \notin Slot
  BY CacheConstants DEF Slot, NONE
<1>2. W # {} /\ W \subseteq Nat
  BY <1>1
<1>3. PICK x \in W : \A y \in W : ~(<<y, x>> \in OpToRel(<, Nat))
  <2> HIDE DEF W
  <2> QED  BY <1>2, WFMin, NatLessThanWellFounded, Zenon
<1>4. /\ p \in [Slot -> Slot] /\ a \in [Slot -> Slot]
      /\ \A s \in Slot : a[p[s]] = s /\ p[a[s]] = s
      /\ q.h \in Slot /\ p[q.h] = 0 /\ p[q.t] = NSLOT - 1
      /\ \A s \in Slot : s # q.t => q.nxt[s] \in Slot /\ p[q.nxt[s]] = p[s] + 1
  BY DEF Ranked, Inverses, QueueOK, Queue
<1>5. x \in Slot /\ x \in Nat /\ F[x] # a[x]
  BY <1>1
<1>6. x # 0
  <2>1. ASSUME x = 0  PROVE FALSE
    <3>1. F[x] = q.h
      BY <1>5, <2>1
    <3>2. a[x] = q.h
      BY <1>4, <2>1
    <3> QED  BY <1>5, <3>1, <3>2
  <2> QED  BY <2>1
<1> DEFINE z == x - 1
<1>7. z \in Slot /\ z < x /\ z \in Nat /\ z # NSLOT - 1 /\ z + 1 = x
  BY <1>5, <1>6, CacheConstants DEF Slot
<1>8. F[z] = a[z]
  <2>1. ASSUME z \in W  PROVE FALSE
    <3>1. <<z, x>> \in Nat \X Nat /\ <<z, x>>[1] = z /\ <<z, x>>[2] = x
      BY <1>5, <1>7
    <3> HIDE DEF W, z
    <3> QED  BY <1>3, <1>7, <2>1, <3>1, Zenon DEF OpToRel
  <2> QED  BY <1>7, <2>1
<1> DEFINE s == a[z]
<1>9. s \in Slot /\ p[s] = z /\ s # q.t
  BY <1>4, <1>7
<1>10. F[x] = q.nxt[s]
  <2>1. F[x] = IF x = 0 THEN q.h ELSE IF F[z] = NONE THEN NONE ELSE q.nxt[F[z]]
    BY <1>5
  <2>2. F[z] = s /\ s # NONE
    BY <1>1, <1>8, <1>9
  <2> HIDE DEF s, z
  <2> QED  BY <1>6, <2>1, <2>2
<1> HIDE DEF s, z
<1>11. q.nxt[s] \in Slot /\ p[q.nxt[s]] = x
  BY <1>4, <1>7, <1>9
<1>12. q.nxt[s] = a[x]
  BY <1>4, <1>11
<1> QED  BY <1>5, <1>10, <1>12

(* Following lrunxt from lruh visits every slot once and ends at lrut,     *)
(* after any sequence of bqmove.                                           *)
THEOREM QueueIsWhole == Spec => []QueueSound
<1>1. IInv /\ CInv => QueueSound
  <2> SUFFICES ASSUME IInv, CInv  PROVE QueueSound
    OBVIOUS
  <2> DEFINE Q[n \in Slot] == IF n = 0 THEN lru.h
                              ELSE IF Q[n - 1] = NONE THEN NONE
                              ELSE lru.nxt[Q[n - 1]]
             Body(F) == [n \in Slot |-> IF n = 0 THEN lru.h
                                        ELSE IF F[n - 1] = NONE THEN NONE
                                        ELSE lru.nxt[F[n - 1]]]
  <2>1. PICK p, a \in [Slot -> Slot] : Ranked(lru, p, a)
    BY DEF CInv
  <2>2. QueueOK(lru)
    BY DEF IInv
  <2>3. /\ p \in [Slot -> Slot] /\ a \in [Slot -> Slot]
        /\ \A s \in Slot : a[p[s]] = s /\ p[a[s]] = s
        /\ p[lru.h] = 0 /\ p[lru.t] = NSLOT - 1 /\ lru.t \in Slot
        /\ lru.h \in Slot
        /\ \A s \in Slot : s # lru.t => /\ lru.nxt[s] \in Slot
                                        /\ p[lru.nxt[s]] = p[s] + 1
    BY <2>1, <2>2 DEF Ranked, Inverses, QueueOK, Queue
  <2>4. a = Body(a)
    <3>1. ASSUME NEW n \in Slot  PROVE a[n] = Body(a)[n]
      <4>1. CASE n = 0
        BY <2>3, <4>1
      <4>2. CASE n # 0
        <5>1. n - 1 \in Slot /\ n - 1 # NSLOT - 1 /\ NONE \notin Slot
              /\ (n - 1) + 1 = n
          BY <4>2, CacheConstants DEF Slot, NONE
        <5> DEFINE s == a[n - 1]
        <5>2. s \in Slot /\ p[s] = n - 1 /\ s # lru.t /\ s # NONE
          BY <2>3, <5>1
        <5> HIDE DEF s
        <5>3. lru.nxt[s] \in Slot /\ p[lru.nxt[s]] = n
          BY <2>3, <5>1, <5>2
        <5>4. lru.nxt[s] = a[n]
          BY <2>3, <5>3
        <5>5. Body(a)[n] = lru.nxt[s]
          BY <4>2, <5>2 DEF s
        <5> QED  BY <5>4, <5>5
      <4> QED  BY <4>1, <4>2
    <3> HIDE DEF Body
    <3>2. DOMAIN Body(a) = Slot /\ Body(a) = [n \in Slot |-> Body(a)[n]]
      BY DEF Body
    <3> QED  BY <2>3, <3>1, <3>2
  <2>5. Q = CHOOSE F : F = Body(F)
    OBVIOUS
  <2> HIDE DEF Q, Body
  <2>6. Q = Body(Q)
    BY <2>4, <2>5, Zenon
  <2>7. \A n \in Slot : Q[n] = a[n]
    BY <2>1, <2>2, <2>6, FollowIsPlace DEF Body
  <2>8. NSLOT - 1 \in Slot /\ a[NSLOT - 1] = lru.t
    BY <2>3, CacheConstants DEF Slot
  <2>9. lru.nxt[lru.t] = NONE
    BY <2>2, <2>3 DEF QueueOK
  <2>10. {Q[n] : n \in Slot} = Slot
    BY <2>3, <2>7
  <2> QED  BY <2>7, <2>8, <2>9, <2>10 DEF QueueSound, Q
<1> QED  BY <1>1, CoherenceInductive, PTL
===============================================================================
