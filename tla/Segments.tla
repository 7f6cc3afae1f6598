------------------------------ MODULE Segments ------------------------------
(***************************************************************************)
(* The blocks in which btdata.c keeps data records (type "data") and       *)
(* duplicate key entries (type "dup") of one root: an area of CAP bytes    *)
(* filled from the front, in which each segment is preceded by ZDOVRH      *)
(* bytes for its size and for the address of the next segment.             *)
(*                                                                         *)
(* A store st is the part of the file these routines see: the blocks, the  *)
(* heads of the two lists in the root block, and the free list of the      *)
(* superblock.  The routines are operators from stores to stores.          *)
(***************************************************************************)
EXTENDS Integers, Sequences, FiniteSetsExt

CONSTANTS
  MAXBLK,    (* blocks are numbered from 0; 0 is the superroot, 1 the root *)
  ZBLKSZ,    (* bytes in a block                                           *)
  CAP,       (* ZBLKSZ - ZINFSZ * ZBPW: bytes for segments in a block      *)
  ZDOVRH,    (* bytes in front of a segment                                *)
  ZDSGMN,    (* the smallest segment that is worth storing, of a record    *)
  DKEYSZ,    (* sizeof(DKEY): duplicate key entries are never split        *)
  Limits,    (* the sizes, in blocks, the file may be confined to          *)
  NoData     (* what a byte of a block is that was never written           *)

ASSUME SegmentConstants ==
  /\ MAXBLK \in Nat /\ MAXBLK > 2
  /\ ZDOVRH \in Nat \ {0} /\ ZDSGMN \in Nat \ {0} /\ DKEYSZ \in Nat \ {0}
  /\ CAP \in Nat /\ CAP >= ZDOVRH + ZDSGMN /\ CAP >= ZDOVRH + DKEYSZ
  /\ ZBLKSZ \in Nat /\ ZBLKSZ > CAP
  /\ Limits \subseteq 2 .. MAXBLK

ZNULL == -1
Blk    == 2 .. MAXBLK - 1
Offset == 0 .. CAP - 1
Seg    == {"data", "dup"}                       (* the types with segments *)
MinSeg(type) == IF type = "data" THEN ZDSGMN ELSE DKEYSZ

(* Addresses of segments.  No segment is in block 0, so that 0 is free to  *)
(* mean the end of a chain.                                                *)
mkdraddr(b, o) == b * ZBLKSZ + o
BlkOf(d) == d \div ZBLKSZ
OffOf(d) == d % ZBLKSZ
Addr == {mkdraddr(b, o) : b \in Blk, o \in Offset}

NoSeg == [size |-> 0, next |-> 0, data |-> NoData]

(* A block that was not used yet; "index" are the blocks of the tree.      *)
NewBlock == [type |-> "none", free |-> 0, nxt |-> ZNULL, first |-> 0,
             prv |-> ZNULL, seg |-> [o \in Offset |-> NoSeg]]

NewStore(limit) ==
  [blk   |-> [b \in Blk |-> NewBlock],
   head  |-> [t \in Seg |-> ZNULL],
   freep |-> ZNULL, nfree |-> 0, blkmx |-> 2, limit |-> limit]

(* A block other than one of Blk is no data block: bgtinf of it yields a   *)
(* type that no caller of these routines accepts.                          *)
Type(st, b)  == IF b \in Blk THEN st.blk[b].type ELSE "root"
TypeAt(st, d) == Type(st, BlkOf(d))
SegAt(st, d) == st.blk[BlkOf(d)].seg[OffOf(d)]
SetSeg(st, d, s) == [st EXCEPT !.blk[BlkOf(d)].seg[OffOf(d)] = s]

----------------------------------------------------------------------------
(* bgtfre: the block it returns, the store it leaves, the error when it    *)
(* returns ZNULL.                                                          *)
GetFree(st) ==
  IF st.freep # ZNULL
  THEN IF Type(st, st.freep) = "free" THEN st.freep ELSE ZNULL
  ELSE IF st.blkmx < st.limit THEN st.blkmx ELSE ZNULL

Taken(st) ==
  IF st.freep # ZNULL
  THEN [st EXCEPT !.freep = st.blk[st.freep].nxt, !.nfree = @ - 1]
  ELSE [st EXCEPT !.blkmx = @ + 1]

NoFree(st) == IF st.freep # ZNULL THEN "QNOTFR" ELSE "QF2BIG"

(* bmkfre: the bytes of the block stay as they are.                        *)
MakeFree(st, b) ==
  LET isDupHead == Type(st, b) = "dup" /\ st.head["dup"] = b
  IN  [st EXCEPT !.blk[b] = [type |-> "free", free |-> 0, first |-> 0,
                             nxt |-> st.freep, prv |-> 0, seg |-> @.seg],
                 !.head["dup"] = IF isDupHead THEN ZNULL ELSE @,
                 !.freep = b, !.nfree = @ + 1]

(* mkdblk, when bgtfre has a block: the block is GetFree(st).              *)
MakeBlock(st, type) ==
  [Taken(st) EXCEPT !.blk[GetFree(st)] =
     [type |-> type, free |-> CAP, first |-> 0, nxt |-> ZNULL, prv |-> ZNULL,
      seg |-> @.seg]]

(* binsdt, when the root has no active block of the type.                  *)
FirstBlock(st, type) ==
  [MakeBlock(st, type) EXCEPT !.head[type] = GetFree(st)]

(* Faulty variant: the old head does not learn of its predecessor.         *)
ChainBlockOneWay(st, type) ==
  LET n == GetFree(st)
  IN  [MakeBlock(st, type) EXCEPT !.blk[n].nxt = st.head[type],
                                  !.head[type] = n]

(* binsdt, when the active block is too full: a new block in front of it.  *)
ChainBlock(st, type) ==
  LET n == GetFree(st)  h == st.head[type]
  IN  [MakeBlock(st, type) EXCEPT !.blk[n].nxt = h, !.blk[h].prv = n,
                                  !.head[type] = n]

(* Bytes from the first free one of the active block to its end.           *)
Room(st, type) == CAP - st.blk[st.head[type]].first

(* insdat into the active block; the address of the segment.               *)
InsDat(st, type, size, data, next) ==
  LET b == st.head[type]  was == st.blk[b]
      new == [size |-> size, next |-> next, data |-> data]
  IN  [st EXCEPT !.blk[b] = [was EXCEPT !.seg[was.first] = new,
                                        !.first = was.first + ZDOVRH + size,
                                        !.free = was.free - (ZDOVRH + size)]]
InsAddr(st, type) == mkdraddr(st.head[type], st.blk[st.head[type]].first)

(* The bytes that the segments at the addresses as take.                   *)
Filled(st, as) ==
  FoldSet(LAMBDA a, n : n + ZDOVRH + SegAt(st, a).size, 0, as)

(* The free bytes of a block without the segment at d.                     *)
FreedTo(st, d) == st.blk[BlkOf(d)].free + SegAt(st, d).size + ZDOVRH

(* Faulty variant: the block before b still leads to b.                    *)
UnlinkedOneWay(st, b) ==
  LET n == st.blk[b].nxt  p == st.blk[b].prv
  IN  IF n # ZNULL THEN [st EXCEPT !.blk[n].prv = p] ELSE st

(* The neighbours of block b in its list linked to each other.             *)
Unlinked(st, b) ==
  LET n == st.blk[b].nxt  p == st.blk[b].prv
      s1 == IF n # ZNULL THEN [st EXCEPT !.blk[n].prv = p] ELSE st
  IN  IF p # ZNULL THEN [s1 EXCEPT !.blk[p].nxt = n] ELSE s1

(* deldat: the segment is no longer counted; a block without segments is   *)
(* taken out of its list and freed, and a root of which it was the active  *)
(* data block is left without one.                                         *)
DelDat(st, d) ==
  LET b == BlkOf(d)  f == FreedTo(st, d)
  IN  IF f = CAP
      THEN LET s1 == MakeFree(Unlinked([st EXCEPT !.blk[b].free = f], b), b)
           IN  [s1 EXCEPT !.head["data"] = IF @ = b THEN ZNULL ELSE @]
      ELSE IF f \in 0 .. CAP THEN [st EXCEPT !.blk[b].free = f] ELSE st

DelDatErr(st, d) == IF FreedTo(st, d) \in 0 .. CAP THEN "OK" ELSE "QNEGSZ"

----------------------------------------------------------------------------
(* The places a chain of links leads through from p: nx says where each    *)
(* place leads, and is applied once for each place there is.               *)
Trail(nx, p) ==
  LET F[n \in 0 .. Cardinality(DOMAIN nx)] ==
        [q \in Int |-> IF n = 0 \/ q \notin DOMAIN nx THEN {}
                       ELSE {q} \cup F[n - 1][nx[q]]]
  IN  F[Cardinality(DOMAIN nx)][p]

(* The blocks of the free list, and of a list of blocks from its head.     *)
Follow(st, b) == Trail([p \in Blk |-> st.blk[p].nxt], b)
FreeList(st) == Follow(st, st.freep)
Chain(st, type) == Follow(st, st.head[type])
BlocksOf(st, type) == {b \in Blk : st.blk[b].type = type}
=============================================================================
