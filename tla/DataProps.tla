------------------------------ MODULE DataProps ------------------------------
(***************************************************************************)
(* The properties of data records: what the segments of all records        *)
(* together do to the blocks, and the records they stand for.              *)
(***************************************************************************)
EXTENDS DataRecords

(* The segments of the records that are stored, and of those being stored, *)
(* changed or deleted by the call under way.                               *)
Owned(k) == IF index[k] = ZNULL THEN {} ELSE SegsOf(st, index[k])
Live == lost \cup UNION {Owned(k) : k \in Key}

Extent(a) == OffOf(a) .. OffOf(a) + ZDOVRH + SegAt(st, a).size - 1
InBlock(as, b) == {a \in as : BlkOf(a) = b}

(* Between calls the free bytes of each data block are what its segments   *)
(* leave, no byte belongs to two segments or lies behind the first free    *)
(* one, and no segment belongs to two records: inserts (binsdt), updates   *)
(* that cut or extend a record (bupddt), deletes (bdeldt), and inserts     *)
(* taken back, account for every byte.  A block without segments is no     *)
(* data block any more: deldat has freed it.                               *)
SpaceExact ==
  pc = "idle" => LET live == Live IN
    /\ \A b \in BlocksOf(st, "data") :
         LET segs == InBlock(live, b)
         IN  /\ segs # {}
             /\ st.blk[b].free = CAP - Filled(st, segs)
             /\ \A a \in segs :
                  /\ Extent(a) \subseteq 0 .. st.blk[b].first - 1
                  /\ \A c \in segs \ {a} : Extent(a) \cap Extent(c) = {}
    /\ \A a \in live : TypeAt(st, a) = "data"
    /\ \A j, k \in Key : j # k => Owned(j) \cap Owned(k) = {}
    /\ \A k \in Key : Owned(k) \cap lost = {}

(* The data blocks are linked both ways, the free list has the free blocks *)
(* and no other, as many as the superblock counts, and the active block of *)
(* the root is a data block at the front of its list: what binsdt checks   *)
(* ("sanity check") and what deldat needs to take a block out of the       *)
(* middle of a list, however blocks were freed and used again in between,  *)
(* as data blocks or as blocks of the tree.                                *)
ListsSound ==
  LET data == BlocksOf(st, "data")
  IN  /\ \A b \in data :
           /\ st.blk[b].nxt = ZNULL \/
                (st.blk[b].nxt \in data /\ st.blk[st.blk[b].nxt].prv = b)
           /\ st.blk[b].prv = ZNULL \/
                (st.blk[b].prv \in data /\ st.blk[st.blk[b].prv].nxt = b)
      /\ st.head["data"] \in data \cup {ZNULL}
      /\ st.head["data"] # ZNULL => st.blk[st.head["data"]].prv = ZNULL
      /\ FreeList(st) = {b \in Blk : st.blk[b].type = "free"}
      /\ Cardinality(FreeList(st)) = st.nfree

(* The list of data blocks is kept "to allow blocks to be returned to the  *)
(* free list, without destroying the data block chain for this root"       *)
(* (btdata.c:686), and btdelr follows it to return "all blocks owned by    *)
(* the target root" (doc/btlib.adoc:583).  deldat breaks it in one case    *)
(* and in no other: a block that leaves the list, and is a data block      *)
(* still, was behind the active block, and the root has none now.          *)
ChainLostOnlyWithHead ==
  [][ \A b \in Chain(st, "data") \ Chain(st, "data")' :
        (st.blk[b].type = "data")' =>
           st.head["data"] # ZNULL /\ (st.head["data"] = ZNULL)' ]_vars

(* Every call returns: no chain of segments leads back into itself.        *)
DataCallsReturn == (pc # "idle") ~> (pc = "idle")

----------------------------------------------------------------------------
(* The record of the key at work is the old one until the call returns;    *)
(* the others are what their segments hold at each moment.                 *)
RecordOf(k) ==
  IF pc # "idle" /\ k = op.key THEN old
  ELSE IF index[k] = ZNULL THEN NoRec ELSE BytesAt(st, index[k])

RS == INSTANCE RecordStore WITH
        recs  <- [k \in Key |-> RecordOf(k)],
        call  <- op,
        err   <- IF pc = "idle" THEN err ELSE "OK",
        out   <- IF pc = "idle" THEN out ELSE <<>>,
        rsize <- IF pc = "idle" THEN rsize ELSE 0

(* DataRecords implements the store of module RecordStore: what is read is *)
(* what was written last, however it was split, cut and extended, no call  *)
(* touches a record of another key at any of its steps, and an update that *)
(* finds no space leaves the front of the new record and an error.         *)
ImplementsRecords == RS!Spec
=============================================================================
