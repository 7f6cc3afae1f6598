----------------------------- MODULE DataRecords -----------------------------
(***************************************************************************)
(* Data records (btdata.c) of one root of a file open in exclusive, write  *)
(* mode, duplicate keys off: btins, btupd, btdel, btsel, btseln, btselp,   *)
(* btrecs.  The key index is what module Index says of it: a map from keys *)
(* to addresses, which takes blocks from the same free list.               *)
(*                                                                         *)
(* A call is a sequence of steps, one for each turn of the loops of        *)
(* binsdt, bupddt, bdeldt, bseldt and brecsz.                              *)
(***************************************************************************)
EXTENDS Segments

CONSTANTS
  Key,      (* a set of integers                                           *)
  Sizes,    (* the sizes of the records of each key                        *)
  Space,    (* the sizes of the buffers given to btsel                     *)
  MaxTree,  (* the blocks the tree may take, besides its root              *)
  MaxLost,  (* no record is inserted or updated when more segments than    *)
            (* this are lost                                               *)
  NoKey, NoRec

ASSUME RecordConstants ==
  /\ Key \subseteq Nat /\ NoKey \notin Key
  /\ Sizes \in [Key -> SUBSET Nat] /\ Space \subseteq Nat /\ MaxTree \in Nat
  /\ MaxLost \in Nat
  /\ NoData \notin Seq(Key \X Nat \X Nat) /\ NoRec \notin Seq(Key \X Nat \X Nat)

(* Bytes tell for which key, in a record of which size and at which place  *)
(* they were written.                                                      *)
RecordFor(k) == IF k = NoKey THEN {} ELSE
  {[i \in 1 .. n |-> <<k, n, i>>] : n \in Sizes[k]}
Record == UNION {RecordFor(k) : k \in Key}

VARIABLES
  st,     (* the store of segments                                         *)
  index,  (* the address of the record of each key, ZNULL if not stored    *)
  lf,     (* the last find: its key and whether it is the current key      *)
  pc,     (* the routine that runs next; "idle" between calls              *)
  op,     (* the call under way                                            *)
  d,      (* the local draddr                                              *)
  rem,    (* remsize of binsdt, remsz of bupddt, sprem of bseldt           *)
  base,   (* how far bupddt has got in the record: the bytes before rem    *)
  tail,   (* bupddt: the segment it wrote last                             *)
  err,    (* btgerr()                                                      *)
  out, rsize,  (* what btsel and btrecs return                             *)
  lost,   (* a ghost: segments that no record has and that were not        *)
          (* deleted                                                       *)
  old     (* a ghost: the record of op.key when the call began             *)

vars == <<st, index, lf, pc, op, d, rem, base, tail, err, out, rsize, lost,
          old>>
local == <<d, rem, base, tail>>

NoOp == [name |-> "none", key |-> NoKey, rec |-> <<>>, size |-> 0]
Stored == {k \in Key : index[k] # ZNULL}

(* The segments of the record at a, and its bytes.  No record has more     *)
(* segments than there are places for them.                                *)
MaxSegs == Cardinality(Addr)
SegsOf(s, a) == Trail([p \in Addr |-> SegAt(s, p).next], a)
BytesAt(s, a) ==
  LET F[n \in 0 .. MaxSegs] ==
        [p \in Int |->
           IF n = 0 \/ p \notin Addr THEN <<>>
           ELSE IF SegAt(s, p) = NoSeg THEN <<NoData>>
           ELSE SegAt(s, p).data \o F[n - 1][SegAt(s, p).next]]
  IN  F[MaxSegs][a]

RecTypeOK ==
  /\ st.head \in [Seg -> Blk \cup {ZNULL}]
  /\ st.freep \in Blk \cup {ZNULL} /\ st.nfree \in 0 .. MAXBLK
  /\ st.blkmx \in 2 .. st.limit /\ st.limit \in Limits
  /\ \A b \in Blk :
       /\ st.blk[b].type \in {"none", "free", "index", "data"}
       /\ st.blk[b].free \in 0 .. CAP /\ st.blk[b].first \in 0 .. CAP
  /\ index \in [Key -> Addr \cup {ZNULL}]
  /\ lf \in [key : Key \cup {NoKey}, exct : BOOLEAN]
  /\ d \in Addr \cup {0, ZNULL}
  /\ rem \in Int /\ base \in Nat /\ tail \in Addr \cup {0}

Init ==
  /\ \E n \in Limits : st = NewStore(n)
  /\ index = [k \in Key |-> ZNULL]
  /\ lf = [key |-> NoKey, exct |-> FALSE]
  /\ pc = "idle" /\ op = NoOp
  /\ d = 0 /\ rem = 0 /\ base = 0 /\ tail = 0
  /\ err = "OK" /\ out = <<>> /\ rsize = 0
  /\ lost = {} /\ old = NoRec

----------------------------------------------------------------------------
(* How calls start and end.  bterr keeps the first error.                  *)
First(e) == IF err = "OK" THEN e ELSE err

Start(routine, name, k, rec, size) ==
  /\ pc = "idle" /\ pc' = routine
  /\ op' = [name |-> name, key |-> k, rec |-> rec, size |-> size]
  /\ base' = 0 /\ tail' = 0
  /\ err' = "OK" /\ out' = <<>> /\ rsize' = 0
  /\ old' = IF index[k] = ZNULL THEN NoRec ELSE BytesAt(st, index[k])
  /\ UNCHANGED <<st, index, lost>>

Return(e) ==
  /\ pc' = "idle" /\ op' = NoOp /\ old' = NoRec
  /\ d' = 0 /\ rem' = 0 /\ base' = 0 /\ tail' = 0
  /\ err' = e

(* A call that ends before it does anything.                               *)
Refuse(e) ==
  /\ pc = "idle" /\ Return(e)
  /\ out' = <<>> /\ rsize' = 0
  /\ UNCHANGED <<st, index, lost>>

(* setup, and the bfndky of btsel, for a key or for NULL (NoKey), where    *)
(* the key is there: it becomes the current key.  setup also looks whether *)
(* the address is one of a data block.                                     *)
Target(k) == IF k = NoKey THEN lf.key ELSE k
Selects(k) ==
  /\ k = NoKey => lf.exct
  /\ Target(k) \in Stored /\ TypeAt(st, index[Target(k)]) = "data"
  /\ lf' = [key |-> Target(k), exct |-> TRUE]
  /\ d' = index[Target(k)]

(* ... where there is no current key, and where the key is not there.      *)
Misses(k) ==
  \/ k = NoKey /\ ~lf.exct /\ Refuse("QBADCTXT") /\ UNCHANGED lf
  \/ /\ k \in Key \ Stored /\ Refuse("QNOKEY")
     /\ lf' = [key |-> k, exct |-> FALSE]

Btins(k, rec) ==
  /\ Start("binsdt", "ins", k, rec, 0)
  /\ d' = 0 /\ rem' = Len(rec)
  /\ UNCHANGED lf

Btupd(k) ==
  \/ \E rec \in RecordFor(Target(k)) :
       /\ Selects(k) /\ rem' = Len(rec)
       /\ Start("bupddt", "upd", Target(k), rec, 0)
  \/ Misses(k)

Btdel(k) ==
  \/ /\ Selects(k) /\ rem' = 0
     /\ Start("bdeldt", "del", Target(k), <<>>, 0)
  \/ Misses(k)

Btrecs(k) ==
  \/ /\ Selects(k) /\ rem' = 0
     /\ Start("brecsz", "recs", Target(k), <<>>, 0)
  \/ Misses(k)

Btsel(k, n) ==
  \/ /\ Selects(k) /\ rem' = n
     /\ Start("bseldt", "sel", k, <<>>, n)
  \/ Misses(k)

(* bnxtky and bprvky of an index: the nearest key, from where the last     *)
(* find ended.                                                             *)
Following == {k \in Stored : k > lf.key \/ (k = lf.key /\ ~lf.exct)}
Preceding == {k \in Stored : k < lf.key}

Moves(ks, k, n) ==
  \/ /\ k \in ks /\ Selects(k) /\ rem' = n
     /\ Start("bseldt", "sel", k, <<>>, n)
  \/ /\ ks = {} /\ Refuse("QNOKEY")
     /\ lf' = [key |-> NoKey, exct |-> FALSE]

Btseln(n) ==
  LET ks == IF lf.key = NoKey THEN {} ELSE Following
  IN  \E k \in Key : (k \in ks => \A j \in ks : k <= j) /\ Moves(ks, k, n)

Btselp(n) ==
  LET ks == IF lf.key = NoKey THEN {} ELSE Preceding
  IN  \E k \in Key : (k \in ks => \A j \in ks : k >= j) /\ Moves(ks, k, n)

----------------------------------------------------------------------------
(* binsdt: the bytes base + 1 .. base + rem of the record, last part       *)
(* first; d is the address of the part stored so far.                      *)
Part(n) == SubSeq(op.rec, base + rem - n + 1, base + rem)
NeedsBlock ==
  st.head["data"] # ZNULL =>
    /\ Room(st, "data") < rem + ZDOVRH
    /\ Room(st, "data") < ZDOVRH + ZDSGMN

unchangedByIns == <<index, lf, op, base, tail, out, rsize, old>>

(* Faulty variant: the bytes in front of the segment not asked for.        *)
InsRestTight ==
  /\ pc = "binsdt" /\ st.head["data"] # ZNULL
  /\ Room(st, "data") >= rem
  /\ Room(st, "data") > 0
  /\ st' = InsDat(st, "data", rem, Part(rem), d)
  /\ d' = InsAddr(st, "data") /\ rem' = -1
  /\ pc' = IF op.name = "ins" THEN "binsky" ELSE "relink"
  /\ UNCHANGED <<unchangedByIns, err, lost>>

(* The rest of the record fits.                                            *)
InsRest ==
  /\ pc = "binsdt" /\ st.head["data"] # ZNULL
  /\ Room(st, "data") >= rem + ZDOVRH
  /\ st' = InsDat(st, "data", rem, Part(rem), d)
  /\ d' = InsAddr(st, "data") /\ rem' = -1
  /\ pc' = IF op.name = "ins" THEN "binsky" ELSE "relink"
  /\ UNCHANGED <<unchangedByIns, err, lost>>

(* A segment fills the active block.                                       *)
InsPart ==
  /\ pc = "binsdt" /\ st.head["data"] # ZNULL
  /\ Room(st, "data") < rem + ZDOVRH
  /\ Room(st, "data") >= ZDOVRH + ZDSGMN
  /\ LET n == Room(st, "data") - ZDOVRH
     IN  /\ st' = InsDat(st, "data", n, Part(n), d)
         /\ rem' = rem - n
  /\ d' = InsAddr(st, "data")
  /\ UNCHANGED <<unchangedByIns, pc, err, lost>>

InsBlock ==
  /\ pc = "binsdt" /\ NeedsBlock /\ GetFree(st) # ZNULL
  /\ st' = IF st.head["data"] = ZNULL THEN FirstBlock(st, "data")
                                      ELSE ChainBlock(st, "data")
  /\ UNCHANGED <<unchangedByIns, d, rem, pc, err, lost>>

(* No block is to be had.  What was stored stays where it is.              *)
InsFails ==
  /\ pc = "binsdt" /\ NeedsBlock /\ GetFree(st) = ZNULL
  /\ lost' = lost \cup SegsOf(st, d)
  /\ IF op.name = "ins"
     THEN Return(First(NoFree(st))) /\ UNCHANGED <<index, lf, out, rsize>>
     ELSE /\ d' = 0 /\ pc' = "relink" /\ err' = First(NoFree(st))
          /\ UNCHANGED <<unchangedByIns, rem>>
  /\ UNCHANGED st

(* binsky with the address of the record.  The tree may take a block, and  *)
(* may need one where there is none.                                       *)
TreeTakes(s) ==
  IF GetFree(s) = ZNULL \/ Cardinality(BlocksOf(s, "index")) >= MaxTree THEN {}
  ELSE {[Taken(s) EXCEPT !.blk[GetFree(s)].type = "index"]}

InsKey ==
  /\ pc = "binsky" /\ op.key \notin Stored
  /\ index' = [index EXCEPT ![op.key] = d]
  /\ lf' = [key |-> op.key, exct |-> FALSE]
  /\ st' \in {st} \cup TreeTakes(st)
  /\ Return("OK") /\ UNCHANGED <<out, rsize, lost>>

(* The key is not inserted: the record is deleted again.                   *)
InsKeyFails ==
  /\ pc = "binsky" /\ pc' = "bdeldt"
  /\ \/ /\ op.key \in Stored /\ err' = "QDUP"
        /\ lf' = [key |-> op.key, exct |-> TRUE]
     \/ /\ GetFree(st) = ZNULL /\ err' = "QF2BIG"
        /\ lf' = [key |-> op.key, exct |-> FALSE]
  /\ UNCHANGED <<st, index, op, local, out, rsize, lost, old>>

----------------------------------------------------------------------------
(* bupddt: one segment overwritten.  The one in which the record ends is   *)
(* cut there; so is one behind it, to no bytes (the loop runs until rem is *)
(* negative), and nothing refers to that one any more.                     *)
Copied(s) == IF s.size > rem THEN rem ELSE s.size

(* Faulty variant: the bytes cut off are not counted as free.              *)
UpdSegUncounted ==
  /\ pc = "bupddt" /\ d # 0 /\ rem >= 0
  /\ LET s == SegAt(st, d)  n == Copied(s)  last == n = rem
         new == [size |-> n, next |-> IF last THEN 0 ELSE s.next,
                 data |-> SubSeq(op.rec, base + 1, base + n)]
     IN  /\ st' = SetSeg(st, d, new)
         /\ rem' = IF last /\ n = 0 THEN -1 ELSE rem - n
         /\ base' = base + n
         /\ d' = s.next
  /\ tail' = d
  /\ lost' = IF rem = 0 /\ tail # 0 THEN lost \cup {d} ELSE lost
  /\ UNCHANGED <<index, lf, pc, op, err, out, rsize, old>>

UpdSeg ==
  /\ pc = "bupddt" /\ d # 0 /\ rem >= 0
  /\ LET s == SegAt(st, d)  n == Copied(s)  last == n = rem
         new == [size |-> n, next |-> IF last THEN 0 ELSE s.next,
                 data |-> SubSeq(op.rec, base + 1, base + n)]
     IN  /\ st' = [SetSeg(st, d, new) EXCEPT !.blk[BlkOf(d)].free =
                      IF last THEN @ + s.size - n ELSE @]
         /\ rem' = IF last /\ n = 0 THEN -1 ELSE rem - n
         /\ base' = base + n
         /\ d' = s.next
  /\ tail' = d
  /\ lost' = IF rem = 0 /\ tail # 0 THEN lost \cup {d} ELSE lost
  /\ UNCHANGED <<index, lf, pc, op, err, out, rsize, old>>

(* The rest of the old record is deleted, or the rest of the new one       *)
(* stored, or neither.                                                     *)
UpdRest ==
  /\ pc = "bupddt" /\ (d = 0 \/ rem < 0)
  /\ IF d = 0 /\ rem <= 0
     THEN Return(err) /\ UNCHANGED <<lf, out, rsize>>
     ELSE /\ pc' = IF d # 0 THEN "bdeldt" ELSE "binsdt"
          /\ UNCHANGED <<lf, op, local, err, out, rsize, old>>
  /\ UNCHANGED <<st, index, lost>>

(* Faulty variant: the new segments are not linked to the old ones.        *)
UpdLinkForgotten ==
  /\ pc = "relink"
  /\ Return(err) /\ UNCHANGED <<st, index, lf, out, rsize, lost>>

(* The last of the old segments leads to the new ones, if there are any.   *)
UpdLink ==
  /\ pc = "relink"
  /\ st' = [st EXCEPT !.blk[BlkOf(tail)].seg[OffOf(tail)].next = d]
  /\ Return(err) /\ UNCHANGED <<index, lf, out, rsize, lost>>

----------------------------------------------------------------------------
(* bdeldt: one segment.  The program leaves its bytes in the block; no     *)
(* routine reads them again.                                               *)
DelSeg ==
  /\ pc = "bdeldt" /\ d # 0
  /\ st' = SetSeg(DelDat(st, d), d, NoSeg)
  /\ err' = First(DelDatErr(st, d))
  /\ d' = SegAt(st, d).next
  /\ UNCHANGED <<index, lf, pc, op, rem, base, tail, out, rsize, lost, old>>

(* bdelky(NULL) of an index, which may give a block back, and may need one *)
(* where there is none (after it has removed the key).                     *)
TreeGives(s) == {MakeFree(s, b) : b \in BlocksOf(s, "index")}

DelDone ==
  /\ pc = "bdeldt" /\ d = 0
  /\ IF op.name # "del"
     THEN Return(err) /\ UNCHANGED <<st, index, lf>>
     ELSE /\ index' = [index EXCEPT ![op.key] = ZNULL]
          /\ lf' = [key |-> op.key, exct |-> FALSE]
          /\ \/ Return(err) /\ st' \in {st} \cup TreeGives(st)
             \/ GetFree(st) = ZNULL /\ Return(First("QF2BIG")) /\ st' = st
  /\ UNCHANGED <<out, rsize, lost>>

----------------------------------------------------------------------------
(* Faulty variant: the loop does not advance past an empty segment.        *)
SelSegStays ==
  /\ pc = "bseldt" /\ rem > 0 /\ d # 0
  /\ LET s == SegAt(st, d)  n == Copied(s)
     IN  /\ out' = out \o SubSeq(s.data, 1, n)
         /\ rsize' = rsize + n /\ rem' = rem - n
         /\ d' = IF n = 0 THEN d ELSE s.next
  /\ UNCHANGED <<st, index, lf, pc, op, base, tail, err, lost, old>>

(* bseldt and brecsz: one segment.                                         *)
SelSeg ==
  /\ pc = "bseldt" /\ rem > 0 /\ d # 0
  /\ LET s == SegAt(st, d)  n == Copied(s)
     IN  /\ out' = out \o SubSeq(s.data, 1, n)
         /\ rsize' = rsize + n /\ rem' = rem - n
         /\ d' = s.next
  /\ UNCHANGED <<st, index, lf, pc, op, base, tail, err, lost, old>>

RecSeg ==
  /\ pc = "brecsz" /\ d # 0
  /\ rem' = rem + SegAt(st, d).size
  /\ d' = SegAt(st, d).next
  /\ UNCHANGED <<st, index, lf, pc, op, base, tail, err, out, rsize, lost, old>>

SelDone ==
  /\ \/ pc = "bseldt" /\ (rem = 0 \/ d = 0) /\ UNCHANGED rsize
     \/ pc = "brecsz" /\ d = 0 /\ rsize' = rem
  /\ Return(err) /\ UNCHANGED <<st, index, lf, out, lost>>

----------------------------------------------------------------------------
Call ==
  /\ pc = "idle"
  /\ \/ /\ Cardinality(lost) <= MaxLost
        /\ \/ \E k \in Key : \E rec \in RecordFor(k) : Btins(k, rec)
           \/ \E k \in Key \cup {NoKey} : Btupd(k)
     \/ \E k \in Key \cup {NoKey} : Btdel(k)
     \/ \E k \in Key \cup {NoKey} : Btrecs(k)
     \/ \E k \in Key, n \in Space : Btsel(k, n)
     \/ \E n \in Space : Btseln(n)
     \/ \E n \in Space : Btselp(n)

Step ==
  \/ InsRest \/ InsPart \/ InsBlock \/ InsFails \/ InsKey \/ InsKeyFails
  \/ UpdSeg \/ UpdRest \/ UpdLink
  \/ DelSeg \/ DelDone \/ SelSeg \/ RecSeg \/ SelDone

Next == Call \/ Step

Spec == Init /\ [][Next]_vars
FairSpec == Spec /\ WF_vars(Step)
=============================================================================
