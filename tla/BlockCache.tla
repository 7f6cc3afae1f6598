------------------------------ MODULE BlockCache ------------------------------
(***************************************************************************)
(* The blocks of an index file in memory: brdblk, bwrblk, bgtslt, bsetbs,  *)
(* the queue of btque, the write-through threshold, the part of bgtfre     *)
(* that makes the file longer, btsync and bwrsup.                          *)
(*                                                                         *)
(* The rest of the library is a client that reads, changes and wires       *)
(* blocks one request at a time.  Reads and writes of the file may fail.   *)
(* BTree takes what this module does for a store of blocks; Coherent says  *)
(* when that is right.                                                     *)
(***************************************************************************)
EXTENDS Integers, FiniteSets

CONSTANTS
  NSLOT,      (* ZMXBLK: slots for blocks in memory                        *)
  NBLK,       (* the file never has more blocks than this                  *)
  Threshold,  (* wt_threshold, as btthresh has set it                      *)
  MaxWrites,  (* the count of writes is not followed past this number      *)
  MaxFails,   (* at most this many reads and writes of the file fail       *)
  Wirable     (* the blocks that are wired at one time or another          *)

(* inc/bc.h rejects a build with fewer than three slots.  A count of       *)
(* writes is only compared with zero and with the threshold.               *)
ASSUME CacheConstants ==
  /\ NSLOT \in Nat /\ NSLOT >= 3
  /\ NBLK \in Nat /\ NBLK >= 2
  /\ Threshold \in Nat /\ Threshold < MaxWrites
  /\ MaxWrites \in Nat /\ MaxFails \in Nat
  /\ Wirable \subseteq Nat

NONE   == -1
ZSUPER == 0
Slot   == 0 .. NSLOT - 1
Blk    == 0 .. NBLK - 1

(* Of the content of a block only this is kept: whether it is what was     *)
(* last written to that block (in the superblock: what the context says),  *)
(* or something else.                                                      *)
Rec == {"last", "other"}

VARIABLES
  disk,       (* the blocks of the file                                    *)
  slots,      (* cntrl and memrec: the block in each slot, its content,    *)
              (* whether it is wired, the writes since it was saved        *)
  lru,        (* lruh, lrut and the lrunxt of each slot                    *)
  super,      (* super.sblkmx, which stands for the whole superblock       *)
  smod,       (* super.smod # 0                                            *)
  pc,         (* the routine that runs next; "idle" between requests       *)
  req,        (* the request: its name and its block                       *)
  vic,        (* the slot bgtslt returned                                  *)
  turned,     (* a ghost: the slots bqhead has moved in this request       *)
  fails,      (* failures so far                                           *)
  lost        (* a ghost: blocks hit by a failure, and whether the call    *)
              (* that met it returned an error                             *)

vars == <<disk, slots, lru, super, smod, pc, req, vic, turned,
          fails, lost>>
file == <<disk, super, smod>>

Request == {"none", "get", "put", "through", "wire", "unwire", "grow", "super"}
NoReq   == [name |-> "none", blk |-> NONE]

EmptySlot == [inmem |-> NONE, rec |-> "other", busy |-> FALSE, writes |-> 0]

(* initcntrl: no block in memory, the slots queued in order.               *)
NoSlots == [s \in Slot |-> EmptySlot]
NewQueue == [h |-> 0, t |-> NSLOT - 1,
             nxt |-> [s \in Slot |-> IF s = NSLOT - 1 THEN NONE ELSE s + 1]]

(* The type invariant: slots and blocks are indexed within their bounds.   *)
CacheTypeOK ==
  /\ disk \in [Blk -> Rec]
  /\ slots \in [Slot -> [inmem : Blk \cup {NONE}, rec : Rec, busy : BOOLEAN,
                         writes : 0 .. MaxWrites]]
  /\ lru \in [h : Slot, t : Slot, nxt : [Slot -> Slot \cup {NONE}]]
  /\ super \in 2 .. NBLK /\ smod \in BOOLEAN
  /\ pc \in {"idle", "slot", "fill", "super"}
  /\ req \in [name : Request, blk : Blk \cup {NONE}]
  /\ vic \in Slot \cup {NONE} /\ turned \subseteq Slot
  /\ fails \in 0 .. MaxFails
  /\ lost \in [Blk -> {"no", "told", "silent"}]

(* btopn has read a file of two blocks: the superroot and a root.          *)
Init ==
  /\ disk = [b \in Blk |-> "last"]
  /\ slots = NoSlots /\ lru = NewQueue
  /\ super = 2 /\ smod = FALSE
  /\ pc = "idle" /\ req = NoReq /\ vic = NONE /\ turned = {}
  /\ fails = 0
  /\ lost = [b \in Blk |-> "no"]

----------------------------------------------------------------------------
(* The search for a block in memory takes the first slot that has it.      *)
Resident(S, b) == \E s \in Slot : S[s].inmem = b
Owner(S, b) ==
  CHOOSE s \in Slot : S[s].inmem = b /\ \A r \in Slot : S[r].inmem = b => s <= r

(* Faulty variant: a slot in the middle of the queue is not taken out.     *)
MoveNoUnlink(q, s) ==
  IF s = q.t THEN q
  ELSE [h |-> IF s = q.h THEN q.nxt[s] ELSE q.h,
        t |-> s,
        nxt |-> [r \in Slot |-> IF r = s THEN NONE
                                ELSE IF r = q.t THEN s ELSE q.nxt[r]]]

(* Faulty variant: the link of the slot is cleared before it is used.      *)
MoveCutFirst(q, s) ==
  IF s = q.t THEN q
  ELSE [h |-> IF s = q.h THEN NONE ELSE q.h,
        t |-> s,
        nxt |-> [r \in Slot |-> IF r = s THEN NONE
                                ELSE IF r = q.t THEN s
                                ELSE IF q.nxt[r] = s THEN NONE
                                ELSE q.nxt[r]]]

(* bqmove: slot s goes to the tail of the queue.                           *)
Move(q, s) ==
  IF s = q.t THEN q
  ELSE [h |-> IF s = q.h THEN q.nxt[s] ELSE q.h,
        t |-> s,
        nxt |-> [r \in Slot |-> IF r = s THEN NONE
                                ELSE IF r = q.t THEN s
                                ELSE IF q.nxt[r] = s THEN q.nxt[s]
                                ELSE q.nxt[r]]]

Count(w) == IF w < MaxWrites THEN w + 1 ELSE w

Mark(b, how) == [lost EXCEPT ![b] = IF @ = "silent" THEN @ ELSE how]

(* bwrblk of slot s, of slots S, to file d: a block with writes is saved.  *)
(* The count of writes is cleared whether or not that succeeds; how says   *)
(* what becomes of the error (bwrblk itself records none).                 *)
WriteOk(d, S, s) ==
  /\ disk' = IF S[s].writes = 0 THEN d ELSE [d EXCEPT ![S[s].inmem] = S[s].rec]
  /\ UNCHANGED <<fails, lost>>

WriteFails(d, S, s, how) ==
  /\ S[s].writes # 0 /\ fails < MaxFails
  /\ fails' = fails + 1
  /\ lost' = Mark(S[s].inmem, how)
  /\ disk' = d

Clean(S, s) == [S EXCEPT ![s].writes = 0]

Done == pc' = "idle" /\ req' = NoReq /\ vic' = NONE /\ turned' = {}

----------------------------------------------------------------------------
(* What brdblk's caller does with slot s, of slots S, that has its block.  *)

Used(r, S, s) ==
  /\ r.name \in {"get", "wire", "unwire"}
  /\ slots' = IF r.name = "get" THEN S
              ELSE [S EXCEPT ![s].busy = (r.name = "wire")]
  /\ Done /\ UNCHANGED <<file, fails, lost>>

(* Block b changes, in slot s: all other copies of it are out of date.     *)
Outdated(S, b) == [s \in Slot |-> IF S[s].inmem = b THEN [S[s] EXCEPT !.rec = "other"]
                                                  ELSE S[s]]
OldDisk(b) == [disk EXCEPT ![b] = "other"]
With(S, s) ==
  [Outdated(S, S[s].inmem) EXCEPT ![s].rec = "last", ![s].writes = Count(S[s].writes)]

(* bstinf, bmodky, brepky, bsetbk, bcpybk; and bputky, bremky and the data *)
(* routines, which save the block when it has more writes than the         *)
(* threshold and ignore a failure.                                         *)
Altered(r, S, s) ==
  LET C == With(S, s)
      save == /\ r.name = "through" /\ Threshold > 0
              /\ C[s].writes > Threshold
  IN  /\ r.name \in {"put", "through"}
      /\ \/ /\ ~save /\ slots' = C /\ disk' = OldDisk(r.blk)
            /\ UNCHANGED <<fails, lost>>
         \/ /\ save /\ slots' = Clean(C, s)
            /\ \/ WriteOk(OldDisk(r.blk), C, s)
               \/ WriteFails(OldDisk(r.blk), C, s, "silent")
      /\ Done /\ UNCHANGED <<super, smod>>

(* The end of btsync: bwrsup saves the superblock, initcntrl.              *)
SuperOut(r, S, s) ==
  LET C == With(S, s)
  IN  /\ r.name = "super"
      /\ \/ /\ WriteOk(disk, C, s)
            /\ slots' = NoSlots /\ lru' = NewQueue /\ smod' = FALSE
         \/ /\ WriteFails(disk, C, s, "told")
            /\ slots' = Clean(C, s) /\ lru' = Move(lru, s)
            /\ UNCHANGED smod
      /\ Done /\ UNCHANGED super

Serve(r, S, s) ==
  /\ \/ (Used(r, S, s) \/ Altered(r, S, s)) /\ lru' = Move(lru, s)
     \/ SuperOut(r, S, s)

----------------------------------------------------------------------------
(* brdblk and bgtslt.                                                      *)

Hit(r) == Resident(slots, r.blk) /\ Serve(r, slots, Owner(slots, r.blk))

Miss(r) ==
  /\ ~Resident(slots, r.blk)
  /\ req' = r /\ pc' = "slot"
  /\ UNCHANGED <<file, slots, lru, vic, turned, fails, lost>>

FreeSlot ==
  /\ pc = "slot" /\ Resident(slots, NONE)
  /\ vic' = Owner(slots, NONE)
  /\ pc' = "fill"
  /\ UNCHANGED <<file, slots, lru, req, turned, fails, lost>>

(* Faulty variant: the wired slot stays where it is.                       *)
RotateNot ==
  /\ pc = "slot" /\ ~Resident(slots, NONE) /\ slots[lru.h].busy
  /\ turned' = turned \cup {lru.h}
  /\ UNCHANGED <<file, slots, lru, pc, req, vic, fails, lost>>

(* bqhead: a wired slot goes from the head to the tail.                    *)
Rotate ==
  /\ pc = "slot" /\ ~Resident(slots, NONE) /\ slots[lru.h].busy
  /\ lru' = Move(lru, lru.h)
  /\ turned' = turned \cup {lru.h}
  /\ UNCHANGED <<file, slots, pc, req, vic, fails, lost>>

(* Faulty variant: wired slots are taken too.                              *)
EvictWired ==
  LET s == Owner(slots, slots[lru.h].inmem)
  IN  /\ pc = "slot" /\ ~Resident(slots, NONE)
      /\ slots' = Clean(slots, s)
      /\ WriteOk(disk, slots, s) \/ WriteFails(disk, slots, s, "told")
      /\ vic' = lru.h
      /\ pc' = "fill"
      /\ UNCHANGED <<super, smod, lru, req, turned>>

(* The block at the head is saved.  A failure is reported and the slot is  *)
(* used all the same.                                                      *)
Evict ==
  LET s == Owner(slots, slots[lru.h].inmem)
  IN  /\ pc = "slot" /\ ~Resident(slots, NONE) /\ ~slots[lru.h].busy
      /\ slots' = Clean(slots, s)
      /\ WriteOk(disk, slots, s) \/ WriteFails(disk, slots, s, "told")
      /\ vic' = lru.h
      /\ pc' = "fill"
      /\ UNCHANGED <<super, smod, lru, req, turned>>

Filled == [slots EXCEPT ![vic].inmem = req.blk, ![vic].rec = disk[req.blk]]

Fill ==
  /\ pc = "fill" /\ req.name # "grow"
  /\ Serve(req, Filled, vic)

(* The slot still counts as that of the block it had.                      *)
FillFails ==
  /\ pc = "fill" /\ req.name # "grow" /\ fails < MaxFails
  /\ fails' = fails + 1
  /\ \/ UNCHANGED <<slots, lost>>
     \/ /\ slots' = [slots EXCEPT ![vic].rec = "other"]
        /\ lost' = IF slots[vic].inmem = NONE THEN lost
                   ELSE Mark(slots[vic].inmem, "told")
  /\ Done /\ UNCHANGED <<file, lru>>

(* bgtfre: the new block is written as the slot happens to be; until it is *)
(* changed, any content is as good as any other.  The superblock changes.  *)
(* After a growth that failed another slot may have the number of the new  *)
(* block: bwrblk then looks at the first of them.                          *)
Extended ==
  [s \in Slot |->
     LET r == IF s = vic THEN [slots[s] EXCEPT !.inmem = super, !.writes = 1]
              ELSE slots[s]
     IN  IF r.inmem \in {super, ZSUPER}
         THEN [r EXCEPT !.rec = IF r.inmem = super THEN "last" ELSE "other"]
         ELSE r]
NewDisk == [disk EXCEPT ![ZSUPER] = "other", ![super] = "last"]

(* Faulty variant: the superblock is not marked as changed.                *)
ExtendQuiet ==
  LET s == Owner(Extended, super)
  IN  /\ pc = "fill" /\ req.name = "grow"
      /\ WriteOk(NewDisk, Extended, s)
      /\ slots' = Clean(Extended, s) /\ lru' = Move(lru, vic)
      /\ super' = super + 1
      /\ Done /\ UNCHANGED smod

Extend ==
  LET s == Owner(Extended, super)
  IN  /\ pc = "fill" /\ req.name = "grow"
      /\ WriteOk(NewDisk, Extended, s)
      /\ slots' = Clean(Extended, s) /\ lru' = Move(lru, vic)
      /\ super' = super + 1 /\ smod' = TRUE
      /\ Done

(* A block the file does not have stays in its slot.                       *)
ExtendFails ==
  LET S == [slots EXCEPT ![vic].inmem = super, ![vic].writes = 1]
      s == Owner(S, super)
  IN  /\ pc = "fill" /\ req.name = "grow"
      /\ S[s].writes # 0 /\ fails < MaxFails
      /\ fails' = fails + 1
      /\ slots' = Clean(S, s) /\ lru' = Move(lru, vic)
      /\ Done /\ UNCHANGED <<file, lost>>

----------------------------------------------------------------------------
(* Faulty variant: the loop ends one slot early.                           *)
SavedShort(n) ==
  [b \in Blk |->
     IF Resident(slots, b) /\ Owner(slots, b) < n - 1
        /\ slots[Owner(slots, b)].writes # 0
     THEN slots[Owner(slots, b)].rec ELSE disk[b]]

(* btsync (bulock, btcls): all slots are saved in turn, then the           *)
(* superblock if it has changed.                                           *)
SavedUpTo(n) ==
  [b \in Blk |->
     IF Resident(slots, b) /\ Owner(slots, b) < n
        /\ slots[Owner(slots, b)].writes # 0
     THEN slots[Owner(slots, b)].rec ELSE disk[b]]

CleanUpTo(n) ==
  [s \in Slot |->
     IF s < n /\ s = Owner(slots, slots[s].inmem)
     THEN [slots[s] EXCEPT !.writes = 0] ELSE slots[s]]

Sync ==
  /\ pc = "idle"
  /\ disk' = SavedUpTo(NSLOT)
  /\ \/ smod /\ slots' = CleanUpTo(NSLOT) /\ pc' = "super" /\ UNCHANGED lru
     \/ ~smod /\ slots' = NoSlots /\ lru' = NewQueue /\ UNCHANGED pc
  /\ UNCHANGED <<super, smod, req, vic, turned, fails, lost>>

Bwrsup ==
  LET r == [name |-> "super", blk |-> ZSUPER]
  IN  pc = "super" /\ (Hit(r) \/ Miss(r))

(* A write that fails ends btsync; the slots are left as they are.         *)
SyncFails ==
  /\ pc = "idle" /\ fails < MaxFails
  /\ \E s \in Slot :
       /\ slots[s].inmem # NONE /\ s = Owner(slots, slots[s].inmem)
       /\ slots[s].writes # 0
       /\ disk' = SavedUpTo(s) /\ slots' = CleanUpTo(s + 1)
       /\ lost' = Mark(slots[s].inmem, "told")
  /\ fails' = fails + 1
  /\ UNCHANGED <<super, smod, lru, pc, req, vic, turned>>

----------------------------------------------------------------------------
(* Requests of the client.                                                 *)

Ask(name, b) ==
  LET r == [name |-> name, blk |-> b]
  IN  pc = "idle" /\ b < super /\ (Hit(r) \/ Miss(r))

(* The superblock is written by bwrsup only.                               *)
Put(b)        == b # ZSUPER /\ Ask("put", b)
PutThrough(b) == b # ZSUPER /\ Ask("through", b)
Get(b)        == Ask("get", b)

(* The library wires the current root, and for the time of a copy one or   *)
(* two blocks that are in memory: a slot is left for what must be read.    *)
Wire(b) ==
  /\ b \in Wirable
  /\ Cardinality({s \in Slot : slots[s].busy}) < NSLOT - 1
  /\ Ask("wire", b)
Unwire(b) == Ask("unwire", b)

(* bgtfre, with an empty free list.                                        *)
Grow ==
  /\ pc = "idle" /\ super < NBLK
  /\ req' = [name |-> "grow", blk |-> super]
  /\ pc' = "slot"
  /\ UNCHANGED <<file, slots, lru, vic, turned, fails, lost>>

Client ==
  \/ \E b \in Blk : Get(b) \/ Put(b) \/ PutThrough(b) \/ Wire(b) \/ Unwire(b)
  \/ Grow \/ Sync \/ SyncFails

Work == \/ FreeSlot \/ Rotate \/ Evict \/ Fill \/ FillFails
        \/ Extend \/ ExtendFails \/ Bwrsup

Next == Client \/ Work
Spec == Init /\ [][Next]_vars

----------------------------------------------------------------------------
(* What a read of block b returns.                                         *)
Current(b) == IF Resident(slots, b) THEN slots[Owner(slots, b)].rec ELSE disk[b]

(* The cache is a store: every block no failure has touched reads as it    *)
(* was last written, in memory or in the file, whatever bgtslt replaced,   *)
(* bputky wrote through and btsync emptied in between.                     *)
Coherent ==
  \A b \in 1 .. super - 1 : lost[b] = "no" => Current(b) = "last"

(* No content is lost unless the call that lost it returned an error.      *)
LossIsReported ==
  \A b \in 1 .. super - 1 : Current(b) # "last" => lost[b] = "told"

(* Every slot is in the queue once: bqhead can find each of them, and      *)
(* following lrunxt from lruh ends at lrut.                                *)
QueueSound ==
  LET Q[n \in Slot] == IF n = 0 THEN lru.h
                       ELSE IF Q[n - 1] = NONE THEN NONE ELSE lru.nxt[Q[n - 1]]
  IN  /\ {Q[n] : n \in Slot} = Slot
      /\ Q[NSLOT - 1] = lru.t /\ lru.nxt[lru.t] = NONE

(* A wired slot keeps its block until it is unwired or btsync empties the  *)
(* slots: the index that bcpybk and bjoin hold across a read stays good.   *)
WiredStays ==
  [][ \A s \in Slot : slots[s].busy => \/ slots'[s].inmem = slots[s].inmem
                                       \/ slots' = NoSlots ]_vars

(* The superblock in the file is that of the context unless smod says that *)
(* it has changed: btsync skips bwrsup then.                               *)
SuperKept == ~smod /\ lost[ZSUPER] = "no" => Current(ZSUPER) = "last"

(* The loop of bqhead ends, within one turn of the queue: it never comes   *)
(* back to a slot it has moved.                                            *)
HeadFound == pc = "slot" /\ ~Resident(slots, NONE) => lru.h \notin turned
=============================================================================
