------------------------------- MODULE DupKeys -------------------------------
(***************************************************************************)
(* Duplicate keys (btdupkey.c, btdups.c) and the calls that meet them:     *)
(* bfndky, binsky, bdelky, bupdky, bnxtky, bprvky and btpos, by several    *)
(* processes that have the file open in shared mode.                       *)
(*                                                                         *)
(* A key of the index holds a value, or the two ends of a chain of entries *)
(* in blocks of type "dup".  Each process keeps between its calls the      *)
(* position of its last find in the index and in a chain.  A call runs     *)
(* under the lock of the file (module SharedFile), so a call is one step.  *)
(*                                                                         *)
(* The index fits into the root block: module BTree has the tree.  What a  *)
(* process remembers is a position in the block, so the slots past the     *)
(* last key keep what they held.                                           *)
(***************************************************************************)
EXTENDS Segments

CONSTANTS
  Proc,     (* the processes                                               *)
  Key,      (* even numbers above 0: lfkey "" is 0, and btpos(ZEND) keeps  *)
            (* a string just above the last key                            *)
  Val,      (* values of keys                                              *)
  MaxVals,  (* values the client stores at a time                          *)
  MaxLost   (* entries lost by inserts that failed half way                *)

ASSUME DupConstants ==
  /\ Key \subseteq {k \in Nat : k > 0 /\ k % 2 = 0}
  /\ Val \cap Int = {}
  /\ MaxVals \in Nat /\ MaxLost \in Nat

VARIABLES
  st,      (* the store: dup blocks, ZNXDUP of the root, the free list     *)
  idx,     (* the keys of the root block: their number and the slots       *)
  dups,    (* ZMISC of the root: duplicate keys are allowed                *)
  lf,      (* for each process cntxt.lf                                    *)
  lost,    (* a ghost: entries no chain leads to                           *)
  place    (* a ghost: where among all entries a process is, see Place     *)

file == <<st, idx, dups, lost>>
vars == <<st, idx, dups, lf, lost, place>>

Slot   == 0 .. Cardinality(Key) - 1
NoEnt  == [key |-> 0, val |-> ZNULL, dup |-> ZNULL]
KeyEnt == [key : Key, val : Val \cup Addr, dup : Addr \cup {ZNULL}]
Link   == Addr \cup {ZNULL}
Dkey   == [key : Key, val : Val, del : BOOLEAN, flink : Link, blink : Link]
NoOut  == <<>>
NoLf   == [on |-> FALSE, pos |-> -1, exct |-> FALSE, key |-> 0,
           draddr |-> ZNULL]
Nowhere == [known |-> FALSE, n |-> 0, at |-> FALSE]

Init ==
  /\ \E n \in Limits : st = NewStore(n)
  /\ idx = [n |-> 0, slot |-> [i \in Slot |-> NoEnt]]
  /\ dups = FALSE
  /\ lf = [p \in Proc |-> NoLf]
  /\ lost = {}
  /\ place = [p \in Proc |-> Nowhere]

----------------------------------------------------------------------------
(* The entries of the chains.                                              *)

(* getdkey: is there an entry at d, and which one.                         *)
IsDup(s, d) == TypeAt(s, d) = "dup"
getdkey(s, d) == SegAt(s, d).data

(* putdkey: the entry has its size, so bupddt stores it where it is.       *)
putdkey(s, d, e) == SetSeg(s, d, [SegAt(s, d) EXCEPT !.data = e])

(* binsdt(ZDUP): an entry is stored in the active dup block or, when that  *)
(* has no room, in a new one.                                              *)
NeedsBlock(s) ==
  IF s.head["dup"] = ZNULL THEN TRUE ELSE Room(s, "dup") < DKEYSZ + ZDOVRH
CanStore(s) == NeedsBlock(s) => GetFree(s) # ZNULL
WithRoom(s) ==
  IF ~NeedsBlock(s) THEN s
  ELSE IF s.head["dup"] = ZNULL THEN FirstBlock(s, "dup")
  ELSE ChainBlock(s, "dup")

(* Faulty variant: an entry one byte short.                                *)
binsdtShort(s, e) == InsDat(WithRoom(s), "dup", DKEYSZ - 1, e, 0)

binsdt(s, e) == InsDat(WithRoom(s), "dup", DKEYSZ, e, 0)
AddrOf(s) == InsAddr(WithRoom(s), "dup")

(* Faulty variant: the entry is marked and its space never given back.     *)
deldkeyKept(s, d) == putdkey(s, d, [getdkey(s, d) EXCEPT !.del = TRUE])

(* deldkey: the entry is marked, its bytes stay.                           *)
deldkey(s, d) == DelDat(putdkey(s, d, [getdkey(s, d) EXCEPT !.del = TRUE]), d)

Linked(s, d, field, to) ==
  IF d = ZNULL THEN s
  ELSE putdkey(s, d, IF field = "flink"
                     THEN [getdkey(s, d) EXCEPT !.flink = to]
                     ELSE [getdkey(s, d) EXCEPT !.blink = to])

----------------------------------------------------------------------------
(* The root block, as bsrhbk, bputky and bremky see it.                    *)
Below(k) == Cardinality({i \in 0 .. idx.n - 1 : idx.slot[i].key < k})
Hit(k)   == \E i \in 0 .. idx.n - 1 : idx.slot[i].key = k

PutKey(p, e) ==
  [n |-> idx.n + 1,
   slot |-> [i \in Slot |-> IF i < p \/ i > idx.n THEN idx.slot[i]
                            ELSE IF i = p THEN e ELSE idx.slot[i - 1]]]
RemKey(p) ==
  [n |-> idx.n - 1,
   slot |-> [i \in Slot |-> IF i >= p /\ i < idx.n - 1 THEN idx.slot[i + 1]
                                                       ELSE idx.slot[i]]]

----------------------------------------------------------------------------
(* btduppos: move context l forward (next) or back in a chain.  Its result *)
(* is "found", with the entry, "none" when the next or the previous key is *)
(* to be looked at, or "QNOTDUP".                                          *)
Duppos(l, next) ==
  LET none(c) == [res |-> "none", lf |-> c, val |-> ZNULL]
      found(d) == [res |-> "found", val |-> getdkey(st, d).val,
                   lf |-> [l EXCEPT !.draddr = d, !.exct = TRUE]]
      bad == [res |-> "QNOTDUP", lf |-> l, val |-> ZNULL]
      e == idx.slot[l.pos]
      End == IF next THEN e.val ELSE e.dup
      (* from entry d to the next one that is not deleted                  *)
      Walk[n \in Nat, d \in Addr] ==
        LET to == IF next THEN getdkey(st, d).flink ELSE getdkey(st, d).blink
        IN  IF to = ZNULL \/ n = 0
            THEN none([l EXCEPT !.exct = TRUE, !.draddr = ZNULL])
            ELSE IF ~IsDup(st, to) THEN bad
            ELSE IF getdkey(st, to).del THEN Walk[n - 1, to]
            ELSE found(to)
  IN  IF l.draddr = ZNULL
      THEN IF ~l.exct \/ e.dup = ZNULL THEN none(l)
           ELSE IF IsDup(st, End) THEN found(End) ELSE bad
      ELSE IF IsDup(st, l.draddr) THEN Walk[CAP * MAXBLK, l.draddr]
           (* shared mode: the block was freed, take it for the end        *)
           ELSE none(l)

(* bfndky: the context it leaves.                                          *)
Find(k) ==
  LET at == [on |-> TRUE, pos |-> IF idx.n = 0 THEN -1 ELSE Below(k),
             exct |-> Hit(k), key |-> k, draddr |-> ZNULL]
  IN  IF at.exct THEN Duppos(at, TRUE).lf ELSE at

----------------------------------------------------------------------------
(* Every entry of the index in order: keys ascending, the entries of a key *)
(* along its chain.                                                        *)
ChainOf(e) ==
  LET C[n \in Nat, d \in Link] ==
        IF n = 0 \/ d = ZNULL THEN <<>>
        ELSE <<d>> \o C[n - 1, getdkey(st, d).flink]
  IN  IF e.dup = ZNULL THEN <<>> ELSE C[CAP * MAXBLK, e.val]
ValsOf(e) ==
  LET c == ChainOf(e)
  IN  IF e.dup = ZNULL THEN <<e.val>>
      ELSE [n \in DOMAIN c |-> getdkey(st, c[n]).val]
Flat ==
  LET F[i \in 0 .. Cardinality(Key)] ==
        LET vals == ValsOf(idx.slot[i])
        IN  IF i >= idx.n THEN <<>>
            ELSE [n \in DOMAIN vals |-> <<idx.slot[i].key, vals[n]>>]
                   \o F[i + 1]
  IN  F[0]

(* The place of process p: n entries are before it, and it is at the next  *)
(* one or in the gap.  It is known from a find, a btpos or a move until    *)
(* another process changes the file.                                       *)
Place(n, at) == [known |-> TRUE, n |-> n, at |-> at]
PlaceOfKey(k) ==
  LET flat == Flat
  IN  Place(Cardinality({i \in DOMAIN flat : flat[i][1] < k}), Hit(k))

(* The bytes of deleted entries are cleared once no context leads to them: *)
(* no call can read them then.  A context leads to its entry or, when it   *)
(* has none, into the chain of the slot it is at.                          *)
LedTo(s, l) ==
  LET e == idx'.slot[l.pos]
      W[n \in Nat, d \in Link] ==
        IF n = 0 \/ d = ZNULL THEN {}
        ELSE {d} \cup (IF getdkey(s, d).del
                       THEN W[n - 1, getdkey(s, d).flink]
                              \cup W[n - 1, getdkey(s, d).blink]
                       ELSE {})
      From(d) == W[CAP * MAXBLK, d]
  IN  IF l.draddr # ZNULL THEN From(l.draddr)
      ELSE IF l.exct /\ e.dup # ZNULL THEN From(e.val) \cup From(e.dup)
      ELSE {}

Tidy(s, ls) ==
  LET kept == UNION {LedTo(s, ls[p]) : p \in Proc}
      gone(b, o) == /\ s.blk[b].seg[o] # NoSeg /\ s.blk[b].seg[o].data.del
                    /\ mkdraddr(b, o) \notin kept
  IN  [s EXCEPT !.blk = [b \in Blk |-> [@[b] EXCEPT
         !.seg = [o \in Offset |-> IF gone(b, o) THEN NoSeg ELSE @[o]]]]]

(* A call of p that only reads, or fails: it leaves context l.             *)
Reads(p, l, at) ==
  /\ UNCHANGED <<idx, dups, lost>>
  /\ lf' = [lf EXCEPT ![p] = l]
  /\ st' = Tidy(st, lf')
  /\ place' = [place EXCEPT ![p] = at]

----------------------------------------------------------------------------
bfndky(p, k) == Reads(p, Find(k), PlaceOfKey(k))

(* btpos(ZEND) of an empty root returns at once, and keeps the lock        *)
(* (module SharedFile).                                                    *)
btpos(p, toEnd) ==
  LET last == idx.slot[idx.n - 1].key
  IN  IF toEnd
      THEN /\ idx.n > 0
           /\ Reads(p, [NoLf EXCEPT !.on = TRUE, !.pos = idx.n,
                                    !.key = last + 1],
                    Place(Len(Flat), FALSE))
      ELSE Reads(p, [NoLf EXCEPT !.on = TRUE, !.pos = 0], Place(0, FALSE))

(* The place after a move: at the next entry, or at the one before.        *)
Onward(p) ==
  LET a == place[p]
  IN  IF a.known THEN Place(IF a.at THEN a.n + 1 ELSE a.n, TRUE) ELSE a
Backward(p) ==
  LET a == place[p]
  IN  IF a.known /\ a.n > 0 THEN Place(a.n - 1, TRUE) ELSE Nowhere

(* Faulty variant: a key is taken for found whether it is there or not.    *)
RelocatedExact(l) == IF l.on THEN [Find(l.key) EXCEPT !.exct = TRUE] ELSE l

(* The context from which bnxtky and bprvky go to another key: in shared   *)
(* mode the last key found is looked up again.                             *)
Relocated(l) == IF l.on THEN Find(l.key) ELSE l

(* What bnxtky and bprvky do: the error, the key and the value they return *)
(* and the context they leave.                                             *)
Outcome(x, o, l) == [err |-> x, out |-> o, lf |-> l]

(* The key in slot i is entered at that end of its chain.                  *)
EnterKey(i, next) ==
  LET e == idx.slot[i]
      c == Duppos([on |-> TRUE, pos |-> i, exct |-> TRUE, key |-> e.key,
                   draddr |-> ZNULL], next)
  IN  Outcome(IF c.res = "QNOTDUP" THEN "QNOTDUP" ELSE "OK",
              <<e.key, IF c.res = "found" THEN c.val ELSE e.val>>, c.lf)

(* At the end bnxtky clears the context, bprvky all but the key.           *)
OtherKey(l, next) ==
  LET i == IF ~next THEN l.pos - 1 ELSE IF l.exct THEN l.pos + 1 ELSE l.pos
  IN  IF l.on /\ i \in 0 .. idx.n - 1 THEN EnterKey(i, next)
      ELSE Outcome("QNOKEY", NoOut,
                   [NoLf EXCEPT !.key = IF next THEN @ ELSE l.key])

(* Within a chain only the entry changes.                                  *)
Moved(p, next) ==
  LET r == Duppos(lf[p], next)
  IN  IF r.res = "QNOTDUP" THEN Outcome("QNOTDUP", NoOut, r.lf)
      ELSE IF r.res = "found" THEN Outcome("OK", <<r.lf.key, r.val>>, r.lf)
      ELSE OtherKey(Relocated(r.lf), next)

Returns(p, m, at) == Reads(p, m.lf, IF m.err = "OK" THEN at ELSE Nowhere)
Move(p, next, at) == Returns(p, Moved(p, next), at)

bnxtky(p) == Move(p, TRUE, Onward(p))
bprvky(p) == Move(p, FALSE, Backward(p))

----------------------------------------------------------------------------
(* The calls that change the file, to store s.                             *)
Changes(p, l, s, at) ==
  /\ lf' = [lf EXCEPT ![p] = l]
  /\ st' = Tidy(s, lf')
  /\ place' = [q \in Proc |-> IF q = p THEN at ELSE Nowhere]

btdups(p, allowed) ==
  /\ dups' = allowed
  /\ UNCHANGED <<idx, lost>>
  /\ Changes(p, lf[p], st, place[p])

(* btdupkey.  The first duplicate of a key moves the value of the key into *)
(* an entry; when there is no space for the second entry, the key stays as *)
(* it was and the first entry is lost.                                     *)
FirstEntry(e) ==
  [key |-> e.key, val |-> e.val, del |-> FALSE, flink |-> ZNULL, blink |-> ZNULL]

btdupkey(p, l, k, v) ==
  LET e   == idx.slot[l.pos]
      one == e.dup = ZNULL
      a1  == AddrOf(st)
      s1  == IF one THEN binsdt(st, FirstEntry(e)) ELSE st
      e1  == IF one THEN [e EXCEPT !.val = a1, !.dup = a1] ELSE e
      a2  == AddrOf(s1)
      new == [key |-> k, val |-> v, del |-> FALSE, flink |-> ZNULL,
              blink |-> e1.dup]
  IN  \/ one /\ ~CanStore(st) /\ Reads(p, l, Nowhere)
      \/ /\ one => CanStore(st)
         /\ ~CanStore(s1)
         /\ lost' = IF one THEN lost \cup {a1} ELSE lost
         /\ Cardinality(lost') <= MaxLost
         /\ UNCHANGED <<idx, dups>>
         /\ Changes(p, l, s1, Nowhere)
      \/ /\ one => CanStore(st)
         /\ CanStore(s1)
         /\ idx' = [idx EXCEPT !.slot[l.pos] = [e1 EXCEPT !.dup = a2]]
         /\ Changes(p, l, Linked(binsdt(s1, new), e1.dup, "flink", a2), Nowhere)
         /\ UNCHANGED <<dups, lost>>

binsky(p, k, v) ==
  LET l == Find(k)
  IN  \/ /\ ~Hit(k) /\ Len(Flat) < MaxVals
         /\ idx' = PutKey(Below(k), [key |-> k, val |-> v, dup |-> ZNULL])
         /\ Changes(p, l, st, Nowhere)
         /\ UNCHANGED <<dups, lost>>
      \/ Hit(k) /\ ~dups /\ Reads(p, l, PlaceOfKey(k))
      \/ Hit(k) /\ dups /\ Len(Flat) < MaxVals /\ btdupkey(p, l, k, v)

(* btdeldup of the entry at d, of the key at position pos: the neighbours  *)
(* are linked to each other, an end of the chain moves.                    *)
Unchained(d) ==
  LET e  == getdkey(st, d)
      s1 == deldkey(st, d)
      s2 == Linked(s1, e.blink, "flink", e.flink)
  IN  Linked(s2, e.flink, "blink", e.blink)

(* Faulty variant: the chain still ends at its last entry.                 *)
EndsMovedFirst(ke, e) ==
  IF e.blink = ZNULL THEN [ke EXCEPT !.val = e.flink] ELSE ke

EndsMoved(ke, e) ==
  IF e.blink = ZNULL THEN [ke EXCEPT !.val = e.flink]
  ELSE IF e.flink = ZNULL THEN [ke EXCEPT !.dup = e.blink] ELSE ke

(* Faulty variant: a key goes with all the entries of its chain.           *)
bdelk1Chain(p, l, n) ==
  idx' = RemKey(l.pos) /\ Changes(p, l, st, Nowhere)

(* bdelk1 of the entry with n entries before it.  The last entry of a      *)
(* chain goes with its key.  The context is left in the gap, with two      *)
(* exceptions: the context of a key without a chain stays exact, and when  *)
(* the entry was the last of its block, the rest of its chain cannot be    *)
(* reached from the context.                                               *)
bdelk1(p, l, n) ==
  LET d  == l.draddr
      e  == getdkey(st, d)
      alone == e.blink = ZNULL /\ e.flink = ZNULL
  IN  \/ /\ d = ZNULL
         /\ idx' = RemKey(l.pos)
         /\ Changes(p, l, st, Nowhere)
      \/ /\ d # ZNULL /\ alone
         /\ idx' = RemKey(l.pos)
         /\ Changes(p, [l EXCEPT !.draddr = ZNULL, !.exct = FALSE],
                    deldkey(st, d), Place(n, FALSE))
      \/ /\ d # ZNULL /\ ~alone
         /\ idx' = [idx EXCEPT !.slot[l.pos] = EndsMoved(@, e)]
         /\ Changes(p, [l EXCEPT !.exct = FALSE], Unchained(d),
                    IF IsDup(Unchained(d), d) THEN Place(n, FALSE) ELSE Nowhere)

bdelky(p, k) ==
  LET l == Find(k)
  IN  IF Hit(k) THEN bdelk1(p, l, PlaceOfKey(k).n) /\ UNCHANGED <<dups, lost>>
                ELSE Reads(p, l, PlaceOfKey(k))

(* With a NULL key: the entry of the last find.  The client calls it only  *)
(* where it knows its place; nothing in the code asks for that.            *)
bdelkyCurrent(p) ==
  /\ place[p].known
  /\ IF lf[p].exct
     THEN bdelk1(p, lf[p], place[p].n) /\ UNCHANGED <<dups, lost>>
     ELSE Reads(p, lf[p], place[p])

(* bmodky, with btdupupd.                                                  *)
bmodky(p, l, v, at) ==
  /\ IF l.draddr # ZNULL
     THEN /\ UNCHANGED idx
          /\ Changes(p, l, putdkey(st, l.draddr,
                       [getdkey(st, l.draddr) EXCEPT !.val = v]), at)
     ELSE /\ idx' = [idx EXCEPT !.slot[l.pos].val = v]
          /\ Changes(p, l, st, at)
  /\ UNCHANGED <<dups, lost>>

bupdky(p, k, v) ==
  LET l == Find(k)
  IN  IF Hit(k) THEN bmodky(p, l, v, PlaceOfKey(k))
                ELSE Reads(p, l, PlaceOfKey(k))

bupdkyCurrent(p, v) ==
  place[p].known /\ lf[p].exct /\ bmodky(p, lf[p], v, place[p])

----------------------------------------------------------------------------
Calls(p) ==
  \/ bnxtky(p) \/ bprvky(p) \/ bdelkyCurrent(p)
  \/ \E b \in BOOLEAN : btpos(p, b) \/ btdups(p, b)
  \/ \E k \in Key : bfndky(p, k) \/ bdelky(p, k)
  \/ \E k \in Key, v \in Val : binsky(p, k, v) \/ bupdky(p, k, v)
  \/ \E v \in Val : bupdkyCurrent(p, v)

Next == \E p \in Proc : Calls(p)

Spec == Init /\ [][Next]_vars
=============================================================================
