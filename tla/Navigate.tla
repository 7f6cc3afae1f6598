------------------------------ MODULE Navigate ------------------------------
(***************************************************************************)
(* Moving through the index in key order: bnxtky, bprvky and btpos, and    *)
(* the walk of bnxtbk over the blocks, by which btkeys counts the keys and *)
(* btdelr frees the blocks of a root.  The file is open in exclusive mode  *)
(* and duplicate keys are off (module DupKeys has both), so btduppos finds *)
(* nothing.                                                                *)
(*                                                                         *)
(* The calls only read blocks: each is one step.  Their loops work on a    *)
(* cursor, the part of the context they change, and end after at most      *)
(* Turns turns.                                                            *)
(***************************************************************************)
EXTENDS BTreeProps

Cursor == [blk : Int, pos : Int, exct : BOOLEAN, found : BOOLEAN,
           stk : Seq([blk : Int, pos : Int])]

Turns == 2 * MAXBLK

Here == [blk |-> lf.blk, pos |-> lf.pos, exct |-> lf.exct, found |-> FALSE,
         stk |-> stk]

PushC(c) == Append(c.stk, [blk |-> c.blk, pos |-> c.pos])
TopC(c)  == IF c.stk = <<>> THEN [blk |-> 0, pos |-> 0] ELSE c.stk[Len(c.stk)]
RestC(c) == IF c.stk = <<>> THEN <<>> ELSE SubSeq(c.stk, 1, Len(c.stk) - 1)

(* bleaf: down from the link at the position, to the left end of each      *)
(* block on the way or to its right end.                                   *)
Bleaf(start, toRight) ==
  LET B[n \in 0 .. MAXBLK, c \in Cursor] ==
        LET child == IF Blk(c.blk).nkeys = 0 THEN ZNULL
                     ELSE Blk(c.blk).lnk[c.pos]
        IN  IF n = 0 \/ child = ZNULL THEN c
            ELSE B[n - 1, [c EXCEPT !.stk = PushC(c), !.blk = child,
                             !.pos = IF toRight THEN Blk(child).nkeys ELSE 0]]
  IN  B[MAXBLK, start]

(* Faulty variant: a key of the parent counts as returned already.         *)
NxtTurnExact(c) ==
  LET n == Blk(c.blk).nkeys
      d == IF c.exct THEN Bleaf([c EXCEPT !.pos = @ + 1], FALSE)
                     ELSE [c EXCEPT !.exct = TRUE]
  IN  IF c.pos >= n \/ n = 0
      THEN [c EXCEPT !.pos = TopC(c).pos, !.blk = TopC(c).blk,
                     !.stk = RestC(c), !.exct = TRUE]
      ELSE [d EXCEPT !.found = d.pos < n]

(* One turn of the loop of bnxtky.  The test of the position asks for the  *)
(* number of keys of the block the turn began in.                          *)
NxtTurn(c) ==
  LET n == Blk(c.blk).nkeys
      d == IF c.exct THEN Bleaf([c EXCEPT !.pos = @ + 1], FALSE)
                     ELSE [c EXCEPT !.exct = TRUE]
  IN  IF c.pos >= n \/ n = 0
      THEN [c EXCEPT !.pos = TopC(c).pos, !.blk = TopC(c).blk,
                     !.stk = RestC(c), !.exct = FALSE]
      ELSE [d EXCEPT !.found = d.pos < n]

(* Faulty variant: the key right of the block that is done with.           *)
PrvTurnRight(c) ==
  LET n == Blk(c.blk).nkeys
      back(d) == [d EXCEPT !.pos = @ - 1, !.exct = TRUE]
      d == IF c.pos = n THEN back(c)
           ELSE IF c.exct THEN back(Bleaf(c, TRUE))
           ELSE IF Blk(c.blk).lnk[c.pos] = ZNULL THEN back(c)
           ELSE [c EXCEPT !.exct = TRUE]
  IN  IF c.pos < 0 \/ n = 0
      THEN [c EXCEPT !.pos = TopC(c).pos, !.blk = TopC(c).blk,
                     !.stk = RestC(c), !.exct = FALSE]
      ELSE [d EXCEPT !.found = d.pos >= 0]

(* One turn of the loop of bprvky.                                         *)
PrvTurn(c) ==
  LET n == Blk(c.blk).nkeys
      back(d) == [d EXCEPT !.pos = @ - 1, !.exct = TRUE]
      d == IF c.pos = n THEN back(c)
           ELSE IF c.exct THEN back(Bleaf(c, TRUE))
           ELSE IF Blk(c.blk).lnk[c.pos] = ZNULL THEN back(c)
           ELSE [c EXCEPT !.exct = TRUE]
  IN  IF c.pos < 0 \/ n = 0
      THEN [c EXCEPT !.pos = TopC(c).pos - 1, !.blk = TopC(c).blk,
                     !.stk = RestC(c), !.exct = FALSE]
      ELSE [d EXCEPT !.found = d.pos >= 0]

Loop(Turn(_), start) ==
  LET F[n \in 0 .. Turns, c \in Cursor] ==
        IF n = 0 \/ c.found \/ c.blk = ZNULL THEN c ELSE F[n - 1, Turn(c)]
  IN  F[Turns, start]

----------------------------------------------------------------------------
(* A call that only moves the context.  A find in an empty root leaves     *)
(* position -1, and an insert that follows keeps it: a bnxtky would then   *)
(* read the array of keys before its start.  The client looks its key up   *)
(* first.                                                                  *)
NavCall ==
  /\ pc = "idle" /\ ~spoiled
  /\ lf.pos < 0 => Node.nkeys = 0
  /\ UNCHANGED <<tree, pc, op, cblk, tgt, spoiled>>

(* The call returns the key at the cursor, which is the current key now.   *)
Returns(c) ==
  LET e == Blk(c.blk).ent[c.pos]
  IN  /\ lf' = [blk |-> c.blk, pos |-> c.pos, exct |-> c.exct, key |-> e.key]
      /\ stk' = c.stk
      /\ err' = "OK" /\ out' = e.val

Bnxtky ==
  LET c == Loop(NxtTurn, Here)
  IN  /\ NavCall
      /\ \/ c.found /\ Returns(c)
         \/ /\ ~c.found
            /\ lf' = [blk |-> ZNULL, pos |-> -1, exct |-> FALSE, key |-> NoKey]
            /\ stk' = c.stk
            /\ err' = "QNOKEY" /\ out' = NoVal

(* At the start of the index bprvky keeps the key of the context.  Its     *)
(* position without a block, -2, stands for no more than the usual -1.     *)
Bprvky ==
  LET c == Loop(PrvTurn, Here)
  IN  /\ NavCall
      /\ \/ c.found /\ Returns(c)
         \/ /\ ~c.found
            /\ lf' = [lf EXCEPT !.blk = ZNULL, !.pos = -1, !.exct = c.exct]
            /\ stk' = c.stk
            /\ err' = "QNOKEY" /\ out' = NoVal

(* btpos.  The lfkey it sets is read in shared mode only.                  *)
PosCursor(toEnd) ==
  LET start == [blk |-> ROOT, pos |-> IF toEnd THEN Blk(ROOT).nkeys ELSE 0,
                exct |-> FALSE, found |-> FALSE, stk |-> <<NoFrame>>]
  IN  Bleaf(start, toEnd)

Btpos(toEnd) ==
  LET c == PosCursor(toEnd)
  IN  /\ NavCall
      /\ lf' = [blk |-> c.blk, pos |-> c.pos, exct |-> FALSE, key |-> NoKey]
      /\ stk' = c.stk
      /\ err' = "OK" /\ out' = NoVal

Nav == Bnxtky \/ Bprvky \/ \E toEnd \in BOOLEAN : Btpos(toEnd)

NavNext == Next \/ Nav
NavSpec == Init /\ [][NavNext]_vars

----------------------------------------------------------------------------
(* bnxtbk and btkeys: the blocks of the tree, children first.              *)

(* Faulty variant: the last child of a block is left out.                  *)
WalkTurnShort(c) ==
  LET d == Bleaf(c, FALSE)
  IN  IF c.pos >= Blk(c.blk).nkeys
      THEN [c EXCEPT !.found = TRUE]
      ELSE [d EXCEPT !.pos = Blk(d.blk).nkeys + 2]

(* One turn of the loop of bnxtbk; a block is found when all its children  *)
(* were visited.                                                           *)
WalkTurn(c) ==
  LET d == Bleaf(c, FALSE)
  IN  IF c.pos > Blk(c.blk).nkeys
      THEN [c EXCEPT !.found = TRUE]
      ELSE [d EXCEPT !.pos = Blk(d.blk).nkeys + 2]

(* To the parent of a block that was found.                                *)
Leave(c) == [c EXCEPT !.blk = TopC(c).blk, !.pos = TopC(c).pos + 1,
                      !.stk = RestC(c), !.found = FALSE]

(* The visits of btkeys up to the root: block and depth of each.           *)
Visits ==
  LET V[n \in 0 .. MAXBLK, c \in Cursor] ==
        LET d == Loop(WalkTurn, c)
            visit == [blk |-> d.blk, depth |-> Len(d.stk) - 1]
        IN  IF n = 0 \/ d.blk = ROOT THEN <<visit>>
            ELSE <<visit>> \o V[n - 1, Leave(d)]
  IN  V[MAXBLK, PosCursor(FALSE)]

(* btkeys: the number of keys, or ZNULL for a damaged tree.                *)
Btkeys ==
  LET vs == Visits
      count[n \in 0 .. Len(vs)] ==
        IF n = 0 THEN 0 ELSE count[n - 1] + Blk(vs[n].blk).nkeys
      isLeaf(v) == Blk(v.blk).lnk[0] = ZNULL
      empty == \E n \in DOMAIN vs :
                 Blk(vs[n].blk).nkeys = 0 /\ Blk(vs[n].blk).type # "root"
      balanced == \A n, m \in DOMAIN vs :
                    isLeaf(vs[n]) /\ isLeaf(vs[m]) => vs[n].depth = vs[m].depth
  IN  IF empty \/ ~balanced THEN ZNULL ELSE count[Len(vs)]

----------------------------------------------------------------------------
(* The keys of the index, and the entry of one.                            *)
Stored == {e.key : e \in Entries}

(* The context is one from which the order of the keys decides what comes  *)
(* next: at a key, or at the place of a key that is not stored (a find     *)
(* that failed, a delete).  Not so after an insert, whose key is at the    *)
(* place of the cursor, or after a find that had no space for a split.     *)
Placed ==
  /\ lf.blk # ZNULL /\ lf.key \in Key
  /\ lf.exct \/ (lf.key \notin Stored /\ err \in {"OK", "QNOKEY"})

(* The context btpos leaves.                                               *)
AtEnd(toEnd) ==
  LET c == PosCursor(toEnd)
  IN  lf.key = NoKey /\ lf.blk = c.blk /\ lf.pos = c.pos /\ stk = c.stk

(* A call that moves among the keys S returns the one that is nearest in   *)
(* the direction, with its value, and QNOKEY when there is none.           *)
Nearest(S, isNearer(_, _)) ==
  IF S = {} THEN err' = "QNOKEY" /\ ~lf'.exct
  ELSE /\ err' = "OK" /\ lf'.exct
       /\ lf'.key \in S /\ \A k \in S : k = lf'.key \/ isNearer(lf'.key, k)
       /\ [key |-> lf'.key, val |-> out'] \in Entries

(* bnxtky returns the smallest key above the one last found, looked for or *)
(* deleted, or the first key after btpos(ZSTART): whatever splits and      *)
(* joins made of the tree, no key is skipped and none returned twice.      *)
NextIsNext ==
  [][Bnxtky =>
       /\ Placed => Nearest({k \in Stored : k > lf.key}, <)
       /\ AtEnd(FALSE) => Nearest(Stored, <)]_vars

(* bprvky returns the largest key below it, or the last after btpos(ZEND). *)
PrevIsPrevious ==
  [][Bprvky =>
       /\ Placed => Nearest({k \in Stored : k < lf.key}, >)
       /\ AtEnd(TRUE) => Nearest(Stored, >)]_vars

(* The walk of bnxtbk visits every block of the tree once, a block after   *)
(* its children and the root last, and btkeys counts every key: btdelr     *)
(* frees what the walk visits as it goes.                                  *)
WalkComplete ==
  pc = "idle" /\ ~spoiled =>
    LET vs == Visits
        before(b) == {vs[i].blk : i \in 1 .. b - 1}
    IN  /\ {vs[n].blk : n \in DOMAIN vs} = Reached
        /\ Len(vs) = Cardinality(Reached)
        /\ \A n \in DOMAIN vs : Children(vs[n].blk) \subseteq before(n)
        /\ Btkeys = Cardinality(Entries)

(* The keys that calls of Turn's routine return from cursor c on.          *)
Scan(Turn(_), start) ==
  LET S[n \in 0 .. MAXBLK * MXKEY, c \in Cursor] ==
        LET d == Loop(Turn, [c EXCEPT !.found = FALSE])
        IN  IF n = 0 \/ ~d.found THEN <<>>
            ELSE <<Blk(d.blk).ent[d.pos].key>> \o S[n - 1, d]
  IN  S[MAXBLK * MXKEY, start]

(* From btpos(ZSTART) bnxtky returns every key once, in ascending order,   *)
(* from btpos(ZEND) bprvky in descending order, and then both stop: also   *)
(* through the levels of a deep tree.                                      *)
ScansComplete ==
  pc = "idle" /\ ~spoiled =>
    LET up == Scan(NxtTurn, PosCursor(FALSE))
        down == Scan(PrvTurn, PosCursor(TRUE))
    IN  /\ Len(up) = Cardinality(Stored) /\ {up[n] : n \in DOMAIN up} = Stored
        /\ \A n \in 1 .. Len(up) - 1 : up[n] < up[n + 1]
        /\ down = [n \in DOMAIN up |-> up[Len(up) + 1 - n]]
=============================================================================
