---------------------------- MODULE SharedProps -----------------------------
(***************************************************************************)
(* The properties of a file that several processes share.                  *)
(***************************************************************************)
EXTENDS SharedFile

(* The type invariant, of the lock; Current and the roots of the contexts  *)
(* are typed in RootsSound.                                                *)
LockTypeOK ==
  /\ owner \in Proc \cup {Nobody}
  /\ pc \in [Proc -> {"closed", "idle", "wait", "granted", "work"}]
  /\ shared \in [Proc -> BOOLEAN]
  /\ lckcnt \in [Proc -> 0 .. MaxNest]
  /\ mem = [p \in Proc |-> mem[p]]

(* A process counts a lock only while it has the lock of the file.         *)
CountedIsOwned == \A p \in Proc : lckcnt[p] > 0 => owner = p

(* It has blocks in memory only while it counts a lock: what another       *)
(* process wrote meanwhile is read again.                                  *)
CacheIsCounted == \A p \in Proc : lckcnt[p] = 0 => mem[p] = NoMem

(* Whoever works counts a lock, whoever waits counts none.                 *)
WorkIsCounted ==
  \A p \in Proc :
    /\ pc[p] = "work" => lckcnt[p] = 1
    /\ pc[p] \in {"wait", "granted", "closed"} => lckcnt[p] = 0
    /\ pc[p] = "granted" => owner = p

OneAtATime ==
  \A p, q \in Proc : mem[p] # NoMem /\ mem[q] # NoMem => p = q

(* block and bulock keep two processes from ever having blocks of the file *)
(* in memory at the same time, through nested locks, alarms that race with *)
(* the grant, calls that leak a lock, and opens that fail.                 *)
LockSound ==
  LockTypeOK /\ CountedIsOwned /\ CacheIsCounted /\ WorkIsCounted /\ OneAtATime

(* The file as the next call will see it.                                  *)
Current ==
  IF \E p \in Proc : mem[p] # NoMem
  THEN mem[CHOOSE p \in Proc : mem[p] # NoMem] ELSE disk

(* Every call works on the file as the last one left it: no update is lost *)
(* between the memories of the processes and the disk.                     *)
WC == INSTANCE WholeCalls WITH file <- Current
ImplementsWholeCalls == WC!Spec

(* Every name leads to a root of its own.                                  *)
NamesLead(f) ==
  \A n \in Name : f.dir[n] # <<>> =>
    /\ Len(f.dir[n]) = 1
    /\ f.dir[n][1] \in Blk /\ f.blk[f.dir[n][1]].type = "root"
    /\ \A m \in Name : f.dir[m] = f.dir[n] => m = n
RootBlocks(f) == {f.dir[n][1] : n \in {m \in Name : f.dir[m] # <<>>}}

(* A block is past the end of the file, or a root with a name, or on the   *)
(* free list, once; the tree blocks, and the data blocks of the list, have *)
(* a root.  A dup block, a data block the list does not lead to and a      *)
(* block a failed split took have one, or it was deleted.                  *)
BlocksPlaced(f) ==
  /\ \A b \in Blk :
       LET t == f.blk[b].type
       IN  /\ t = "none" <=> b >= f.blkmx
           /\ t = "root" <=> b \in RootBlocks(f)
           /\ t = "free" <=> \E i \in DOMAIN f.free : f.free[i] = b
           /\ t \in {"inuse", "data"} => f.blk[b].of \in RootBlocks(f)
           /\ t \in {"cut", "dup", "lost"} =>
                f.blk[b].of \in RootBlocks(f) \cup {ZSUPER, ZNULL}
  /\ \A i, j \in DOMAIN f.free : f.free[i] = f.free[j] => i = j

(* The list of a root begins with a data block of its own, or there is     *)
(* none.                                                                   *)
ListsLead(f) ==
  \A r \in RootBlocks(f) :
    LET data == BlocksOf(f, r, "data")
    IN  IF data = {} THEN f.blk[r].head = ZNULL ELSE f.blk[r].head \in data

(* btdelr frees no block that is free already or has another root, for all *)
(* that the processes do: every name leads to a root of its own, every     *)
(* block has its place, and a context is at the root it named, unless      *)
(* another process deleted that root.  A call that works on a deleted root *)
(* ends all this.                                                          *)
RootsSound ==
  LET f == Current IN
  /\ f \in File
  /\ ~astray =>
       /\ NamesLead(f) /\ BlocksPlaced(f) /\ ListsLead(f)
       /\ \A p \in Proc :
            scroot[p] = ZSUPER \/ orphan[p] \/ f.dir[scclas[p]] = <<scroot[p]>>

(* Every call returns, and with it the lock is given back, unless the      *)
(* client keeps it, a call forgot it, the alarm went off just after the    *)
(* grant, or a file opened for exclusive use keeps it.                     *)
Raced(p) == owner = p /\ lckcnt[p] = 0
Keeps(p) == kept[p] \/ Raced(p) \/ (pc[p] = "idle" /\ ~shared[p])
CallsReturn ==
  \A p \in Proc : pc[p] \in {"wait", "granted", "work"} ~>
    pc[p] \in {"idle", "closed"} /\ (owner # p \/ Keeps(p))

(* doc/btlib.adoc:583: "All blocks owned by the target root are deleted,   *)
(* and returned to the free list."  No block is left without a root.       *)
NothingLeftBehind ==
  \A b \in Blk : Current.blk[b].type \notin {"none", "free"} =>
    Current.blk[b].of # ZNULL

(* doc/btlib.adoc:923: "Duplicates are not permitted in the superroot."    *)
(* A root that is created has a new name.                                  *)
NoDuplicateRoots == \A n \in Name : Len(Current.dir[n]) < 2
=============================================================================
