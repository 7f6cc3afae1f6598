----------------------------- MODULE SharedFile -----------------------------
(***************************************************************************)
(* Processes that share a file: the lock of the file and its count         *)
(* (bsemap.c, btlock.c), open and close (btopn.c, btcls.c), and the blocks *)
(* a process keeps in memory while it holds the lock.                      *)
(*                                                                         *)
(* A process has one context of the file (bnewap refuses a second).  A     *)
(* call takes the lock, does its work on the blocks in memory (module      *)
(* Roots), and gives the lock back once the blocks are written.  The lock  *)
(* is a POSIX record lock: it belongs to the process.                      *)
(***************************************************************************)
EXTENDS Roots

CONSTANTS
  Proc,          (* the processes                                          *)
  Nobody,        (* no process                                             *)
  NoMem,         (* no block of the file is in memory                      *)
  MaxNest,       (* how deep the client nests locks                        *)
  StrictClient   (* TRUE: a root is created under a lock, and its name is  *)
                 (* new or the file has no free block                      *)

ASSUME SharedConstants ==
  /\ Nobody \notin Proc
  /\ NoMem \notin File
  /\ MaxNest \in Nat \ {0}
  /\ StrictClient \in BOOLEAN

VARIABLES
  disk,     (* the file as written                                         *)
  owner,    (* the process that has the lock of the file                   *)
  pc,       (* for each process where it is                                *)
  shared,   (* its context: the mode in which it opened the file,          *)
  lckcnt,   (* the locks it counts,                                        *)
  scroot,   (* its current root, the superroot until btopn has found one,  *)
  scclas,   (* and the name of the root                                    *)
  mem,      (* the blocks it has in memory                                 *)
  kept,     (* a ghost: since it took the lock, the process asked to keep  *)
            (* it, or a call forgot to give it back                        *)
  orphan,   (* a ghost: another process deleted its current root           *)
  astray    (* a ghost: a call has worked on such a root                   *)

lock   == <<owner, pc, shared, lckcnt>>
place  == <<scroot, scclas>>
ghosts == <<kept, orphan, astray>>
vars   == <<disk, lock, place, mem, ghosts>>

Opening(p) == scroot[p] = ZSUPER

Init ==
  /\ \E n \in Limits : disk = NewFile(n)
  /\ owner = Nobody
  /\ pc = [p \in Proc |-> "closed"]
  /\ shared = [p \in Proc |-> FALSE]
  /\ lckcnt = [p \in Proc |-> 0]
  /\ scroot = [p \in Proc |-> ZSUPER]
  /\ scclas = [p \in Proc |-> Default]
  /\ mem = [p \in Proc |-> NoMem]
  /\ kept = [p \in Proc |-> FALSE]
  /\ orphan = [p \in Proc |-> FALSE]
  /\ astray = FALSE

Goto(p, l) == pc' = [pc EXCEPT ![p] = l]
AtRoot(p, b, n) ==
  scroot' = [scroot EXCEPT ![p] = b] /\ scclas' = [scclas EXCEPT ![p] = n]

(* bacfre: what was known of the file is freed.                            *)
bacfre(p) == Goto(p, "closed") /\ AtRoot(p, ZSUPER, Default)

----------------------------------------------------------------------------
(* block, of a process that has not the lock.                              *)

(* btopn: the file is locked whatever the mode.                            *)
btopn(p, mode) ==
  /\ pc[p] = "closed"
  /\ Goto(p, "wait")
  /\ shared' = [shared EXCEPT ![p] = mode]
  /\ UNCHANGED <<disk, owner, lckcnt, place, mem, ghosts>>

(* Any other call: the alarm is set, and fcntl waits.                      *)
Ask(p) ==
  /\ pc[p] = "idle" /\ lckcnt[p] = 0
  /\ Goto(p, "wait")
  /\ UNCHANGED <<disk, owner, shared, lckcnt, place, mem, ghosts>>

Grant(p) ==
  /\ pc[p] = "wait" /\ owner \in {Nobody, p}
  /\ owner' = p
  /\ Goto(p, "granted")
  /\ UNCHANGED <<disk, shared, lckcnt, place, mem, ghosts>>

(* Faulty variant: the alarm is set when the wait is over.                 *)
AlarmLate(p) ==
  /\ pc[p] = "granted"
  /\ IF Opening(p) THEN bacfre(p) ELSE Goto(p, "idle") /\ UNCHANGED place
  /\ UNCHANGED <<disk, owner, shared, lckcnt, mem, ghosts>>

(* The alarm goes off, before the lock is granted or just after: block     *)
(* returns FALSE, the call QBUSY.  Its bulock does nothing, as the count   *)
(* is 0.  A btopn that fails frees the context and leaves the file open.   *)
Alarm(p) ==
  /\ pc[p] \in {"wait", "granted"}
  /\ IF Opening(p) THEN bacfre(p) ELSE Goto(p, "idle") /\ UNCHANGED place
  /\ UNCHANGED <<disk, owner, shared, lckcnt, mem, ghosts>>

(* The superblock and the root are read, unless they are in memory.        *)
Enter(p) ==
  /\ pc[p] = "granted"
  /\ Goto(p, "work")
  /\ lckcnt' = [lckcnt EXCEPT ![p] = 1]
  /\ mem' = [mem EXCEPT ![p] = IF @ = NoMem THEN disk ELSE @]
  /\ UNCHANGED <<disk, owner, shared, place, ghosts>>

----------------------------------------------------------------------------
(* bulock, by a process that counts n locks and has file f in memory.      *)

(* Faulty variant: the slots keep their blocks.                            *)
bulockCached(p, n, f) ==
  /\ lckcnt' = [lckcnt EXCEPT ![p] = n - 1]
  /\ mem' = [mem EXCEPT ![p] = f]
  /\ IF n > 1
     THEN UNCHANGED <<disk, owner, kept>>
     ELSE /\ disk' = Written(f)
          /\ owner' = Nobody
          /\ kept' = [kept EXCEPT ![p] = FALSE]

(* Faulty variant: the lock is given back whatever the count.              *)
bulockAll(p, n, f) ==
  /\ lckcnt' = [lckcnt EXCEPT ![p] = n - 1]
  /\ mem' = [mem EXCEPT ![p] = IF n > 1 THEN f ELSE NoMem]
  /\ disk' = Written(f)
  /\ owner' = Nobody
  /\ kept' = [kept EXCEPT ![p] = IF n > 1 THEN @ ELSE FALSE]

(* The last one saves the file (btsync), empties the slots (initcntrl) and *)
(* gives the lock back.                                                    *)
bulock(p, n, f) ==
  /\ lckcnt' = [lckcnt EXCEPT ![p] = n - 1]
  /\ IF n > 1
     THEN mem' = [mem EXCEPT ![p] = f] /\ UNCHANGED <<disk, owner, kept>>
     ELSE /\ disk' = Written(f)
          /\ mem' = [mem EXCEPT ![p] = NoMem]
          /\ owner' = Nobody
          /\ kept' = [kept EXCEPT ![p] = FALSE]

(* The process goes on with the lock.                                      *)
KeepLock(p, n, f) ==
  /\ lckcnt' = [lckcnt EXCEPT ![p] = n]
  /\ mem' = [mem EXCEPT ![p] = f]
  /\ UNCHANGED <<disk, owner>>

----------------------------------------------------------------------------
(* The work of a call.                                                     *)

(* btopn goes to the default root.                                         *)
Open(p) ==
  LET found == mem[p].dir[Default]
  IN  /\ pc[p] = "work" /\ Opening(p) /\ found # <<>>
      /\ Goto(p, "idle")
      /\ AtRoot(p, found[1], Default)
      /\ IF shared[p] THEN bulock(p, 1, mem[p])
         ELSE KeepLock(p, 1, mem[p]) /\ UNCHANGED kept
      /\ UNCHANGED <<shared, orphan, astray>>

(* When there is none it fails: in shared mode the lock is given back, in  *)
(* exclusive mode it stays with a file that nobody can close.              *)
OpenFails(p) ==
  /\ pc[p] = "work" /\ Opening(p) /\ mem[p].dir[Default] = <<>>
  /\ bacfre(p)
  /\ IF shared[p] THEN bulock(p, 1, mem[p])
     ELSE KeepLock(p, 0, NoMem) /\ UNCHANGED kept
  /\ UNCHANGED <<shared, orphan, astray>>

(* A strict client creates a root only while it keeps the lock, under a    *)
(* name that is new, or when the free list was empty.                      *)
Allowed(p, n, c) ==
  StrictClient /\ c.op = "btcrtr" =>
    /\ n > 1 \/ ~shared[p]
    /\ mem[p].dir[c.name] = <<>> \/ mem[p].misc = 0

(* block counts a lock the process has already; in exclusive mode the      *)
(* calls do not ask.                                                       *)
Count(p) ==
  IF pc[p] = "idle" /\ shared[p] THEN lckcnt[p] + 1 ELSE lckcnt[p]

Deletes(f, g, b) == b \in Blk /\ f.blk[b].type = "root" /\ g.blk[b].type = "free"

Perform(p, c) ==
  LET n == Count(p)
  IN  /\ \/ pc[p] = "work" /\ ~Opening(p)
         \/ pc[p] = "idle" /\ lckcnt[p] > 0
      /\ Allowed(p, n, c)
      /\ Goto(p, "idle")
      /\ \E r \in Effects(c, mem[p], scroot[p], shared[p]) :
           /\ AtRoot(p, r.root, IF r.moved THEN c.name ELSE scclas[p])
           /\ IF (shared[p] /\ r.held) \/ c.op = "btlock"
              THEN /\ n <= MaxNest
                   /\ KeepLock(p, n, r.file)
                   /\ kept' = [kept EXCEPT ![p] = TRUE]
              ELSE IF shared[p] THEN bulock(p, n, r.file)
              ELSE KeepLock(p, n, r.file) /\ UNCHANGED kept
           /\ orphan' = [q \in Proc |->
                IF q = p THEN orphan[p] /\ ~r.moved
                ELSE orphan[q] \/ Deletes(mem[p], r.file, scroot[q])]
      /\ astray' = (astray \/ (orphan[p] /\ c.op \in KeyCalls))
      /\ UNCHANGED shared

btunlock(p) ==
  /\ pc[p] = "idle" /\ shared[p] /\ lckcnt[p] > 0
  /\ bulock(p, lckcnt[p], mem[p])
  /\ UNCHANGED <<pc, shared, place, orphan, astray>>

(* btcls: bulock until the count is 0.  To close a file gives back every   *)
(* lock the process has on it.                                             *)
btcls(p) ==
  /\ pc[p] = "idle"
  /\ bacfre(p)
  /\ IF lckcnt[p] > 0 THEN bulock(p, 1, mem[p])
     ELSE /\ owner' = IF owner = p THEN Nobody ELSE owner
          /\ UNCHANGED <<disk, lckcnt, mem, kept>>
  /\ orphan' = [orphan EXCEPT ![p] = FALSE]
  /\ UNCHANGED <<shared, astray>>

----------------------------------------------------------------------------
(* What the program does once a call has begun, and what the client does.  *)
Step(p) ==
  \/ Grant(p) \/ Alarm(p) \/ Enter(p) \/ Open(p) \/ OpenFails(p)
  \/ pc[p] = "work" /\ \E c \in Call : Perform(p, c)

Client(p) ==
  \/ \E mode \in BOOLEAN : btopn(p, mode)
  \/ Ask(p) \/ btunlock(p) \/ btcls(p)
  \/ pc[p] = "idle" /\ \E c \in Call : Perform(p, c)

Next == \E p \in Proc : Step(p) \/ Client(p)

Spec == Init /\ [][Next]_vars

(* A call that has begun goes on: the alarm ends every wait.               *)
FairSpec == Spec /\ \A p \in Proc : WF_vars(Step(p))
=============================================================================
