----------------------------- MODULE SharedProofs -----------------------------
(***************************************************************************)
(* Proofs about processes that share a file, for any number of processes,  *)
(* names and blocks and any depth of nested locks: block and bulock        *)
(* exclude (LockSound); the roots are sound (RootsSound); the processes    *)
(* implement WholeCalls.                                                   *)
(***************************************************************************)
EXTENDS SharedProps, FiniteSetTheorems, SequenceTheorems, TLAPS

(* block and bulock exclude: at most one process has blocks of the file    *)
(* in memory.                                                              *)

(* The inductive invariant: the count of a process is positive only while  *)
(* it owns the lock, and so are its blocks.  OneAtATime follows.           *)
LockInv == LockTypeOK /\ CountedIsOwned /\ CacheIsCounted /\ WorkIsCounted

LEMMA InvExcludes == LockInv => LockSound
<1> SUFFICES ASSUME LockInv PROVE OneAtATime
  BY DEF LockInv, LockSound
<1> SUFFICES ASSUME NEW p \in Proc, NEW q \in Proc,
                    mem[p] # NoMem, mem[q] # NoMem
             PROVE  p = q
  BY DEF OneAtATime
<1>1. lckcnt[p] > 0 /\ lckcnt[q] > 0
  BY SMT, SharedConstants DEF LockInv, LockTypeOK, CacheIsCounted, SharedConstants
<1> QED
  BY <1>1 DEF LockInv, CountedIsOwned

LEMMA InitInv == Init => LockInv
BY SMT, SharedConstants
DEF Init, LockInv, LockTypeOK, CountedIsOwned, CacheIsCounted, WorkIsCounted,
    SharedConstants

(* bulock of the owner, which goes on or, with its last lock, closes.      *)
LEMMA BulockKeepsInv ==
  ASSUME LockInv,
         NEW p \in Proc, owner = p,
         NEW n \in 1 .. MaxNest + 1, NEW f, bulock(p, n, f),
         shared' = shared,
         \/ pc' = [pc EXCEPT ![p] = "idle"]
         \/ n = 1 /\ pc' = [pc EXCEPT ![p] = "closed"]
  PROVE  LockInv'
<1> USE SharedConstants DEF SharedConstants, LockInv
<1>1. LockTypeOK'
  BY SMT DEF LockTypeOK, bulock
<1>2. CountedIsOwned'
  BY SMT DEF LockTypeOK, CountedIsOwned, bulock
<1>3. CacheIsCounted'
  BY SMT DEF LockTypeOK, CacheIsCounted, bulock
<1>4. WorkIsCounted'
  BY SMT DEF LockTypeOK, CountedIsOwned, WorkIsCounted, bulock
<1> QED
  BY <1>1, <1>2, <1>3, <1>4

(* The owner goes on with its locks.                                       *)
LEMMA KeepLockKeepsInv ==
  ASSUME LockInv,
         NEW p \in Proc, owner = p,
         NEW n \in 1 .. MaxNest, NEW f, KeepLock(p, n, f),
         shared' = shared, pc' = [pc EXCEPT ![p] = "idle"]
  PROVE  LockInv'
BY SMT, SharedConstants
DEF SharedConstants, LockInv, LockTypeOK, CountedIsOwned, CacheIsCounted,
    WorkIsCounted, KeepLock

(* What the process counts during a call.                                  *)
LEMMA CountBounds ==
  ASSUME LockInv, NEW p \in Proc,
         pc[p] = "work" \/ (pc[p] = "idle" /\ lckcnt[p] > 0)
  PROVE  /\ owner = p
         /\ Count(p) \in 1 .. MaxNest + 1
         /\ ~shared[p] => Count(p) \in 1 .. MaxNest
BY SMT, SharedConstants
DEF SharedConstants, LockInv, LockTypeOK, CountedIsOwned, WorkIsCounted, Count

LEMMA PerformKeepsInv ==
  ASSUME LockInv, NEW p \in Proc, NEW c \in Call, Perform(p, c)
  PROVE  LockInv'
<1> DEFINE n == Count(p)
<1>1. pc[p] = "work" \/ (pc[p] = "idle" /\ lckcnt[p] > 0)
  BY DEF Perform
<1>2. /\ owner = p
      /\ n \in 1 .. MaxNest + 1
      /\ ~shared[p] => n \in 1 .. MaxNest
  BY <1>1, CountBounds
<1>3. shared' = shared /\ pc' = [pc EXCEPT ![p] = "idle"]
  BY DEF Perform, Goto
<1>4. PICK r \in Effects(c, mem[p], scroot[p], shared[p]) :
        \/ n <= MaxNest /\ KeepLock(p, n, r.file)
        \/ shared[p] /\ bulock(p, n, r.file)
        \/ ~shared[p] /\ KeepLock(p, n, r.file)
  BY DEF Perform
<1>5. CASE shared[p] /\ bulock(p, n, r.file)
  <2> HIDE DEF n
  <2> QED
    BY <1>2, <1>3, <1>5, BulockKeepsInv
<1>6. CASE n \in 1 .. MaxNest /\ KeepLock(p, n, r.file)
  <2> HIDE DEF n
  <2> QED
    BY <1>2, <1>3, <1>6, KeepLockKeepsInv
<1>7. n <= MaxNest => n \in 1 .. MaxNest
  BY <1>2, SharedConstants DEF SharedConstants
<1> HIDE DEF n
<1> QED
  BY <1>2, <1>4, <1>5, <1>6, <1>7

LEMMA StepKeepsInv ==
  ASSUME LockInv, NEW p \in Proc, Step(p)
  PROVE  LockInv'
<1> USE SharedConstants DEF SharedConstants
<1>1. CASE Grant(p)
  BY <1>1, SMT DEF Grant, Goto, place, ghosts, LockInv, LockTypeOK,
     CountedIsOwned, CacheIsCounted, WorkIsCounted
<1>2. CASE Alarm(p)
  BY <1>2, SMT DEF Alarm, bacfre, Goto, place, ghosts, LockInv, LockTypeOK,
     CountedIsOwned, CacheIsCounted, WorkIsCounted
<1>3. CASE Enter(p)
  BY <1>3, SMT DEF Enter, Goto, place, ghosts, LockInv, LockTypeOK,
     CountedIsOwned, CacheIsCounted, WorkIsCounted
<1>4. CASE Open(p)
  <2>1. owner = p /\ lckcnt[p] = 1
    BY <1>4 DEF Open, LockInv, LockTypeOK, CountedIsOwned, WorkIsCounted
  <2>2. shared' = shared /\ pc' = [pc EXCEPT ![p] = "idle"]
    BY <1>4 DEF Open, Goto
  <2>3. bulock(p, 1, mem[p]) \/ KeepLock(p, 1, mem[p])
    BY <1>4 DEF Open
  <2>4. 1 \in 1 .. MaxNest /\ 1 \in 1 .. MaxNest + 1
    OBVIOUS
  <2> QED
    BY <2>1, <2>2, <2>3, <2>4, BulockKeepsInv, KeepLockKeepsInv
<1>5. CASE OpenFails(p)
  <2>1. owner = p /\ lckcnt[p] = 1
    BY <1>5 DEF OpenFails, LockInv, LockTypeOK, CountedIsOwned, WorkIsCounted
  <2>2. shared' = shared /\ pc' = [pc EXCEPT ![p] = "closed"]
    BY <1>5 DEF OpenFails, bacfre, Goto
  <2>3. CASE bulock(p, 1, mem[p])
    <3>1. 1 \in 1 .. MaxNest + 1
      OBVIOUS
    <3> QED
      BY <2>1, <2>2, <2>3, <3>1, BulockKeepsInv
  <2>4. CASE KeepLock(p, 0, NoMem)
    BY <2>2, <2>4, SMT DEF KeepLock, LockInv, LockTypeOK,
       CountedIsOwned, CacheIsCounted, WorkIsCounted
  <2> QED
    BY <1>5, <2>3, <2>4 DEF OpenFails
<1>6. ASSUME NEW c \in Call, Perform(p, c) PROVE LockInv'
  BY <1>6, PerformKeepsInv
<1> QED
  BY <1>1, <1>2, <1>3, <1>4, <1>5, <1>6 DEF Step

LEMMA ClientKeepsInv ==
  ASSUME LockInv, NEW p \in Proc, Client(p)
  PROVE  LockInv'
<1> USE SharedConstants DEF SharedConstants
<1>1. ASSUME NEW mode \in BOOLEAN, btopn(p, mode) PROVE LockInv'
  BY <1>1, SMT DEF btopn, Goto, place, ghosts, LockInv, LockTypeOK,
     CountedIsOwned, CacheIsCounted, WorkIsCounted
<1>2. CASE Ask(p)
  BY <1>2, SMT DEF Ask, Goto, place, ghosts, LockInv, LockTypeOK,
     CountedIsOwned, CacheIsCounted, WorkIsCounted
<1>3. CASE btunlock(p)
  <2>1. owner = p /\ lckcnt[p] \in 1 .. MaxNest + 1
    BY <1>3, SMT DEF btunlock, LockInv, LockTypeOK, CountedIsOwned
  <2>2. shared' = shared /\ pc' = [pc EXCEPT ![p] = "idle"]
    BY <1>3, SMT DEF btunlock, LockInv, LockTypeOK
  <2> QED
    BY <1>3, <2>1, <2>2, BulockKeepsInv DEF btunlock
<1>4. CASE btcls(p)
  <2>1. shared' = shared /\ pc' = [pc EXCEPT ![p] = "closed"]
    BY <1>4 DEF btcls, bacfre, Goto
  <2>2. CASE lckcnt[p] > 0
    <3>1. owner = p /\ bulock(p, 1, mem[p]) /\ 1 \in 1 .. MaxNest + 1
      BY <1>4, <2>2 DEF btcls, LockInv, LockTypeOK, CountedIsOwned
    <3> QED
      BY <2>1, <3>1, BulockKeepsInv
  <2>3. CASE ~(lckcnt[p] > 0)
    BY <1>4, <2>1, <2>3, SMT DEF btcls, LockInv, LockTypeOK, CountedIsOwned,
       CacheIsCounted, WorkIsCounted
  <2> QED
    BY <2>2, <2>3
<1>5. ASSUME NEW c \in Call, Perform(p, c) PROVE LockInv'
  BY <1>5, PerformKeepsInv
<1> QED
  BY <1>1, <1>2, <1>3, <1>4, <1>5 DEF Client

(* The lock excludes (bsemap.c): at most one process has blocks of the     *)
(* file in memory, and it owns the lock and counts it.                     *)
THEOREM LockCorrect == Spec => []LockSound
<1>1. LockInv /\ [Next]_vars => LockInv'
  <2> SUFFICES ASSUME LockInv, [Next]_vars PROVE LockInv'
    OBVIOUS
  <2>1. CASE Next
    BY <2>1, StepKeepsInv, ClientKeepsInv DEF Next
  <2>2. CASE UNCHANGED vars
    BY <2>2 DEF vars, lock, LockInv, LockTypeOK, CountedIsOwned,
       CacheIsCounted, WorkIsCounted
  <2> QED
    BY <2>1, <2>2
<1> QED
  BY <1>1, InitInv, InvExcludes, PTL DEF Spec

----------------------------------------------------------------------------
(* The roots.                                                              *)

Elems(s) == {s[i] : i \in DOMAIN s}
Distinct(s) == \A i, j \in DOMAIN s : s[i] = s[j] => i = j

(* Every name leads to a root of its own and every root has a name.        *)
NamesOK(f) ==
  /\ \A n \in Name : f.dir[n] # <<>> =>
       \E b \in Blk : f.dir[n] = <<b>> /\ f.blk[b].type = "root"
  /\ \A n, m \in Name : f.dir[n] # <<>> /\ f.dir[n] = f.dir[m] => n = m
  /\ \A b \in Blk : f.blk[b].type = "root" =>
       \E n \in Name : f.dir[n] = <<b>>

(* The free list has each free block once; past the end of the file there  *)
(* is nothing.                                                             *)
ListOK(f) ==
  /\ Distinct(f.free)
  /\ \A b \in Blk : /\ f.blk[b].type = "none" <=> b >= f.blkmx
                    /\ f.blk[b].type = "free" <=> b \in Elems(f.free)

FileInv(f) == f \in File /\ NamesOK(f) /\ ListOK(f)

(* The blocks of the tree and of the data list have a root; a dup block, a *)
(* data block cut off the list and a lost one have one, or it was deleted. *)
OwnersLive(f) ==
  \A b \in Blk :
    /\ f.blk[b].type \in {"inuse", "data"} =>
         f.blk[b].of \in Blk /\ f.blk[f.blk[b].of].type = "root"
    /\ f.blk[b].type \in {"cut", "dup", "lost"} =>
         \/ f.blk[b].of \in {ZSUPER, ZNULL}
         \/ f.blk[b].of \in Blk /\ f.blk[f.blk[b].of].type = "root"

(* The data list of a root begins with one of its blocks.                  *)
HeadsLead(f) ==
  \A r \in Blk : f.blk[r].type = "root" =>
    IF BlocksOf(f, r, "data") = {} THEN f.blk[r].head = ZNULL
    ELSE f.blk[r].head \in BlocksOf(f, r, "data")

Live(f) == OwnersLive(f) /\ HeadsLead(f)

(* A context is at the root it named.                                      *)
ContextsOK(f) ==
  \A p \in Proc :
    scroot[p] = ZSUPER \/ orphan[p] \/ f.dir[scclas[p]] = <<scroot[p]>>

(* A process has blocks in memory exactly while it counts a lock, and when *)
(* its work begins they are as in the file.                                *)
MemOK ==
  \A p \in Proc : /\ lckcnt[p] > 0 => FileInv(mem[p])
                  /\ lckcnt[p] = 0 => mem[p] = NoMem
                  /\ pc[p] = "work" => mem[p] = disk

PlacesOK ==
  /\ scroot \in [Proc -> Blk \cup {ZSUPER}] /\ scclas \in [Proc -> Name]
  /\ orphan \in [Proc -> BOOLEAN] /\ astray \in BOOLEAN
  /\ \A p \in Proc : pc[p] = "idle" => scroot[p] # ZSUPER

RInv ==
  /\ LockInv /\ FileInv(disk) /\ MemOK /\ PlacesOK
  /\ ~astray => Live(Current) /\ ContextsOK(Current)

----------------------------------------------------------------------------
(* Sequences without repetitions.                                          *)
LEMMA ConcatElems ==
  ASSUME NEW X, NEW s \in Seq(X), NEW t \in Seq(X)
  PROVE  /\ s \o t \in Seq(X) /\ Elems(s \o t) = Elems(s) \cup Elems(t)
         /\ Distinct(s) /\ Distinct(t) /\ Elems(s) \cap Elems(t) = {}
              => Distinct(s \o t)
<1> DEFINE u == s \o t  m == Len(s)  n == Len(t)
<1>1. /\ u \in Seq(X) /\ m \in Nat /\ n \in Nat
      /\ DOMAIN s = 1 .. m /\ DOMAIN t = 1 .. n /\ DOMAIN u = 1 .. m + n
      /\ \A i \in 1 .. m + n : u[i] = IF i <= m THEN s[i] ELSE t[i - m]
  BY ConcatProperties, LenProperties
<1> HIDE DEF u, m, n
<1>2. \A i \in DOMAIN s : i \in DOMAIN u /\ u[i] = s[i]
  BY <1>1
<1>3. \A i \in DOMAIN t : m + i \in DOMAIN u /\ u[m + i] = t[i]
  BY <1>1
<1>4. \A i \in DOMAIN u : \/ i \in DOMAIN s /\ u[i] = s[i]
                          \/ i - m \in DOMAIN t /\ u[i] = t[i - m] /\ i \in Int
  BY <1>1
<1>5. Elems(u) = Elems(s) \cup Elems(t)
  BY <1>2, <1>3, <1>4 DEF Elems
<1>6. ASSUME Distinct(s), Distinct(t), Elems(s) \cap Elems(t) = {},
             NEW i \in DOMAIN u, NEW j \in DOMAIN u, u[i] = u[j]
      PROVE  i = j
  <2>1. CASE i \in DOMAIN s /\ u[i] = s[i] /\ j \in DOMAIN s /\ u[j] = s[j]
    BY <1>6, <2>1 DEF Distinct
  <2>2. CASE /\ i - m \in DOMAIN t /\ u[i] = t[i - m] /\ i \in Int
             /\ j - m \in DOMAIN t /\ u[j] = t[j - m] /\ j \in Int
    <3>1. i - m = j - m
      BY <1>6, <2>2 DEF Distinct
    <3> QED  BY <1>1, <2>2, <3>1
  <2>3. CASE /\ i \in DOMAIN s /\ u[i] = s[i]
             /\ j - m \in DOMAIN t /\ u[j] = t[j - m]
    BY <1>6, <2>3 DEF Elems
  <2>4. CASE /\ j \in DOMAIN s /\ u[j] = s[j]
             /\ i - m \in DOMAIN t /\ u[i] = t[i - m]
    BY <1>6, <2>4 DEF Elems
  <2> QED  BY <1>4, <2>1, <2>2, <2>3, <2>4
<1>7. Distinct(s) /\ Distinct(t) /\ Elems(s) \cap Elems(t) = {} => Distinct(u)
  BY <1>6 DEF Distinct
<1> QED  BY <1>1, <1>5, <1>7 DEF u

(* A list of blocks without repetitions is no longer than the file.        *)
LEMMA ListLength ==
  ASSUME NEW s \in Seq(Blk), Distinct(s)
  PROVE  Len(s) \in 0 .. MAXBLK
<1>1. Len(s) \in Nat /\ s \in [1 .. Len(s) -> Blk] /\ MAXBLK - 1 \in Nat
      /\ MAXBLK \in Nat
  BY LenProperties, RootConstants
<1>2. s \in Injection(1 .. Len(s), Blk)
  BY <1>1 DEF Distinct, Injection, IsInjective
<1>3. IsFiniteSet(Blk) /\ Cardinality(Blk) <= MAXBLK - 1
  <2> DEFINE m == MAXBLK - 1
  <2>1. m \in Nat /\ 1 \in Int /\ m \in Int /\ m - 1 + 1 = m
    BY <1>1
  <2>2. /\ IsFiniteSet(1 .. m)
        /\ Cardinality(1 .. m) = IF 1 > m THEN 0 ELSE m - 1 + 1
    BY <2>1, FS_Interval, Zenon
  <2> QED  BY <2>1, <2>2 DEF Blk
<1>4. Cardinality(1 .. Len(s)) <= Cardinality(Blk)
  BY <1>2, <1>3, FS_Injection
<1>5. Cardinality(1 .. Len(s)) = Len(s)
  BY <1>1, FS_Interval
<1>6. Cardinality(Blk) \in Nat
  BY <1>3, FS_CardinalityType
<1> QED  BY <1>1, <1>3, <1>4, <1>5, <1>6

(* The order in which blocks are freed: all of them, each once.            *)
LEMMA OrderElems ==
  ASSUME NEW S \in SUBSET Blk
  PROVE  /\ SetToSeq(S) \in Seq(Blk) /\ Elems(SetToSeq(S)) = S
         /\ Distinct(SetToSeq(S))
<1> DEFINE n == Cardinality(S)  o == SetToSeq(S)
<1>1. IsFiniteSet(S)
  <2>1. IsFiniteSet(Blk)
    BY RootConstants, FS_Interval DEF Blk
  <2> QED  BY <2>1, FS_Subset
<1>2. n \in Nat /\ ExistsBijection(1 .. n, S)
  BY <1>1, FS_CardinalityType
<1>3. PICK g : g \in Bijection(1 .. n, S)
  BY <1>2 DEF ExistsBijection
<1>4. g \in [1 .. n -> S] /\ IsInjective(g)
  BY <1>3 DEF Bijection, Injection
<1>5. o \in [1 .. n -> S] /\ IsInjective(o)
  BY <1>4, ZenonT(40) DEF SetToSeq
<1> HIDE DEF o
<1>6. o \in Injection(1 .. n, S)
  BY <1>5 DEF Injection
<1>7. IsFiniteSet(1 .. n) /\ Cardinality(1 .. n) = n
  BY <1>2, FS_Interval
<1>8. o \in Surjection(1 .. n, S)
  BY <1>1, <1>6, <1>7, FS_Injection
<1> HIDE DEF n
<1>9. Elems(o) = S
  BY <1>5, <1>8 DEF Elems, Surjection
<1>10. o \in Seq(Blk)
  BY <1>2, <1>5, SeqDef
<1>11. Distinct(o)
  BY <1>5 DEF Distinct, IsInjective
<1> QED  BY <1>9, <1>10, <1>11 DEF o

----------------------------------------------------------------------------
(* The operators on files.                                                 *)

(* What FileInv says of a file depends on no more than this.               *)
LEMMA SameShape ==
  ASSUME NEW f, FileInv(f), NEW g \in File,
         g.dir = f.dir, g.free = f.free, g.blkmx = f.blkmx,
         \A b \in Blk : g.blk[b].type = f.blk[b].type
  PROVE  FileInv(g)
<1>1. NamesOK(g)
  BY ZenonT(40) DEF FileInv, NamesOK
<1>2. ListOK(g)
  BY Zenon DEF FileInv, ListOK
<1> QED  BY <1>1, <1>2 DEF FileInv

LEMMA SameNames ==
  ASSUME NEW f, NamesOK(f), NEW g, g.dir = f.dir,
         \A b \in Blk : g.blk[b].type = "root" <=> f.blk[b].type = "root"
  PROVE  NamesOK(g)
<1>1. ASSUME NEW n \in Name, g.dir[n] # <<>>
      PROVE  \E b \in Blk : g.dir[n] = <<b>> /\ g.blk[b].type = "root"
  BY <1>1 DEF NamesOK
<1>2. \A n, m \in Name : g.dir[n] # <<>> /\ g.dir[n] = g.dir[m] => n = m
  BY DEF NamesOK
<1>3. ASSUME NEW b \in Blk, g.blk[b].type = "root"
      PROVE  \E n \in Name : g.dir[n] = <<b>>
  BY <1>3 DEF NamesOK
<1> QED  BY <1>1, <1>2, <1>3 DEF NamesOK

LEMMA WrittenKeeps ==
  ASSUME NEW f, FileInv(f)
  PROVE  /\ FileInv(Written(f))
         /\ Written(f).blk = f.blk /\ Written(f).dir = f.dir
<1> DEFINE g == Written(f)
<1>1. f \in File /\ f.free \in Seq(Blk) /\ Distinct(f.free)
  BY DEF FileInv, File, ListOK
<1>2. Len(f.free) \in 0 .. MAXBLK
  BY <1>1, ListLength
<1>3. /\ g \in File /\ g.blk = f.blk /\ g.dir = f.dir /\ g.free = f.free
      /\ g.blkmx = f.blkmx
  BY <1>1, <1>2 DEF File, Written
<1> HIDE DEF g
<1>4. FileInv(g)
  BY <1>3, SameShape
<1> QED  BY <1>3, <1>4 DEF g

(* The fields of a file.                                                   *)
LEMMA FileFields ==
  ASSUME NEW f \in File
  PROVE  /\ f.blk \in [Blk -> Block] /\ f.dir \in [Name -> Seq(Blk \cup {ZNULL})]
         /\ f.free \in Seq(Blk) /\ f.blkmx \in 2 .. MAXBLK
         /\ f.limit \in 2 .. MAXBLK /\ MAXBLK \in Nat
         /\ \A b \in Blk : f.blk[b] \in Block
BY RootConstants DEF File

(* What bgtfre has to give: the free blocks, then those past the end.      *)
LEMMA SupplyElems ==
  ASSUME NEW f, f \in File
  PROVE  LET m == Len(f.free)
         IN  /\ m \in Nat /\ Room(f) \in Nat /\ Room(f) >= m
             /\ Room(f) > m => f.blkmx + (Room(f) - m) <= f.limit
             /\ \A i \in 1 .. Room(f) :
                  Supply(f)[i] = IF i <= m THEN f.free[i]
                                 ELSE f.blkmx + (i - m) - 1
<1> DEFINE s == f.free  m == Len(s)  k == f.blkmx  l == f.limit  e == l - k
           past == [i \in 1 .. e |-> k + i - 1]
           o == IF e > 0 THEN e ELSE 0
<1>1. s \in Seq(Blk) /\ k \in Int /\ l \in Int /\ m \in Nat
  BY FileFields, LenProperties
<1>2. s \in Seq(Int)
  <2>1. s \in [1 .. m -> Blk]
    BY <1>1, LenProperties
  <2>2. Blk \subseteq Int
    BY DEF Blk
  <2>3. s \in [1 .. m -> Int]
    BY <2>1, <2>2
  <2> HIDE DEF s, m
  <2> QED  BY <1>1, <2>3, SeqDef
<1>3. Supply(f) = s \o past
  BY DEF Supply
<1> HIDE DEF s, m, k, l
<1>4. o \in Nat /\ 1 .. e = 1 .. o
  BY <1>1
<1>5. past \in [1 .. o -> Int]
  BY <1>1, <1>4
<1>6. \A i \in 1 .. o : past[i] = k + i - 1
  BY <1>4
<1> HIDE DEF past
<1>7. past \in Seq(Int) /\ Len(past) = o
  BY <1>4, <1>5, SeqDef, LenProperties
<1> DEFINE u == s \o past
<1>8. /\ Len(u) = m + o
      /\ \A i \in 1 .. m + o : u[i] = IF i <= m THEN s[i] ELSE past[i - m]
  BY <1>2, <1>7, ConcatProperties DEF m
<1> HIDE DEF u
<1>9. \A i \in 1 .. m + o : u[i] = IF i <= m THEN s[i] ELSE k + (i - m) - 1
  <2> SUFFICES ASSUME NEW i \in 1 .. m + o, ~(i <= m)
               PROVE  u[i] = k + (i - m) - 1
    BY <1>8
  <2>1. i - m \in 1 .. o /\ u[i] = past[i - m]
    BY <1>1, <1>4, <1>8
  <2> QED  BY <1>6, <2>1
<1>10. m + o >= m /\ m + o \in Nat /\ (m + o > m => k + ((m + o) - m) <= l)
  BY <1>1
<1>11. Room(f) = m + o /\ Supply(f) = u
  BY <1>3, <1>8 DEF Room, u
<1> HIDE DEF o
<1> QED  BY <1>1, <1>9, <1>10, <1>11 DEF s, m, k, l

(* Blocks are taken from the free list and at the end of the file.         *)
Taken(f, n) == {Supply(f)[i] : i \in 1 .. n}

LEMMA TakeKeeps ==
  ASSUME NEW f, f \in File, ListOK(f), NEW n \in 0 .. Room(f),
         NEW block \in Block, block.type \notin {"none", "free"}
  PROVE  LET g == Take(f, n, block)
         IN  /\ g \in File /\ ListOK(g) /\ g.dir = f.dir
             /\ Taken(f, n) \subseteq Blk
             /\ \A b \in Taken(f, n) : f.blk[b].type \in {"none", "free"}
             /\ \A b \in Blk : g.blk[b] = IF b \in Taken(f, n) THEN block
                                         ELSE f.blk[b]
<1> DEFINE g == Take(f, n, block)  T == Taken(f, n)
           s == f.free  m == Len(s)  k == f.blkmx  l == f.limit
           R == Room(f)  u == Supply(f)
           blk == [b \in Blk |-> IF \E i \in 1 .. n : u[i] = b
                                 THEN block ELSE f.blk[b]]
           free == SubSeq(s, n + 1, m)
           blkmx == IF n > m THEN k + n - m ELSE k
<1>1. /\ f.blk \in [Blk -> Block] /\ s \in Seq(Blk)
      /\ k \in 2 .. MAXBLK /\ l \in 2 .. MAXBLK /\ MAXBLK \in Nat
      /\ DOMAIN s = 1 .. m /\ \A i \in 1 .. m : s[i] \in Blk
  BY FileFields, LenProperties, ElementOfSeq
<1>2. /\ m \in Nat /\ R \in Nat /\ R >= m /\ n \in Nat /\ n <= R
      /\ R > m => k + (R - m) <= l
      /\ \A i \in 1 .. R : u[i] = IF i <= m THEN s[i] ELSE k + (i - m) - 1
  BY SupplyElems
<1>3. /\ blk \in [Blk -> Block]
      /\ \A b \in Blk : blk[b] = IF b \in T THEN block ELSE f.blk[b]
  BY <1>1 DEF Taken
<1>4. g = [f EXCEPT !.blk = blk, !.free = free, !.blkmx = blkmx]
  BY DEF Take
<1>7. /\ Distinct(s)
      /\ \A b \in Blk : /\ f.blk[b].type = "none" <=> b >= k
                        /\ f.blk[b].type = "free" <=> b \in Elems(s)
  BY DEF ListOK
<1>8. T = {u[i] : i \in 1 .. n}
  BY DEF Taken
<1> HIDE DEF blk, g, s, m, k, l, R, u, T
<1>5. CASE n > m
  <2>1. free \in Seq(Blk) /\ DOMAIN free = {} /\ Elems(free) = {}
    <3>1. n + 1 \in Int /\ m \in Int /\ m < n + 1
      BY <1>2, <1>5
    <3>2. free = <<>>
      BY <3>1, SubSeqEmpty
    <3>3. free \in Seq(Blk) /\ DOMAIN free = {}
      <4> HIDE DEF free
      <4> QED  BY <3>2
    <3> QED  BY <3>3 DEF Elems
  <2>2. blkmx = k + n - m /\ blkmx \in 2 .. MAXBLK /\ blkmx > k /\ k \in Int
    BY <1>1, <1>2, <1>5
  <2> HIDE DEF free, blkmx
  <2>3. \A b \in Elems(s) : b \in T
    <3> SUFFICES ASSUME NEW i \in 1 .. m PROVE s[i] \in T
      BY <1>1 DEF Elems
    <3>1. i \in 1 .. n /\ i \in 1 .. R /\ i <= m
      BY <1>2, <1>5
    <3>2. u[i] = s[i]
      BY <1>2, <3>1
    <3> QED  BY <1>8, <3>1, <3>2
  <2>4. ASSUME NEW b \in T
        PROVE  b \in Blk /\ (b \in Elems(s) \/ b >= k) /\ ~(b >= blkmx)
    <3>1. PICK i \in 1 .. n : b = u[i]
      BY <1>8
    <3>2. i \in 1 .. R /\ i \in Int
      BY <1>2
    <3>3. CASE i <= m
      <4>1. i \in 1 .. m /\ b = s[i]
        BY <1>2, <3>1, <3>2, <3>3
      <4>2. b \in Blk /\ b \in Elems(s)
        BY <1>1, <4>1 DEF Elems
      <4>3. ~(b >= k) /\ b \in Int
        BY <1>7, <4>2 DEF Blk
      <4> QED  BY <2>2, <4>2, <4>3
    <3>4. CASE ~(i <= m)
      <4>1. b = k + (i - m) - 1
        BY <1>2, <3>1, <3>2, <3>4
      <4> QED  BY <1>1, <1>2, <2>2, <3>2, <3>4, <4>1 DEF Blk
    <3> QED  BY <3>3, <3>4
  <2>5. ASSUME NEW b \in Blk, b >= k, ~(b >= blkmx) PROVE b \in T
    <3> DEFINE i == m + (b - k) + 1
    <3>1. b \in Int
      BY DEF Blk
    <3>2. i \in 1 .. n /\ ~(i <= m) /\ k + (i - m) - 1 = b
      BY <1>2, <2>2, <2>5, <3>1
    <3> HIDE DEF i
    <3>3. i \in 1 .. R
      BY <1>2, <3>2
    <3>4. u[i] = b
      BY <1>2, <3>2, <3>3
    <3> QED  BY <1>8, <3>2, <3>4
  <2>6. /\ g \in File /\ g.dir = f.dir /\ g.blk = blk /\ g.free = free
        /\ g.blkmx = blkmx
    BY <1>3, <1>4, <2>1, <2>2 DEF File
  <2>7. ASSUME NEW b \in Blk
        PROVE  /\ blk[b].type = "none" <=> b >= blkmx
               /\ blk[b].type = "free" <=> b \in Elems(free)
    <3>1. b >= blkmx => b >= k
      BY <2>2 DEF Blk
    <3> QED  BY <1>3, <1>7, <2>1, <2>3, <2>4, <2>5, <3>1
  <2>8. ListOK(g)
    BY <2>1, <2>6, <2>7 DEF ListOK, Distinct
  <2>9. \A b \in T : b \in Blk /\ f.blk[b].type \in {"none", "free"}
    BY <1>7, <2>4
  <2> QED  BY <1>3, <2>6, <2>8, <2>9 DEF g, T
<1>6. CASE ~(n > m)
  <2>1. /\ free \in Seq(Blk) /\ DOMAIN free = 1 .. m - n
        /\ \A i \in 1 .. m - n : free[i] = s[n + i]
    <3>1. n + 1 \in 1 .. Len(s) + 1 /\ m \in (n + 1) - 1 .. Len(s)
      BY <1>2, <1>6 DEF m
    <3>2. /\ free \in Seq(Blk) /\ Len(free) = m - (n + 1) + 1
          /\ \A i \in 1 .. m - (n + 1) + 1 : free[i] = s[(n + 1) + i - 1]
      BY <1>1, <3>1, SubSeqProperties
    <3>3. m - (n + 1) + 1 = m - n /\ \A i \in Int : (n + 1) + i - 1 = n + i
      BY <1>2
    <3> QED  BY <3>2, <3>3, LenProperties
  <2>2. blkmx = k
    BY <1>6
  <2> HIDE DEF free, blkmx
  <2>3. \A i \in 1 .. n : i \in 1 .. m /\ u[i] = s[i]
    BY <1>2, <1>6
  <2>4. \A i \in 1 .. m - n : n + i \in 1 .. m /\ ~(n + i \in 1 .. n)
    BY <1>2, <1>6
  <2>5. ASSUME NEW b \in T PROVE b \in Blk /\ b \in Elems(s) /\ b \notin Elems(free)
    <3>1. PICK i \in 1 .. n : b = s[i] /\ i \in 1 .. m
      BY <1>8, <2>3
    <3>2. ASSUME NEW j \in 1 .. m - n, b = s[n + j] PROVE FALSE
      <4>1. i = n + j
        BY <1>1, <1>7, <2>4, <3>1, <3>2 DEF Distinct
      <4> QED  BY <2>4, <4>1
    <3> QED  BY <1>1, <2>1, <3>1, <3>2 DEF Elems
  <2>6. \A b \in Elems(free) : b \in Elems(s)
    BY <1>1, <2>1, <2>4 DEF Elems
  <2>7. ASSUME NEW b \in Elems(s), b \notin T PROVE b \in Elems(free)
    <3>1. PICK i \in 1 .. m : b = s[i]
      BY <1>1 DEF Elems
    <3>2. ~(i \in 1 .. n)
      BY <1>8, <2>3, <2>7, <3>1
    <3>3. i - n \in 1 .. m - n /\ n + (i - n) = i
      BY <1>2, <1>6, <3>2
    <3> QED  BY <2>1, <3>1, <3>3 DEF Elems
  <2>8. Distinct(free)
    <3> SUFFICES ASSUME NEW i \in 1 .. m - n, NEW j \in 1 .. m - n,
                        s[n + i] = s[n + j]
                 PROVE  i = j
      BY <2>1 DEF Distinct
    <3>1. n + i = n + j
      BY <1>1, <1>7, <2>4 DEF Distinct
    <3> QED  BY <1>2, <3>1
  <2>9. /\ g \in File /\ g.dir = f.dir /\ g.blk = blk /\ g.free = free
        /\ g.blkmx = k
    BY <1>1, <1>3, <1>4, <2>1, <2>2 DEF File
  <2>10. ASSUME NEW b \in Blk
         PROVE  /\ blk[b].type = "none" <=> b >= k
                /\ blk[b].type = "free" <=> b \in Elems(free)
    BY <1>3, <1>7, <2>5, <2>6, <2>7
  <2>11. ListOK(g)
    BY <2>8, <2>9, <2>10 DEF ListOK
  <2> QED  BY <1>3, <1>7, <2>5, <2>9, <2>11 DEF g, T
<1> QED  BY <1>5, <1>6

(* bmkfre of blocks that are neither free nor past the end of the file.    *)
LEMMA FreedKeeps ==
  ASSUME NEW f, f \in File, ListOK(f), NEW S \in SUBSET Blk,
         \A b \in S : f.blk[b].type \notin {"none", "free"}
  PROVE  LET g == Freed(f, S)
         IN  /\ g \in File /\ ListOK(g) /\ g.dir = f.dir
             /\ g.limit = f.limit /\ g.misc = f.misc
             /\ \A b \in Blk : g.blk[b] = IF b \in S THEN BlockOf("free", ZNULL)
                                         ELSE f.blk[b]
<1> DEFINE g == Freed(f, S)  free == SetToSeq(S) \o f.free
           block == BlockOf("free", ZNULL)
           blk == [b \in Blk |-> IF b \in S THEN block ELSE f.blk[b]]
<1>1. /\ f.free \in Seq(Blk) /\ Distinct(f.free) /\ f.blk \in [Blk -> Block]
      /\ block \in Block /\ block.type = "free"
  BY DEF File, ListOK, Block, BlockOf, Type
<1>2. /\ SetToSeq(S) \in Seq(Blk) /\ Elems(SetToSeq(S)) = S
      /\ Distinct(SetToSeq(S))
  BY OrderElems
<1>3. S \cap Elems(f.free) = {}
  BY DEF ListOK
<1>4. /\ free \in Seq(Blk) /\ Elems(free) = S \cup Elems(f.free)
      /\ Distinct(free)
  BY <1>1, <1>2, <1>3, ConcatElems
<1>5. g = [f EXCEPT !.blk = blk, !.free = free]
  BY DEF Freed
<1> HIDE DEF free, block
<1>6. /\ blk \in [Blk -> Block]
      /\ \A b \in Blk : blk[b] = IF b \in S THEN block ELSE f.blk[b]
  BY <1>1
<1> HIDE DEF g, blk
<1>7. /\ g \in File /\ g.dir = f.dir /\ g.blk = blk
      /\ g.free = free /\ g.blkmx = f.blkmx
      /\ g.limit = f.limit /\ g.misc = f.misc
  BY <1>4, <1>5, <1>6 DEF File
<1>8. ListOK(g)
  BY <1>1, <1>4, <1>6, <1>7 DEF ListOK
<1> QED  BY <1>6, <1>7, <1>8 DEF g, block

----------------------------------------------------------------------------
(* What every step of a key call or a data call on root cur keeps.         *)
KeepsRoots(f, g, cur) ==
  /\ FileInv(g) /\ g.dir = f.dir
  /\ \A b \in Blk : g.blk[b].type = "root" <=> f.blk[b].type = "root"
  /\ f.blk[cur].type = "root" /\ Live(f) => Live(g)

LEMMA NoStep ==
  ASSUME NEW f, FileInv(f), NEW cur \in Blk
  PROVE  KeepsRoots(f, f, cur)
BY DEF KeepsRoots

LEMMA TwoSteps ==
  ASSUME NEW cur \in Blk, NEW f, NEW g, KeepsRoots(f, g, cur),
         NEW h, KeepsRoots(g, h, cur)
  PROVE  KeepsRoots(f, h, cur)
BY DEF KeepsRoots

(* It is enough to look at the blocks.                                     *)
LEMMA StepKeepsRootBlocks ==
  ASSUME NEW f, FileInv(f), NEW cur \in Blk,
         NEW g \in File, ListOK(g), g.dir = f.dir,
         \A b \in Blk : g.blk[b].type = "root" <=> f.blk[b].type = "root",
         f.blk[cur].type = "root" /\ Live(f) => Live(g)
  PROVE  KeepsRoots(f, g, cur)
BY SameNames DEF FileInv, KeepsRoots

LEMMA TakeKeepsRoots ==
  ASSUME NEW f, FileInv(f), NEW cur \in Blk, NEW n \in 0 .. Room(f),
         NEW t \in {"inuse", "lost", "dup"}
  PROVE  KeepsRoots(f, Take(f, n, BlockOf(t, cur)), cur)
<1> DEFINE block == BlockOf(t, cur)  g == Take(f, n, block)  T == Taken(f, n)
<1>1. block \in Block /\ block.type = t /\ block.of = cur
  BY DEF BlockOf, Block, Type
<1> HIDE DEF block
<1>2. /\ g \in File /\ ListOK(g) /\ g.dir = f.dir
      /\ \A b \in T : f.blk[b].type \in {"none", "free"}
      /\ \A b \in Blk : g.blk[b] = IF b \in T THEN block ELSE f.blk[b]
  BY <1>1, TakeKeeps DEF FileInv
<1> HIDE DEF g, T
<1>3. \A b \in Blk : g.blk[b].type = "root" <=> f.blk[b].type = "root"
  BY <1>1, <1>2
<1>4. ASSUME f.blk[cur].type = "root", Live(f) PROVE Live(g)
  <2>1. OwnersLive(g)
    BY <1>1, <1>2, <1>3, <1>4 DEF Live, OwnersLive
  <2>2. \A r \in Blk : BlocksOf(g, r, "data") = BlocksOf(f, r, "data")
    BY <1>1, <1>2 DEF BlocksOf
  <2>3. \A r \in Blk : g.blk[r].type = "root" => g.blk[r] = f.blk[r]
    BY <1>1, <1>2
  <2>4. HeadsLead(g)
    BY <1>4, <2>2, <2>3 DEF Live, HeadsLead
  <2> QED  BY <2>1, <2>4 DEF Live
<1>5. KeepsRoots(f, g, cur)
  BY <1>2, <1>3, <1>4, StepKeepsRootBlocks
<1> QED  BY <1>5 DEF g, block

LEMMA HasKeysKeepsRoots ==
  ASSUME NEW f, FileInv(f), NEW cur \in Blk, NEW yes \in BOOLEAN
  PROVE  KeepsRoots(f, HasKeys(f, cur, yes), cur)
<1> DEFINE g == HasKeys(f, cur, yes)
           blk == [f.blk EXCEPT ![cur].keys = yes]
<1>1. f \in File /\ f.blk \in [Blk -> Block]
  BY FileFields DEF FileInv
<1>2. /\ blk \in [Blk -> Block]
      /\ \A b \in Blk : /\ blk[b].type = f.blk[b].type /\ blk[b].of = f.blk[b].of
                        /\ blk[b].head = f.blk[b].head
  BY <1>1 DEF Block
<1>3. g = [f EXCEPT !.blk = blk]
  BY <1>1 DEF HasKeys, File
<1> HIDE DEF blk, g
<1>4. /\ g \in File /\ g.dir = f.dir /\ g.free = f.free /\ g.blkmx = f.blkmx
      /\ g.blk = blk
  BY <1>1, <1>2, <1>3 DEF File
<1>5. FileInv(g)
  BY <1>2, <1>4, SameShape
<1>6. ASSUME Live(f) PROVE Live(g)
  <2>1. \A r \in Blk : BlocksOf(g, r, "data") = BlocksOf(f, r, "data")
    BY <1>2, <1>4 DEF BlocksOf
  <2> QED  BY <1>2, <1>4, <1>6, <2>1 DEF Live, OwnersLive, HeadsLead
<1>7. KeepsRoots(f, g, cur)
  BY <1>2, <1>4, <1>5, <1>6 DEF KeepsRoots
<1> QED  BY <1>7 DEF g

(* Blocks of the tree, and dup blocks, are given back.                     *)
LEMMA FreedKeepsRoots ==
  ASSUME NEW f, FileInv(f), NEW cur \in Blk, NEW S \in SUBSET Blk,
         \A b \in S : f.blk[b].type \in {"inuse", "dup"}
  PROVE  KeepsRoots(f, Freed(f, S), cur)
<1> DEFINE g == Freed(f, S)  block == BlockOf("free", ZNULL)
<1>1. /\ g \in File /\ ListOK(g) /\ g.dir = f.dir
      /\ \A b \in Blk : g.blk[b] = IF b \in S THEN block ELSE f.blk[b]
  BY FreedKeeps DEF FileInv
<1>2. block.type = "free"
  BY DEF BlockOf
<1> HIDE DEF g, block
<1>3. \A b \in Blk : g.blk[b].type = "root" <=> f.blk[b].type = "root"
  BY <1>1, <1>2
<1>4. ASSUME Live(f) PROVE Live(g)
  <2>1. OwnersLive(g)
    BY <1>1, <1>2, <1>3, <1>4 DEF Live, OwnersLive
  <2>2. \A r \in Blk : BlocksOf(g, r, "data") = BlocksOf(f, r, "data")
    BY <1>1, <1>2 DEF BlocksOf
  <2>3. \A r \in Blk : g.blk[r].type = "root" => g.blk[r] = f.blk[r]
    BY <1>1, <1>2
  <2> QED  BY <1>4, <2>1, <2>2, <2>3 DEF Live, HeadsLead
<1>5. KeepsRoots(f, g, cur)
  BY <1>1, <1>3, <1>4, StepKeepsRootBlocks
<1> QED  BY <1>5 DEF g

(* The last data block taken is the head of the list.                      *)
LEMMA LengthenedKeepsRoots ==
  ASSUME NEW f, FileInv(f), NEW cur \in Blk, NEW n \in 0 .. Room(f)
  PROVE  KeepsRoots(f, Lengthened(f, cur, n), cur)
<1> DEFINE block == BlockOf("data", cur)  g == Take(f, n, block)
           T == Taken(f, n)  h == Lengthened(f, cur, n)
<1>1. block \in Block /\ block.type = "data" /\ block.of = cur
  BY DEF BlockOf, Block, Type
<1>2. n \in Nat /\ Room(f) \in Nat /\ f \in File
  BY SupplyElems DEF FileInv
<1> HIDE DEF block
<1>3. /\ g \in File /\ ListOK(g) /\ g.dir = f.dir /\ T \subseteq Blk
      /\ \A b \in T : f.blk[b].type \in {"none", "free"}
      /\ \A b \in Blk : g.blk[b] = IF b \in T THEN block ELSE f.blk[b]
  BY <1>1, TakeKeeps DEF FileInv
<1>4. CASE n = 0
  <2>1. h = g /\ T = {}
    BY <1>4 DEF Lengthened, Taken, block
  <2> HIDE DEF g, h
  <2>2. \A b \in Blk : g.blk[b] = f.blk[b]
    BY <1>3, <2>1
  <2>3. Live(f) => Live(g)
    BY <2>2 DEF Live, OwnersLive, HeadsLead, BlocksOf
  <2>4. KeepsRoots(f, g, cur)
    BY <1>3, <2>2, <2>3, StepKeepsRootBlocks
  <2> QED  BY <2>1, <2>4 DEF h
<1>5. CASE n # 0
  <2> DEFINE x == Supply(f)[n]  blk == [g.blk EXCEPT ![cur].head = x]
  <2>1. x \in T
    BY <1>2, <1>5 DEF Taken
  <2>2. h = [g EXCEPT !.blk = blk]
    <3>1. h = [g EXCEPT !.blk[cur].head = x]
      BY <1>5 DEF Lengthened, block
    <3> HIDE DEF h, g
    <3> QED  BY <1>3, <3>1 DEF File
  <2>3. g.blk \in [Blk -> Block] /\ x \in Blk
    BY <1>3, <2>1, FileFields
  <2> HIDE DEF g, h, x, T
  <2>4. /\ blk \in [Blk -> Block]
        /\ \A b \in Blk : /\ blk[b].type = g.blk[b].type
                          /\ blk[b].of = g.blk[b].of
                          /\ blk[b].head = IF b = cur THEN x ELSE g.blk[b].head
    BY <2>3 DEF Block
  <2> HIDE DEF blk
  <2>5. /\ h \in File /\ h.dir = g.dir /\ h.free = g.free
        /\ h.blkmx = g.blkmx /\ h.blk = blk
    BY <1>3, <2>2, <2>4 DEF File
  <2>6. ListOK(h)
    BY <1>3, <2>4, <2>5 DEF ListOK
  <2>7. \A b \in Blk :
          /\ h.blk[b].type = IF b \in T THEN "data" ELSE f.blk[b].type
          /\ h.blk[b].of = IF b \in T THEN cur ELSE f.blk[b].of
          /\ b \notin T => h.blk[b].head = IF b = cur THEN x ELSE f.blk[b].head
    BY <1>1, <1>3, <2>4, <2>5
  <2>8. \A b \in Blk : h.blk[b].type = "root" <=> f.blk[b].type = "root"
    BY <1>3, <2>7
  <2>9. ASSUME f.blk[cur].type = "root", Live(f) PROVE Live(h)
    <3>1. OwnersLive(h)
      BY <2>7, <2>8, <2>9 DEF Live, OwnersLive
    <3>2. \A r \in Blk : BlocksOf(h, r, "data") =
            IF r = cur THEN BlocksOf(f, r, "data") \cup T
            ELSE BlocksOf(f, r, "data")
      BY <1>3, <2>7 DEF BlocksOf
    <3>3. \A r \in Blk : h.blk[r].type = "root" =>
            h.blk[r].head = IF r = cur THEN x ELSE f.blk[r].head
      BY <2>7
    <3>4. HeadsLead(h)
      BY <2>1, <2>8, <2>9, <3>2, <3>3 DEF Live, HeadsLead
    <3> QED  BY <3>1, <3>4 DEF Live
  <2>10. KeepsRoots(f, h, cur)
    BY <1>3, <2>5, <2>6, <2>8, <2>9, StepKeepsRootBlocks
  <2> QED  BY <2>10 DEF h
<1> QED  BY <1>4, <1>5

(* Data blocks are freed; with the head, the list is cut.                  *)
LEMMA EmptiedKeepsRoots ==
  ASSUME NEW f, FileInv(f), NEW cur \in Blk,
         NEW S \in SUBSET (BlocksOf(f, cur, "data") \cup BlocksOf(f, cur, "cut"))
  PROVE  KeepsRoots(f, Emptied(f, cur, S), cur)
<1> DEFINE g == Freed(f, S)  block == BlockOf("free", ZNULL)
           D == BlocksOf(f, cur, "data")  rest == D \ S
           h == Emptied(f, cur, S)
<1>1. /\ S \in SUBSET Blk /\ D \in SUBSET Blk
      /\ \A b \in S : f.blk[b].type \in {"data", "cut"} /\ f.blk[b].of = cur
      /\ \A b \in D : f.blk[b].type = "data" /\ f.blk[b].of = cur
  BY DEF BlocksOf
<1>2. /\ g \in File /\ ListOK(g) /\ g.dir = f.dir
      /\ \A b \in Blk : g.blk[b] = IF b \in S THEN block ELSE f.blk[b]
  BY <1>1, FreedKeeps DEF FileInv
<1>3. block.type = "free"
  BY DEF BlockOf
<1> HIDE DEF block
<1>4. CASE f.blk[cur].head \notin S
  <2>1. h = g
    BY <1>4 DEF Emptied
  <2> HIDE DEF g, h
  <2>2. \A b \in Blk : g.blk[b].type = "root" <=> f.blk[b].type = "root"
    BY <1>1, <1>2, <1>3
  <2>3. ASSUME f.blk[cur].type = "root", Live(f) PROVE Live(g)
    <3>1. OwnersLive(g)
      BY <1>2, <1>3, <2>2, <2>3 DEF Live, OwnersLive
    <3>2. \A r \in Blk : BlocksOf(g, r, "data") =
            IF r = cur THEN rest ELSE BlocksOf(f, r, "data")
      BY <1>1, <1>2, <1>3 DEF BlocksOf
    <3>3. \A r \in Blk : g.blk[r].type = "root" => g.blk[r] = f.blk[r]
      BY <1>2, <1>3
    <3>4. \/ D = {} /\ f.blk[cur].head = ZNULL
          \/ f.blk[cur].head \in rest
      BY <1>4, <2>3 DEF Live, HeadsLead
    <3>5. HeadsLead(g)
      <4> SUFFICES ASSUME NEW r \in Blk, g.blk[r].type = "root"
                   PROVE  IF BlocksOf(g, r, "data") = {} THEN g.blk[r].head = ZNULL
                          ELSE g.blk[r].head \in BlocksOf(g, r, "data")
        BY DEF HeadsLead
      <4>1. CASE r = cur
        BY <3>2, <3>3, <3>4, <4>1
      <4>2. CASE r # cur
        BY <2>2, <2>3, <3>2, <3>3, <4>2 DEF Live, HeadsLead
      <4> QED  BY <4>1, <4>2
    <3> QED  BY <3>1, <3>5 DEF Live
  <2>4. KeepsRoots(f, g, cur)
    BY <1>2, <2>2, <2>3, StepKeepsRootBlocks
  <2> QED  BY <2>1, <2>4 DEF h
<1>5. CASE f.blk[cur].head \in S
  <2> DEFINE cut == BlockOf("cut", cur)
             blk == [b \in Blk |-> IF b \in rest THEN cut
                                  ELSE IF b = cur THEN [g.blk[b] EXCEPT !.head = ZNULL]
                                  ELSE g.blk[b]]
  <2>1. h = [g EXCEPT !.blk = blk]
    BY <1>5 DEF Emptied
  <2>2. cut \in Block /\ cut.type = "cut" /\ cut.of = cur
    BY DEF BlockOf, Block, Type
  <2> HIDE DEF cut
  <2>3. g.blk \in [Blk -> Block]
    BY <1>2, FileFields
  <2> HIDE DEF g, h
  <2>4. /\ blk \in [Blk -> Block]
        /\ \A b \in Blk :
             /\ blk[b].type = IF b \in rest THEN "cut" ELSE g.blk[b].type
             /\ blk[b].of = IF b \in rest THEN cur ELSE g.blk[b].of
             /\ b \notin rest =>
                  blk[b].head = IF b = cur THEN ZNULL ELSE g.blk[b].head
    <3>1. \A b \in Blk : [g.blk[b] EXCEPT !.head = ZNULL] \in Block
      BY <2>3 DEF Block
    <3>2. blk \in [Blk -> Block]
      BY <2>2, <2>3, <3>1
    <3>3. ASSUME NEW b \in Blk
          PROVE  /\ [g.blk[b] EXCEPT !.head = ZNULL].type = g.blk[b].type
                 /\ [g.blk[b] EXCEPT !.head = ZNULL].of = g.blk[b].of
                 /\ [g.blk[b] EXCEPT !.head = ZNULL].head = ZNULL
      BY <2>3 DEF Block
    <3> QED  BY <2>2, <3>2, <3>3
  <2> HIDE DEF blk
  <2>5. /\ h \in File /\ h.dir = g.dir /\ h.free = g.free
        /\ h.blkmx = g.blkmx /\ h.blk = blk
    BY <1>2, <2>1, <2>4 DEF File
  <2>6. \A b \in rest : g.blk[b] = f.blk[b] /\ f.blk[b].type = "data"
    BY <1>1, <1>2
  <2>7. ListOK(h)
    BY <1>1, <1>2, <2>4, <2>5, <2>6 DEF ListOK
  <2>8. \A b \in Blk : h.blk[b].type = "root" <=> f.blk[b].type = "root"
    BY <1>1, <1>2, <1>3, <2>4, <2>5, <2>6
  <2>9. ASSUME f.blk[cur].type = "root", Live(f) PROVE Live(h)
    <3>1. OwnersLive(h)
      <4> SUFFICES ASSUME NEW b \in Blk
                   PROVE  /\ h.blk[b].type \in {"inuse", "data"} =>
                               h.blk[b].of \in Blk /\ h.blk[h.blk[b].of].type = "root"
                          /\ h.blk[b].type \in {"cut", "dup", "lost"} =>
                               \/ h.blk[b].of \in {ZSUPER, ZNULL}
                               \/ h.blk[b].of \in Blk /\ h.blk[h.blk[b].of].type = "root"
        BY DEF OwnersLive
      <4>1. CASE b \in rest
        BY <2>4, <2>5, <2>8, <2>9, <4>1
      <4>2. CASE b \in S
        BY <1>2, <1>3, <2>4, <2>5, <4>2
      <4>3. CASE b \notin rest /\ b \notin S
        <5>1. h.blk[b].type = f.blk[b].type /\ h.blk[b].of = f.blk[b].of
          BY <1>2, <2>4, <2>5, <4>3
        <5> QED  BY <2>8, <2>9, <5>1 DEF Live, OwnersLive
      <4> QED  BY <4>1, <4>2, <4>3
    <3>2. \A r \in Blk : BlocksOf(h, r, "data") =
            IF r = cur THEN {} ELSE BlocksOf(f, r, "data")
      <4> SUFFICES ASSUME NEW r \in Blk, NEW b \in Blk
                   PROVE  h.blk[b].type = "data" /\ h.blk[b].of = r
                            <=> r # cur /\ f.blk[b].type = "data" /\ f.blk[b].of = r
        BY DEF BlocksOf
      <4>1. CASE b \in rest
        BY <1>1, <2>4, <2>5, <4>1
      <4>2. CASE b \in S
        BY <1>1, <1>2, <1>3, <2>4, <2>5, <4>2
      <4>3. CASE b \notin rest /\ b \notin S
        <5>1. h.blk[b].type = f.blk[b].type /\ h.blk[b].of = f.blk[b].of
          BY <1>2, <2>4, <2>5, <4>3
        <5>2. ~(f.blk[b].type = "data" /\ f.blk[b].of = cur)
          BY <4>3 DEF BlocksOf
        <5> QED  BY <5>1, <5>2
      <4> QED  BY <4>1, <4>2, <4>3
    <3>3. \A r \in Blk : h.blk[r].type = "root" =>
            h.blk[r].head = IF r = cur THEN ZNULL ELSE f.blk[r].head
      BY <1>2, <1>3, <2>4, <2>5
    <3>4. HeadsLead(h)
      BY <2>8, <2>9, <3>2, <3>3 DEF Live, HeadsLead
    <3> QED  BY <3>1, <3>4 DEF Live
  <2>10. KeepsRoots(f, h, cur)
    BY <1>2, <2>5, <2>7, <2>8, <2>9, StepKeepsRootBlocks
  <2> QED  BY <2>10 DEF h
<1> QED  BY <1>4, <1>5

----------------------------------------------------------------------------
(* The key calls and the data calls, step by step.                         *)
LEMMA FoundKeeps ==
  ASSUME NEW f, FileInv(f), NEW cur \in Blk,
         NEW g \in Found(f, cur) \cup Stuck(f, cur)
  PROVE  KeepsRoots(f, g, cur)
<1>1. Room(f) \in Nat
  BY SupplyElems DEF FileInv
<1>2. CASE g = f
  BY <1>2, NoStep
<1>3. ASSUME NEW n \in 1 .. Room(f), g = Take(f, n, BlockOf("inuse", cur))
      PROVE  KeepsRoots(f, g, cur)
  <2>1. n \in 0 .. Room(f)
    OBVIOUS
  <2> QED  BY <1>3, <2>1, TakeKeepsRoots
<1>4. ASSUME NEW t \in {"inuse", "lost"}, g = Take(f, Room(f), BlockOf(t, cur))
      PROVE  KeepsRoots(f, g, cur)
  <2>1. Room(f) \in 0 .. Room(f)
    BY <1>1
  <2> QED  BY <1>4, <2>1, TakeKeepsRoots
<1>5. g \in Found(f, cur) =>
        g = f \/ \E n \in 1 .. Room(f) : g = Take(f, n, BlockOf("inuse", cur))
  BY DEF Found
<1>6. g \in Stuck(f, cur) =>
        \E t \in {"inuse", "lost"} : g = Take(f, Room(f), BlockOf(t, cur))
  BY DEF Stuck
<1> QED  BY <1>2, <1>3, <1>4, <1>5, <1>6

(* Up to two dup blocks are taken.                                         *)
LEMMA ChainKeeps ==
  ASSUME NEW f, FileInv(f), NEW cur \in Blk, NEW n \in {0, 1, 2}, n <= Room(f)
  PROVE  KeepsRoots(f, Take(f, n, BlockOf("dup", cur)), cur)
<1>1. n \in 0 .. Room(f)
  BY SupplyElems DEF FileInv
<1> QED  BY <1>1, TakeKeepsRoots

LEMMA PutKeeps ==
  ASSUME NEW f, FileInv(f), NEW cur \in Blk, NEW h \in Put(f, cur)
  PROVE  KeepsRoots(f, h, cur)
<1>1. PICK g \in Found(f, cur) :
        \/ h = HasKeys(g, cur, TRUE)
        \/ \E n \in {i \in 0 .. 2 : i <= Room(g)} :
             h = Take(g, n, BlockOf("dup", cur))
  BY DEF Put
<1>2. KeepsRoots(f, g, cur) /\ FileInv(g)
  BY FoundKeeps DEF KeepsRoots
<1>3. \A n \in {i \in 0 .. 2 : i <= Room(g)} : n \in {0, 1, 2} /\ n <= Room(g)
  OBVIOUS
<1>4. KeepsRoots(g, h, cur)
  BY <1>1, <1>2, <1>3, HasKeysKeepsRoots, ChainKeeps
<1> QED  BY <1>2, <1>4, TwoSteps

LEMMA RefusedKeeps ==
  ASSUME NEW f, FileInv(f), NEW cur \in Blk, NEW h \in Refused(f, cur)
  PROVE  KeepsRoots(f, h, cur)
<1>1. CASE h \in Stuck(f, cur)
  BY <1>1, FoundKeeps
<1>2. CASE h \notin Stuck(f, cur)
  <2>1. PICK g \in Found(f, cur) :
          \/ h = g
          \/ \E n \in {i \in 0 .. 1 : i = Room(g)} :
               h = Take(g, n, BlockOf("dup", cur))
    BY <1>2 DEF Refused
  <2>2. KeepsRoots(f, g, cur) /\ FileInv(g)
    BY FoundKeeps DEF KeepsRoots
  <2>3. \A n \in {i \in 0 .. 1 : i = Room(g)} : n \in {0, 1, 2} /\ n <= Room(g)
    OBVIOUS
  <2>4. KeepsRoots(g, h, cur)
    BY <2>1, <2>2, <2>3, NoStep, ChainKeeps
  <2> QED  BY <2>2, <2>4, TwoSteps
<1> QED  BY <1>1, <1>2

LEMMA EntryGoneKeeps ==
  ASSUME NEW f, FileInv(f), NEW cur \in Blk, NEW g \in EntryGone(f)
  PROVE  KeepsRoots(f, g, cur)
<1>1. CASE g = f
  BY <1>1, NoStep
<1>2. ASSUME NEW b \in Blk, f.blk[b].type = "dup", g = Freed(f, {b})
      PROVE  KeepsRoots(f, g, cur)
  <2>1. {b} \in SUBSET Blk /\ \A x \in {b} : f.blk[x].type \in {"inuse", "dup"}
    BY <1>2
  <2> QED  BY <1>2, <2>1, FreedKeepsRoots
<1> QED  BY <1>1, <1>2 DEF EntryGone

LEMMA KeyGoneKeeps ==
  ASSUME NEW f, FileInv(f), NEW cur \in Blk, NEW h \in KeyGone(f, cur)
  PROVE  KeepsRoots(f, h, cur)
<1>1. PICK S \in SUBSET Tree(f, cur), k \in BOOLEAN :
        h = HasKeys(Freed(f, S), cur, k)
  BY DEF KeyGone
<1>2. S \in SUBSET Blk /\ \A b \in S : f.blk[b].type \in {"inuse", "dup"}
  BY DEF Tree, BlocksOf
<1>3. KeepsRoots(f, Freed(f, S), cur) /\ FileInv(Freed(f, S))
  BY <1>2, FreedKeepsRoots DEF KeepsRoots
<1>4. KeepsRoots(Freed(f, S), h, cur)
  BY <1>1, <1>3, HasKeysKeepsRoots
<1> QED  BY <1>3, <1>4, TwoSteps

LEMMA GoneKeeps ==
  ASSUME NEW f, FileInv(f), NEW cur \in Blk, NEW shares \in BOOLEAN,
         NEW h \in Gone(f, cur, shares)
  PROVE  KeepsRoots(f, h, cur)
<1>1. ASSUME NEW e \in EntryGone(f), NEW g \in KeyGone(e, cur)
      PROVE  KeepsRoots(f, g, cur) /\ FileInv(g)
  <2>1. KeepsRoots(f, e, cur) /\ FileInv(e)
    BY EntryGoneKeeps DEF KeepsRoots
  <2>2. KeepsRoots(e, g, cur) /\ FileInv(g)
    BY <2>1, KeyGoneKeeps DEF KeepsRoots
  <2> QED  BY <2>1, <2>2, TwoSteps
<1>2. CASE h \in EntryGone(f)
  BY <1>2, EntryGoneKeeps
<1>3. CASE h \notin EntryGone(f)
  <2>1. PICK g \in UNION {KeyGone(e, cur) : e \in EntryGone(f)} :
          h = g \/ h \in Found(g, cur) \cup Stuck(g, cur)
    BY <1>3 DEF Gone
  <2>2. KeepsRoots(f, g, cur) /\ FileInv(g)
    BY <1>1
  <2>3. KeepsRoots(g, h, cur)
    BY <2>1, <2>2, NoStep, FoundKeeps
  <2> QED  BY <2>2, <2>3, TwoSteps
<1> QED  BY <1>2, <1>3

LEMMA RemovedKeeps ==
  ASSUME NEW f, FileInv(f), NEW cur \in Blk, NEW shares \in BOOLEAN,
         NEW h \in Removed(f, cur, shares)
  PROVE  KeepsRoots(f, h, cur)
<1>1. CASE h \in Found(f, cur) \cup Stuck(f, cur)
  BY <1>1, FoundKeeps
<1>2. ASSUME NEW g \in Found(f, cur), h \in Gone(g, cur, shares)
      PROVE  KeepsRoots(f, h, cur)
  <2>1. KeepsRoots(f, g, cur) /\ FileInv(g)
    BY FoundKeeps DEF KeepsRoots
  <2>2. KeepsRoots(g, h, cur)
    BY <1>2, <2>1, GoneKeeps
  <2> QED  BY <2>1, <2>2, TwoSteps
<1> QED  BY <1>1, <1>2 DEF Removed

LEMMA StoredKeeps ==
  ASSUME NEW f, FileInv(f), NEW cur \in Blk,
         NEW g \in Stored(f, cur) \cup NotStored(f, cur)
  PROVE  KeepsRoots(f, g, cur)
<1>1. Room(f) \in Nat
  BY SupplyElems DEF FileInv
<1>2. PICK n \in 0 .. Room(f) : g = Lengthened(f, cur, n)
  <2>1. CASE g \in Stored(f, cur)
    <3>1. PICK n \in (IF f.blk[cur].head = ZNULL THEN 1 ELSE 0) .. Room(f) :
            g = Lengthened(f, cur, n)
      BY <2>1 DEF Stored
    <3>2. n \in 0 .. Room(f)
      BY <1>1
    <3> QED  BY <3>1, <3>2
  <2>2. CASE g \in NotStored(f, cur)
    BY <1>1, <2>2 DEF NotStored
  <2> QED  BY <2>1, <2>2
<1> QED  BY <1>2, LengthenedKeepsRoots

LEMMA ShortenedKeeps ==
  ASSUME NEW f, FileInv(f), NEW cur \in Blk, NEW g \in Shortened(f, cur)
  PROVE  KeepsRoots(f, g, cur)
BY EmptiedKeepsRoots DEF Shortened

LEMMA InsertedKeeps ==
  ASSUME NEW f, FileInv(f), NEW cur \in Blk, NEW h \in Inserted(f, cur)
  PROVE  KeepsRoots(f, h, cur)
<1>1. CASE h \in NotStored(f, cur)
  BY <1>1, StoredKeeps
<1>2. ASSUME NEW g \in Stored(f, cur),
             h \in Put(g, cur) \cup UNION {Shortened(e, cur) : e \in Refused(g, cur)}
      PROVE  KeepsRoots(f, h, cur)
  <2>1. KeepsRoots(f, g, cur) /\ FileInv(g)
    BY StoredKeeps DEF KeepsRoots
  <2>2. ASSUME NEW e \in Refused(g, cur), h \in Shortened(e, cur)
        PROVE  KeepsRoots(g, h, cur)
    <3>1. KeepsRoots(g, e, cur) /\ FileInv(e)
      BY <2>1, RefusedKeeps DEF KeepsRoots
    <3>2. KeepsRoots(e, h, cur)
      BY <2>2, <3>1, ShortenedKeeps
    <3> QED  BY <3>1, <3>2, TwoSteps
  <2>3. KeepsRoots(g, h, cur)
    BY <1>2, <2>1, <2>2, PutKeeps
  <2> QED  BY <2>1, <2>3, TwoSteps
<1> QED  BY <1>1, <1>2 DEF Inserted

LEMMA UpdatedKeeps ==
  ASSUME NEW f, FileInv(f), NEW cur \in Blk, NEW h \in Updated(f, cur)
  PROVE  KeepsRoots(f, h, cur)
<1>1. CASE h \in Found(f, cur) \cup Stuck(f, cur)
  BY <1>1, FoundKeeps
<1>2. ASSUME NEW g \in Found(f, cur),
             h \in Stored(g, cur) \cup NotStored(g, cur) \cup Shortened(g, cur)
      PROVE  KeepsRoots(f, h, cur)
  <2>1. KeepsRoots(f, g, cur) /\ FileInv(g)
    BY FoundKeeps DEF KeepsRoots
  <2>2. KeepsRoots(g, h, cur)
    BY <1>2, <2>1, StoredKeeps, ShortenedKeeps
  <2> QED  BY <2>1, <2>2, TwoSteps
<1> QED  BY <1>1, <1>2 DEF Updated

LEMMA RecordGoneKeeps ==
  ASSUME NEW f, FileInv(f), NEW cur \in Blk, NEW shares \in BOOLEAN,
         NEW h \in RecordGone(f, cur, shares)
  PROVE  KeepsRoots(f, h, cur)
<1>1. PICK g \in Found(f, cur) :
        \E e \in Shortened(g, cur) : h \in Gone(e, cur, shares)
  BY DEF RecordGone
<1>2. KeepsRoots(f, g, cur) /\ FileInv(g)
  BY FoundKeeps DEF KeepsRoots
<1>3. PICK e \in Shortened(g, cur) : h \in Gone(e, cur, shares)
  BY <1>1
<1>4. KeepsRoots(g, e, cur) /\ FileInv(e)
  BY <1>2, ShortenedKeeps DEF KeepsRoots
<1>5. KeepsRoots(e, h, cur)
  BY <1>3, <1>4, GoneKeeps
<1> QED  BY <1>2, <1>4, <1>5, TwoSteps

----------------------------------------------------------------------------
(* What is asked of the outcome r of call c on file f with root cur.       *)
Sound(f, c, cur, r) ==
  /\ FileInv(r.file) /\ r.root \in Blk /\ r.moved \in BOOLEAN
  /\ (Live(f) /\ (c.op \in KeyCalls => f.blk[cur].type = "root"))
       => Live(r.file)
  /\ ~r.moved => r.root = cur
  /\ r.moved => c.name \in Name /\ r.file.dir[c.name] = <<r.root>>
  /\ \A n \in Name, b \in Blk :
       f.dir[n] = <<b>> => \/ r.file.dir[n] = <<b>>
                           \/ b # cur /\ Deletes(f, r.file, b)

(* A call that leaves the root where it is.                                *)
LEMMA StaysSound ==
  ASSUME NEW f, FileInv(f), NEW c, NEW cur \in Blk,
         NEW r, r \in {Leaves(f, cur), Holds(f, cur)}
  PROVE  Sound(f, c, cur, r)
<1>1. r.file = f /\ r.root = cur /\ r.moved = FALSE
  BY DEF Leaves, Holds
<1> QED  BY <1>1 DEF Sound

LEMMA KeepsSound ==
  ASSUME NEW f, FileInv(f), NEW c, c.op \in KeyCalls, NEW cur \in Blk,
         NEW g, KeepsRoots(f, g, cur), NEW r, r \in {Leaves(g, cur), Holds(g, cur)}
  PROVE  Sound(f, c, cur, r)
<1>1. r.file = g /\ r.root = cur /\ r.moved = FALSE
  BY DEF Leaves, Holds
<1> QED  BY <1>1 DEF Sound, KeepsRoots

LEMMA ChangedSound ==
  ASSUME NEW f, FileInv(f), NEW c, NEW cur \in Blk, c.name \in Name,
         NEW r \in Changed(f, cur, c.name)
  PROVE  Sound(f, c, cur, r)
<1>1. CASE f.dir[c.name] = <<>>
  BY <1>1, StaysSound DEF Changed
<1>2. CASE f.dir[c.name] # <<>>
  <2>1. PICK b \in Blk : f.dir[c.name] = <<b>>
    BY <1>2 DEF FileInv, NamesOK
  <2>2. f.dir[c.name][1] = b
    BY <2>1
  <2>3. r = MovesTo(f, b)
    BY <1>2, <2>2 DEF Changed
  <2>4. r.file = f /\ r.root = b /\ r.moved = TRUE
    BY <2>3 DEF MovesTo, Leaves
  <2> QED  BY <2>1, <2>4 DEF Sound
<1> QED  BY <1>1, <1>2

(* btcrtr with a new name, or with a name that is refused.                 *)
LEMMA CreatedSound ==
  ASSUME NEW f, FileInv(f), NEW c, c.op = "btcrtr", c.name \in Name,
         f.dir[c.name] = <<>> \/ f.misc = 0,
         NEW cur \in Blk, NEW r \in Created(f, cur, c.name)
  PROVE  Sound(f, c, cur, r)
<1> DEFINE n == c.name  g == [f EXCEPT !.dir[n] = <<ZNULL>>]
           b == Supply(f)[1]  block == BlockOf("root", b)
<1>1. /\ f \in File /\ ListOK(f) /\ f.blk \in [Blk -> Block]
      /\ f.dir \in [Name -> Seq(Blk \cup {ZNULL})]
  BY FileFields DEF FileInv
<1>2. Supply(g) = Supply(f) /\ Room(g) = Room(f)
  BY <1>1 DEF Supply, Room, File
<1>3. \/ r = Leaves(f, cur)
      \/ /\ f.dir[n] = <<>> /\ Room(f) > 0
         /\ r = MovesTo([Take(g, 1, block) EXCEPT !.dir[n][1] = b], b)
  <2>1. NameInserted(f, n) \subseteq {g} /\ (f.dir[n] # <<>> => NameInserted(f, n) = {})
    BY DEF NameInserted
  <2>2. CASE r = Leaves(f, cur)
    BY <2>2
  <2>3. CASE r # Leaves(f, cur)
    <3>1. PICK h \in NameInserted(f, n) :
            /\ Room(h) > 0
            /\ r = MovesTo([Take(h, 1, BlockOf("root", Supply(h)[1]))
                             EXCEPT !.dir[n][1] = Supply(h)[1]], Supply(h)[1])
      BY <2>3 DEF Created
    <3>2. h = g /\ f.dir[n] = <<>>
      BY <2>1
    <3> HIDE DEF g
    <3> QED  BY <1>2, <3>1, <3>2
  <2> QED  BY <2>2, <2>3
<1>4. CASE r = Leaves(f, cur)
  BY <1>4, StaysSound
<1>5. ASSUME f.dir[n] = <<>>, Room(f) > 0,
             r = MovesTo([Take(g, 1, block) EXCEPT !.dir[n][1] = b], b)
      PROVE  Sound(f, c, cur, r)
  <2> DEFINE h == Take(f, 1, block)  dir == [f.dir EXCEPT ![n] = <<b>>]
             k == [h EXCEPT !.dir = dir]
  <2>1. 1 \in 0 .. Room(f) /\ Taken(f, 1) = {b}
    <3>1. Room(f) \in Nat
      BY <1>1, SupplyElems
    <3>2. 1 .. 1 = {1}
      OBVIOUS
    <3> QED  BY <1>5, <3>1, <3>2 DEF Taken
  <2>2. b \in Blk
    <3> DEFINE some == BlockOf("inuse", ZNULL)
    <3>1. some \in Block /\ some.type \notin {"none", "free"}
      BY DEF BlockOf, Block, Type
    <3>2. Taken(f, 1) \subseteq Blk
      BY <1>1, <2>1, <3>1, TakeKeeps
    <3> QED  BY <2>1, <3>2
  <2>3. [Take(g, 1, block) EXCEPT !.dir[n][1] = b] = k
    <3>1. [<<ZNULL>> EXCEPT ![1] = b] = <<b>>
      OBVIOUS
    <3> DEFINE blk == [x \in Blk |-> IF \E i \in 1 .. 1 : Supply(f)[i] = x
                                     THEN block ELSE f.blk[x]]
               free == SubSeq(f.free, 2, Len(f.free))
               blkmx == IF 1 > Len(f.free) THEN f.blkmx + 1 - Len(f.free)
                        ELSE f.blkmx
               news == [f.dir EXCEPT ![n] = <<ZNULL>>]
               t == Take(g, 1, block)
    <3>2. h = [f EXCEPT !.blk = blk, !.free = free, !.blkmx = blkmx]
      BY DEF Take
    <3>3. /\ g.blk = f.blk /\ g.free = f.free /\ g.blkmx = f.blkmx
          /\ g = [f EXCEPT !.dir = news]
      BY <1>1 DEF File
    <3>4. t = [g EXCEPT !.blk = blk, !.free = free, !.blkmx = blkmx]
      <4>1. t = [g EXCEPT !.blk = [x \in Blk |->
                            IF \E i \in 1 .. 1 : Supply(g)[i] = x
                            THEN block ELSE g.blk[x]],
                          !.free = SubSeq(g.free, 2, Len(g.free)),
                          !.blkmx = IF 1 > Len(g.free)
                                    THEN g.blkmx + 1 - Len(g.free) ELSE g.blkmx]
        BY DEF Take
      <4> HIDE DEF g
      <4> QED  BY <1>2, <3>3, <4>1
    <3> HIDE DEF blk, free, blkmx, h, g, t
    <3>5. /\ news \in [Name -> Seq(Blk \cup {ZNULL})]
          /\ [news EXCEPT ![n][1] = b] = dir
      <4>1. <<ZNULL>> \in Seq(Blk \cup {ZNULL})
        OBVIOUS
      <4>2. news[n] = <<ZNULL>>
        BY <1>1
      <4>3. [news EXCEPT ![n][1] = b] = [news EXCEPT ![n] = <<b>>]
        BY <3>1, <4>2
      <4> QED  BY <1>1, <4>1, <4>3
    <3>6. t.dir = news /\ [t EXCEPT !.dir = dir] = [h EXCEPT !.dir = dir]
      BY <1>1, <3>2, <3>3, <3>4 DEF File
    <3>7. [t EXCEPT !.dir[n][1] = b] = [t EXCEPT !.dir = dir]
      <4> HIDE DEF news, dir
      <4> QED  BY <3>5, <3>6
    <3> QED  BY <3>6, <3>7 DEF t
  <2> HIDE DEF g, b
  <2>4. block \in Block /\ block.type = "root"
    BY <2>2 DEF BlockOf, Block, Type
  <2>5. block.head = ZNULL
    BY DEF BlockOf
  <2> HIDE DEF block
  <2>6. /\ h \in File /\ ListOK(h) /\ h.dir = f.dir
        /\ f.blk[b].type \in {"none", "free"}
        /\ \A x \in Blk : h.blk[x] = IF x = b THEN block ELSE f.blk[x]
    BY <1>1, <2>1, <2>4, TakeKeeps
  <2>7. r.file = k /\ r.root = b /\ r.moved = TRUE
    BY <1>5, <2>3 DEF MovesTo, Leaves
  <2> HIDE DEF h
  <2>8. /\ dir \in [Name -> Seq(Blk \cup {ZNULL})]
        /\ \A m \in Name : dir[m] = IF m = n THEN <<b>> ELSE f.dir[m]
    BY <1>1, <2>2
  <2>9. /\ k \in File /\ k.dir = dir /\ k.blk = h.blk /\ k.free = h.free
        /\ k.blkmx = h.blkmx
    BY <2>6, <2>8 DEF File
  <2> HIDE DEF k, dir
  <2>10. ListOK(k)
    BY <2>6, <2>9 DEF ListOK
  <2>11. \A x \in Blk : k.blk[x] = IF x = b THEN block ELSE f.blk[x]
    BY <2>6, <2>9
  <2>12. \A x \in Blk : <<x>> # <<>> /\ (\A y \in Blk : <<x>> = <<y>> => x = y)
    OBVIOUS
  <2>13. \A m \in Name : f.dir[m] # <<b>>
    <3> SUFFICES ASSUME NEW m \in Name, f.dir[m] = <<b>> PROVE FALSE
      OBVIOUS
    <3>1. PICK x \in Blk : f.dir[m] = <<x>> /\ f.blk[x].type = "root"
      BY <2>2, <2>12 DEF FileInv, NamesOK
    <3> QED  BY <2>2, <2>6, <2>12, <3>1
  <2>14. NamesOK(k)
    <3>1. ASSUME NEW m \in Name, k.dir[m] # <<>>
          PROVE  \E x \in Blk : k.dir[m] = <<x>> /\ k.blk[x].type = "root"
      BY <2>2, <2>4, <2>8, <2>9, <2>11, <3>1 DEF FileInv, NamesOK
    <3>2. ASSUME NEW m \in Name, NEW l \in Name, k.dir[m] # <<>>,
                 k.dir[m] = k.dir[l]
          PROVE  m = l
      BY <2>8, <2>9, <2>13, <3>2 DEF FileInv, NamesOK
    <3>3. ASSUME NEW x \in Blk, k.blk[x].type = "root"
          PROVE  \E m \in Name : k.dir[m] = <<x>>
      <4>1. CASE x = b
        BY <2>8, <2>9, <4>1
      <4>2. CASE x # b
        <5>1. PICK m \in Name : f.dir[m] = <<x>>
          BY <2>11, <3>3, <4>2 DEF FileInv, NamesOK
        <5>2. m # n
          BY <1>5, <2>12, <5>1
        <5> QED  BY <2>8, <2>9, <5>1, <5>2
      <4> QED  BY <4>1, <4>2
    <3> QED  BY <3>1, <3>2, <3>3 DEF NamesOK
  <2>15. ASSUME Live(f) PROVE Live(k)
    <3>1. \A x \in Blk : f.blk[x].type = "root" => k.blk[x].type = "root"
      BY <2>4, <2>11
    <3>2. OwnersLive(k)
      BY <2>2, <2>4, <2>11, <2>15, <3>1 DEF Live, OwnersLive
    <3>3. \A x \in Blk : BlocksOf(k, x, "data") = BlocksOf(f, x, "data")
      BY <2>4, <2>6, <2>11 DEF BlocksOf
    <3>4. BlocksOf(f, b, "data") = {}
      <4> SUFFICES ASSUME NEW x \in Blk, f.blk[x].type = "data", f.blk[x].of = b
                   PROVE  FALSE
        BY DEF BlocksOf
      <4> QED  BY <2>6, <2>15 DEF Live, OwnersLive
    <3>5. HeadsLead(k)
      BY <2>4, <2>5, <2>11, <2>15, <3>3, <3>4 DEF Live, HeadsLead
    <3> QED  BY <3>2, <3>5 DEF Live
  <2>16. \A m \in Name, x \in Blk : f.dir[m] = <<x>> => k.dir[m] = <<x>>
    BY <1>5, <2>8, <2>9, <2>12
  <2>17. FileInv(k)
    BY <2>9, <2>10, <2>14 DEF FileInv
  <2>18. k.dir[n] = <<b>>
    BY <2>8, <2>9
  <2> QED  BY <2>2, <2>7, <2>15, <2>16, <2>17, <2>18 DEF Sound
<1> QED  BY <1>3, <1>4, <1>5

(* btdelr frees what it reaches of root d; the name is gone already.       *)
LEMMA RootFreedKeeps ==
  ASSUME NEW f, f \in File, ListOK(f), NEW d \in Blk, f.blk[d].type = "root"
  PROVE  LET k == RootFreed(f, d)
         IN  /\ k \in File /\ ListOK(k) /\ k.dir = f.dir
             /\ \A b \in Blk :
                  /\ b \in Returned(f, d) => k.blk[b].type = "free"
                  /\ b \notin Returned(f, d) =>
                       /\ k.blk[b].type = f.blk[b].type
                       /\ k.blk[b].head = f.blk[b].head
                       /\ k.blk[b].of = IF f.blk[b].of = d THEN ZNULL
                                        ELSE f.blk[b].of
<1> DEFINE S == Returned(f, d)  g == Freed(f, S)  free == BlockOf("free", ZNULL)
           k == RootFreed(f, d)
           blk == [b \in Blk |-> IF g.blk[b].of = d
                                 THEN [g.blk[b] EXCEPT !.of = ZNULL] ELSE g.blk[b]]
<1>1. S \in SUBSET Blk /\ \A b \in S : f.blk[b].type \in {"data", "inuse", "root"}
  BY DEF Returned, Tree, BlocksOf
<1>2. k = [g EXCEPT !.blk = blk]
  BY DEF RootFreed
<1> HIDE DEF S
<1>3. /\ g \in File /\ ListOK(g) /\ g.dir = f.dir
      /\ \A b \in Blk : g.blk[b] = IF b \in S THEN free ELSE f.blk[b]
  BY <1>1, FreedKeeps
<1>4. free.type = "free"
  BY DEF BlockOf
<1>5. g.blk \in [Blk -> Block]
  BY <1>3, FileFields
<1> HIDE DEF g, k, free
<1>6. ASSUME NEW b \in Blk
      PROVE  LET e == [g.blk[b] EXCEPT !.of = ZNULL]
             IN  /\ e \in Block /\ e.type = g.blk[b].type
                 /\ e.head = g.blk[b].head /\ e.of = ZNULL
  BY <1>5 DEF Block
<1>7. /\ blk \in [Blk -> Block]
      /\ \A b \in Blk :
           /\ blk[b].type = g.blk[b].type /\ blk[b].head = g.blk[b].head
           /\ blk[b].of = IF g.blk[b].of = d THEN ZNULL ELSE g.blk[b].of
  BY <1>5, <1>6
<1> HIDE DEF blk
<1>8. /\ k \in File /\ k.dir = g.dir /\ k.free = g.free
      /\ k.blkmx = g.blkmx /\ k.blk = blk
  BY <1>2, <1>3, <1>7 DEF File
<1>9. ListOK(k)
  BY <1>3, <1>7, <1>8 DEF ListOK
<1> QED  BY <1>3, <1>4, <1>7, <1>8, <1>9 DEF k, S

LEMMA DeletedSound ==
  ASSUME NEW f, FileInv(f), NEW c, c.op = "btdelr", c.name \in Name,
         NEW cur \in Blk, NEW r \in Deleted(f, cur, c.name)
  PROVE  Sound(f, c, cur, r)
<1> DEFINE n == c.name
<1>1. CASE f.dir[n] = <<>> \/ f.dir[n][1] = cur
  BY <1>1, StaysSound DEF Deleted
<1>2. ASSUME f.dir[n] # <<>>, f.dir[n][1] # cur
      PROVE  Sound(f, c, cur, r)
  <2>1. PICK d \in Blk : f.dir[n] = <<d>> /\ f.blk[d].type = "root"
    BY <1>2 DEF FileInv, NamesOK
  <2>2. f.dir[n][1] = d /\ d # cur /\ Tail(f.dir[n]) = <<>>
    BY <1>2, <2>1
  <2>3. PICK h : /\ h = f \/ \E b \in BlocksOf(f, ZSUPER, "dup") : h = Freed(f, {b})
                 /\ r = Leaves(RootFreed([h EXCEPT !.dir[n] = Tail(@)], d), cur)
    BY <1>2, <2>2 DEF Deleted, NameGone
  <2>4. KeepsRoots(f, h, cur)
    <3>1. ASSUME NEW b \in BlocksOf(f, ZSUPER, "dup"), h = Freed(f, {b})
          PROVE  KeepsRoots(f, h, cur)
      <4>1. {b} \in SUBSET Blk /\ \A x \in {b} : f.blk[x].type \in {"inuse", "dup"}
        BY DEF BlocksOf
      <4> QED  BY <3>1, <4>1, FreedKeepsRoots
    <3> QED  BY <2>3, <3>1, NoStep
  <2>5. Live(f) => Live(h)
    <3>1. CASE h = f
      BY <3>1
    <3>2. ASSUME NEW b \in BlocksOf(f, ZSUPER, "dup"), h = Freed(f, {b})
          PROVE  Live(f) => Live(h)
      <4>1. {b} \in SUBSET Blk /\ \A x \in {b} : f.blk[x].type \in {"inuse", "dup"}
        BY DEF BlocksOf
      <4>2. KeepsRoots(f, h, d)
        BY <3>2, <4>1, FreedKeepsRoots
      <4> QED  BY <2>1, <4>2 DEF KeepsRoots
    <3> QED  BY <2>3, <3>1, <3>2
  <2>6. /\ FileInv(h) /\ h \in File /\ ListOK(h) /\ h.dir = f.dir
        /\ f.dir \in [Name -> Seq(Blk \cup {ZNULL})]
        /\ \A b \in Blk : h.blk[b].type = "root" <=> f.blk[b].type = "root"
    BY <2>4, FileFields DEF KeepsRoots, FileInv
  <2> DEFINE dir == [f.dir EXCEPT ![n] = <<>>]  e == [h EXCEPT !.dir = dir]
             k == RootFreed(e, d)  S == Returned(h, d)
  <2>7. r = Leaves(k, cur)
    <3>1. [h EXCEPT !.dir[n] = Tail(@)] = e
      BY <2>2, <2>6 DEF File
    <3> QED  BY <2>3, <3>1
  <2>8. /\ dir \in [Name -> Seq(Blk \cup {ZNULL})]
        /\ \A m \in Name : dir[m] = IF m = n THEN <<>> ELSE f.dir[m]
    BY <2>6
  <2>9. /\ e \in File /\ e.dir = dir /\ e.blk = h.blk /\ e.free = h.free
        /\ e.blkmx = h.blkmx
    BY <2>6, <2>8 DEF File
  <2> HIDE DEF dir, e
  <2>10. ListOK(e) /\ e.blk[d].type = "root" /\ Returned(e, d) = S
    BY <2>1, <2>6, <2>9 DEF ListOK, Returned, Tree, BlocksOf
  <2>11. /\ k \in File /\ ListOK(k) /\ k.dir = dir
         /\ \A b \in Blk :
              /\ b \in S => k.blk[b].type = "free"
              /\ b \notin S => /\ k.blk[b].type = h.blk[b].type
                               /\ k.blk[b].head = h.blk[b].head
                               /\ k.blk[b].of = IF h.blk[b].of = d THEN ZNULL
                                                ELSE h.blk[b].of
    BY <2>9, <2>10, RootFreedKeeps
  <2>12. /\ d \in S /\ S \subseteq Blk
         /\ \A b \in Blk : b \in S <=>
              b = d \/ (h.blk[b].type \in {"data", "inuse"} /\ h.blk[b].of = d)
    BY DEF Returned, Tree, BlocksOf
  <2>13. r.file = k /\ r.root = cur /\ r.moved = FALSE
    BY <2>7 DEF Leaves
  <2> HIDE DEF k, S
  <2>14. \A x \in Blk : k.blk[x].type = "root"
                         <=> x # d /\ h.blk[x].type = "root"
    BY <2>11, <2>12
  <2>15. \A x \in Blk : <<x>> # <<>> /\ (\A y \in Blk : <<x>> = <<y>> => x = y)
    OBVIOUS
  <2>16. \A m \in Name : m # n => f.dir[m] # <<d>>
    BY <2>1, <2>15, SMTT(30) DEF FileInv, NamesOK
  <2>17. NamesOK(k)
    <3>1. ASSUME NEW m \in Name, k.dir[m] # <<>>
          PROVE  \E x \in Blk : k.dir[m] = <<x>> /\ k.blk[x].type = "root"
      <4>1. m # n /\ k.dir[m] = f.dir[m]
        BY <2>8, <2>11, <3>1
      <4>2. PICK x \in Blk : f.dir[m] = <<x>> /\ f.blk[x].type = "root"
        BY <3>1, <4>1 DEF FileInv, NamesOK
      <4>3. x # d
        BY <2>16, <4>1, <4>2
      <4> QED  BY <2>6, <2>14, <4>1, <4>2, <4>3
    <3>2. ASSUME NEW m \in Name, NEW l \in Name, k.dir[m] # <<>>,
                 k.dir[m] = k.dir[l]
          PROVE  m = l
      BY <2>8, <2>11, <3>2 DEF FileInv, NamesOK
    <3>3. ASSUME NEW x \in Blk, k.blk[x].type = "root"
          PROVE  \E m \in Name : k.dir[m] = <<x>>
      <4>1. x # d /\ f.blk[x].type = "root"
        BY <2>6, <2>14, <3>3
      <4>2. PICK m \in Name : f.dir[m] = <<x>>
        BY <4>1 DEF FileInv, NamesOK
      <4>3. m # n
        BY <2>1, <2>15, <4>1, <4>2
      <4> QED  BY <2>8, <2>11, <4>2, <4>3
    <3> QED  BY <3>1, <3>2, <3>3 DEF NamesOK
  <2>18. ASSUME Live(f) PROVE Live(k)
    <3>1. Live(h)
      BY <2>5, <2>18
    <3>2. OwnersLive(k)
      <4> SUFFICES ASSUME NEW b \in Blk
                   PROVE  /\ k.blk[b].type \in {"inuse", "data"} =>
                               k.blk[b].of \in Blk /\ k.blk[k.blk[b].of].type = "root"
                          /\ k.blk[b].type \in {"cut", "dup", "lost"} =>
                               \/ k.blk[b].of \in {ZSUPER, ZNULL}
                               \/ k.blk[b].of \in Blk /\ k.blk[k.blk[b].of].type = "root"
        BY DEF OwnersLive
      <4>1. CASE b \in S
        BY <2>11, <4>1
      <4>2. CASE b \notin S /\ h.blk[b].of = d
        <5>1. k.blk[b].of = ZNULL /\ k.blk[b].type \notin {"inuse", "data"}
          BY <2>11, <2>12, <4>2
        <5> QED  BY <5>1
      <4>3. CASE b \notin S /\ h.blk[b].of # d
        <5>1. k.blk[b].type = h.blk[b].type /\ k.blk[b].of = h.blk[b].of
          BY <2>11, <4>3
        <5> QED  BY <2>14, <3>1, <4>3, <5>1 DEF Live, OwnersLive
      <4> QED  BY <4>1, <4>2, <4>3
    <3>3. \A x \in Blk : x # d => BlocksOf(k, x, "data") = BlocksOf(h, x, "data")
      <4> SUFFICES ASSUME NEW x \in Blk, x # d, NEW b \in Blk
                   PROVE  k.blk[b].type = "data" /\ k.blk[b].of = x
                            <=> h.blk[b].type = "data" /\ h.blk[b].of = x
        BY DEF BlocksOf
      <4>1. CASE b \in S
        BY <2>1, <2>6, <2>11, <2>12, <4>1
      <4>2. CASE b \notin S
        <5>1. x # ZNULL
          BY DEF Blk, ZNULL
        <5> QED  BY <2>11, <4>2, <5>1
      <4> QED  BY <4>1, <4>2
    <3>4. \A x \in Blk : k.blk[x].type = "root" => k.blk[x].head = h.blk[x].head
      BY <2>11
    <3>5. HeadsLead(k)
      BY <2>14, <3>1, <3>3, <3>4 DEF Live, HeadsLead
    <3> QED  BY <3>2, <3>5 DEF Live
  <2>19. \A m \in Name, x \in Blk :
           f.dir[m] = <<x>> => \/ k.dir[m] = <<x>>
                               \/ x # cur /\ Deletes(f, k, x)
    <3> SUFFICES ASSUME NEW m \in Name, NEW x \in Blk, f.dir[m] = <<x>>, m = n
                 PROVE  x # cur /\ Deletes(f, k, x)
      BY <2>8, <2>11
    <3>1. x = d
      BY <2>1, <2>15
    <3> QED  BY <2>1, <2>2, <2>11, <2>12, <3>1 DEF Deletes
  <2>20. FileInv(k)
    BY <2>11, <2>17 DEF FileInv
  <2> QED  BY <2>13, <2>18, <2>19, <2>20 DEF Sound
<1> QED  BY <1>1, <1>2

(* Every call of a strict client.                                          *)
LEMMA EffectsSound ==
  ASSUME NEW f, FileInv(f), NEW c \in Call, NEW cur \in Blk,
         NEW shares \in BOOLEAN,
         c.op = "btcrtr" => f.dir[c.name] = <<>> \/ f.misc = 0,
         NEW r \in Effects(c, f, cur, shares)
  PROVE  Sound(f, c, cur, r)
<1>1. c.op \in {"btcrtr", "btchgr", "btdelr"} => c.name \in Name
  BY DEF Call, KeyCalls
<1>2. CASE c.op = "btcrtr"
  BY <1>1, <1>2, CreatedSound DEF Effects
<1>3. CASE c.op = "btchgr"
  BY <1>1, <1>3, ChangedSound DEF Effects
<1>4. CASE c.op = "btdelr"
  BY <1>1, <1>4, DeletedSound DEF Effects
<1>5. CASE c.op \in KeyCalls
  <2>1. PICK g : /\ r \in {Leaves(g, cur), Holds(g, cur)}
                 /\ g \in Found(f, cur) \cup Stuck(f, cur) \cup Put(f, cur)
                           \cup Refused(f, cur) \cup Removed(f, cur, shares)
                           \cup Inserted(f, cur) \cup Updated(f, cur)
                           \cup RecordGone(f, cur, shares)
    BY <1>5 DEF Effects, KeyCalls
  <2>2. KeepsRoots(f, g, cur)
    BY <2>1, FoundKeeps, PutKeeps, RefusedKeeps, RemovedKeeps, InsertedKeeps,
       UpdatedKeeps, RecordGoneKeeps
  <2> QED  BY <1>5, <2>1, <2>2, KeepsSound
<1>6. CASE c.op \notin {"btcrtr", "btchgr", "btdelr"} \cup KeyCalls
  BY <1>6, StaysSound DEF Effects, KeyCalls
<1> QED  BY <1>2, <1>3, <1>4, <1>5, <1>6

----------------------------------------------------------------------------
(* The file as the next call will see it.                                  *)
CurrentOf(m, d) ==
  IF \E p \in Proc : m[p] # NoMem
  THEN m[CHOOSE p \in Proc : m[p] # NoMem] ELSE d

LEMMA CurrentIs ==
  Current = CurrentOf(mem, disk) /\ Current' = CurrentOf(mem', disk')
BY DEF Current, CurrentOf

LEMMA CurrentInMemory ==
  ASSUME NEW m, NEW d, NEW p \in Proc, m[p] # NoMem,
         \A q \in Proc : m[q] # NoMem => q = p
  PROVE  CurrentOf(m, d) = m[p]
BY DEF CurrentOf

LEMMA CurrentOnDisk ==
  ASSUME NEW m, NEW d, \A q \in Proc : m[q] = NoMem
  PROVE  CurrentOf(m, d) = d
BY DEF CurrentOf

(* The process that counts a lock has the file, and no other process has.  *)
LEMMA OwnerHasFile ==
  ASSUME LockInv, MemOK, NEW p \in Proc, lckcnt[p] > 0
  PROVE  /\ owner = p /\ FileInv(mem[p]) /\ mem[p] # NoMem /\ Current = mem[p]
         /\ \A q \in Proc \ {p} : lckcnt[q] = 0 /\ mem[q] = NoMem
<1>1. owner = p /\ FileInv(mem[p])
  BY DEF LockInv, CountedIsOwned, MemOK
<1>2. mem[p] # NoMem
  BY <1>1, SharedConstants DEF FileInv
<1>3. \A q \in Proc \ {p} : lckcnt[q] = 0
  BY <1>1, SharedConstants DEF LockInv, LockTypeOK, CountedIsOwned
<1>4. \A q \in Proc \ {p} : mem[q] = NoMem
  BY <1>3 DEF MemOK
<1>5. Current = mem[p]
  BY <1>2, <1>4, CurrentIs, CurrentInMemory
<1> QED  BY <1>1, <1>2, <1>3, <1>4, <1>5

(* A call ends: the process keeps the file it leaves in memory, or saves   *)
(* it with its last lock.                                                  *)
LEMMA CallEnds ==
  ASSUME LockInv, FileInv(disk), MemOK, NEW p \in Proc, lckcnt[p] > 0,
         NEW g, FileInv(g), NEW n \in Nat,
         \/ bulock(p, n, g) /\ n > 0
         \/ KeepLock(p, n, g) /\ n > 0,
         NEW l \in {"idle", "closed"}, pc' = [pc EXCEPT ![p] = l]
  PROVE  FileInv(disk') /\ MemOK' /\ Current' \in {g, Written(g)}
<1>1. /\ FileInv(mem[p]) /\ g # NoMem
      /\ \A q \in Proc \ {p} : lckcnt[q] = 0 /\ mem[q] = NoMem
  BY OwnerHasFile, SharedConstants DEF FileInv
<1>2. /\ lckcnt \in [Proc -> 0 .. MaxNest] /\ mem = [q \in Proc |-> mem[q]]
      /\ \A q \in Proc : pc[q] = "work" => lckcnt[q] = 1
      /\ pc \in [Proc -> {"closed", "idle", "wait", "granted", "work"}]
  BY DEF LockInv, LockTypeOK, WorkIsCounted
<1>3. \A q \in Proc : pc'[q] # "work"
  BY <1>1, <1>2
<1>4. ASSUME mem' = [mem EXCEPT ![p] = g], disk' = disk,
             NEW m \in Nat \ {0}, lckcnt' = [lckcnt EXCEPT ![p] = m]
      PROVE  FileInv(disk') /\ MemOK' /\ Current' = g
  <2>1. mem'[p] = g /\ \A q \in Proc : q # p => mem'[q] = NoMem
    BY <1>1, <1>2, <1>4
  <2>2. Current' = g
    BY <1>1, <2>1, CurrentIs, CurrentInMemory
  <2>3. MemOK'
    BY <1>1, <1>2, <1>3, <1>4, <2>1 DEF MemOK
  <2> QED  BY <1>4, <2>2, <2>3
<1>5. ASSUME mem' = [mem EXCEPT ![p] = NoMem], disk' = Written(g),
             lckcnt' = [lckcnt EXCEPT ![p] = 0]
      PROVE  FileInv(disk') /\ MemOK' /\ Current' = Written(g)
  <2>1. \A q \in Proc : mem'[q] = NoMem /\ lckcnt'[q] = 0
    BY <1>1, <1>2, <1>5
  <2>2. Current' = Written(g)
    BY <1>5, <2>1, CurrentIs, CurrentOnDisk
  <2>3. MemOK'
    BY <1>3, <2>1 DEF MemOK
  <2> QED  BY <1>5, <2>2, <2>3, WrittenKeeps
<1>6. CASE bulock(p, n, g) /\ n > 1
  <2>1. n - 1 \in Nat \ {0}
    BY <1>6
  <2> QED  BY <1>4, <1>6, <2>1 DEF bulock
<1>7. CASE bulock(p, n, g) /\ n = 1
  BY <1>5, <1>7 DEF bulock
<1>8. CASE KeepLock(p, n, g) /\ n > 0
  <2>1. n \in Nat \ {0}
    BY <1>8
  <2> QED  BY <1>4, <1>8, <2>1 DEF KeepLock
<1> QED  BY <1>6, <1>7, <1>8

(* To save the superblock changes no root.                                 *)
LEMMA WrittenSame ==
  ASSUME NEW g, FileInv(g), NEW h \in {g, Written(g)}
  PROVE  FileInv(h) /\ h.dir = g.dir /\ h.blk = g.blk
BY WrittenKeeps

(* The file in force and the places of the contexts are what a call or a   *)
(* step that is none leaves.                                               *)
LEMMA SameRoots ==
  ASSUME RInv, FileInv(Current'), Current'.dir = Current.dir,
         Current'.blk = Current.blk, astray' = astray,
         \A p \in Proc : \/ /\ scroot'[p] = scroot[p] /\ scclas'[p] = scclas[p]
                           /\ orphan'[p] = orphan[p]
                        \/ scroot'[p] = ZSUPER
                        \/ Current.dir[scclas'[p]] = <<scroot'[p]>>
  PROVE  ~astray' => Live(Current') /\ ContextsOK(Current)'
<1>1. Live(Current) => Live(Current')
  BY DEF Live, OwnersLive, HeadsLead, BlocksOf
<1>2. ContextsOK(Current) => ContextsOK(Current)'
  BY DEF ContextsOK
<1> QED  BY <1>1, <1>2 DEF RInv

LEMMA PerformKeepsRoots ==
  ASSUME StrictClient, RInv, NEW p \in Proc, NEW c \in Call, Perform(p, c)
  PROVE  RInv' /\ \E r \in Effects(c, Current, scroot[p], shared[p]) :
                    Current' \in {r.file, Written(r.file)}
<1> DEFINE n == Count(p)
<1>1. pc[p] = "work" \/ (pc[p] = "idle" /\ lckcnt[p] > 0)
  BY DEF Perform
<1>2. /\ owner = p /\ n \in Nat /\ n > 0 /\ lckcnt[p] > 0
      /\ LockInv /\ FileInv(disk) /\ MemOK /\ PlacesOK
  BY <1>1, CountBounds, SharedConstants
  DEF RInv, LockInv, LockTypeOK, WorkIsCounted
<1>3. FileInv(mem[p]) /\ Current = mem[p]
  BY <1>2, OwnerHasFile
<1>4. scroot[p] \in Blk
  BY <1>2 DEF Perform, PlacesOK, Opening
<1>5. c.op = "btcrtr" => mem[p].dir[c.name] = <<>> \/ mem[p].misc = 0
  BY DEF Perform, Allowed
<1>6. PICK r \in Effects(c, mem[p], scroot[p], shared[p]) :
        /\ AtRoot(p, r.root, IF r.moved THEN c.name ELSE scclas[p])
        /\ KeepLock(p, n, r.file) \/ bulock(p, n, r.file)
        /\ orphan' = [q \in Proc |->
             IF q = p THEN orphan[p] /\ ~r.moved
             ELSE orphan[q] \/ Deletes(mem[p], r.file, scroot[q])]
  BY DEF Perform
<1>7. Sound(mem[p], c, scroot[p], r)
  <2>1. shared[p] \in BOOLEAN
    BY <1>2 DEF LockInv, LockTypeOK
  <2> QED  BY <1>3, <1>4, <1>5, <1>6, <2>1, EffectsSound
<1>8. /\ pc' = [pc EXCEPT ![p] = "idle"]
      /\ astray' = (astray \/ (orphan[p] /\ c.op \in KeyCalls))
  BY DEF Perform, Goto
<1> HIDE DEF n
<1>9. FileInv(disk') /\ MemOK' /\ Current' \in {r.file, Written(r.file)}
  <2>1. FileInv(r.file)
    BY <1>7 DEF Sound
  <2> QED  BY <1>2, <1>6, <1>8, <2>1, CallEnds
<1>10. /\ FileInv(Current') /\ Current'.dir = r.file.dir
       /\ Current'.blk = r.file.blk
  BY <1>7, <1>9, WrittenSame DEF Sound
<1>11. LockInv'
  BY <1>2, PerformKeepsInv
<1>12. PlacesOK'
  <2>1. scroot' = [scroot EXCEPT ![p] = r.root] /\ r.root \in Blk
    BY <1>6, <1>7 DEF AtRoot, Sound
  <2>2. scclas' \in [Proc -> Name]
    BY <1>2, <1>6, <1>7 DEF AtRoot, Sound, PlacesOK
  <2>3. orphan' \in [Proc -> BOOLEAN] /\ astray' \in BOOLEAN
    BY <1>2, <1>6, <1>8 DEF PlacesOK, Deletes
  <2>4. \A q \in Proc : pc'[q] = "idle" => scroot'[q] # ZSUPER
    BY <1>2, <1>8, <2>1 DEF PlacesOK, LockInv, LockTypeOK, Blk, ZSUPER
  <2> QED  BY <1>2, <2>1, <2>2, <2>3, <2>4 DEF PlacesOK
<1>13. ASSUME ~astray'
       PROVE  Live(Current') /\ ContextsOK(Current)'
  <2>1. ~astray /\ (c.op \in KeyCalls => ~orphan[p])
    BY <1>8, <1>13
  <2>2. Live(mem[p]) /\ ContextsOK(mem[p])
    BY <1>3, <2>1 DEF RInv
  <2>3. c.op \in KeyCalls => mem[p].blk[scroot[p]].type = "root"
    <3> SUFFICES ASSUME c.op \in KeyCalls
                 PROVE  mem[p].blk[scroot[p]].type = "root"
      OBVIOUS
    <3>1. mem[p].dir[scclas[p]] = <<scroot[p]>> /\ scclas[p] \in Name
      BY <1>2, <1>4, <2>1, <2>2 DEF ContextsOK, PlacesOK, Blk, ZSUPER
    <3>2. PICK b \in Blk : /\ mem[p].dir[scclas[p]] = <<b>>
                          /\ mem[p].blk[b].type = "root"
      BY <1>3, <3>1, SMTT(30) DEF FileInv, NamesOK
    <3>3. b = scroot[p]
      BY <3>1, <3>2
    <3> QED  BY <3>2, <3>3
  <2>4. Live(Current')
    BY <1>7, <1>10, <2>2, <2>3 DEF Sound, Live, OwnersLive, HeadsLead, BlocksOf
  <2>5. ASSUME NEW q \in Proc
        PROVE  \/ scroot'[q] = ZSUPER \/ orphan'[q]
               \/ Current'.dir[scclas'[q]] = <<scroot'[q]>>
    <3>1. \/ scroot[q] = ZSUPER \/ orphan[q]
          \/ mem[p].dir[scclas[q]] = <<scroot[q]>>
      BY <2>2 DEF ContextsOK
    <3>2. scclas[q] \in Name /\ scroot[q] \in Blk \cup {ZSUPER}
      BY <1>2 DEF PlacesOK
    <3>3. CASE q # p
      <4>1. /\ scroot'[q] = scroot[q] /\ scclas'[q] = scclas[q]
            /\ orphan'[q] = (orphan[q] \/ Deletes(mem[p], r.file, scroot[q]))
        BY <1>2, <1>6, <3>3 DEF AtRoot, PlacesOK
      <4> QED  BY <1>7, <1>10, <3>1, <3>2, <4>1 DEF Sound
    <3>4. CASE q = p /\ r.moved
      <4>1. scroot'[q] = r.root /\ scclas'[q] = c.name
        BY <1>2, <1>6, <3>4 DEF AtRoot, PlacesOK
      <4> QED  BY <1>7, <1>10, <3>4, <4>1 DEF Sound
    <3>5. CASE q = p /\ ~r.moved
      <4>1. /\ scroot'[q] = scroot[q] /\ scclas'[q] = scclas[q]
            /\ orphan'[q] = orphan[q]
        BY <1>2, <1>6, <1>7, <3>5 DEF AtRoot, PlacesOK, Sound
      <4> QED  BY <1>4, <1>7, <1>10, <3>1, <3>2, <3>5, <4>1 DEF Sound
    <3> QED  BY <1>7, <3>3, <3>4, <3>5 DEF Sound
  <2>6. ContextsOK(Current)'
    BY <2>5 DEF ContextsOK
  <2> QED  BY <2>4, <2>6
<1> QED  BY <1>3, <1>6, <1>9, <1>11, <1>12, <1>13 DEF RInv

----------------------------------------------------------------------------
(* The other steps leave the file in force as it is, or save it.           *)
Quiet == Current' \in {Current, Written(Current)}

LEMMA CurrentSound ==
  ASSUME LockInv, FileInv(disk), MemOK
  PROVE  FileInv(Current)
<1>1. CASE \E p \in Proc : mem[p] # NoMem
  <2>1. PICK p \in Proc : mem[p] # NoMem
    BY <1>1
  <2>2. lckcnt[p] > 0
    BY <2>1, SharedConstants DEF MemOK, LockInv, LockTypeOK
  <2> QED  BY <2>2, OwnerHasFile
<1>2. CASE \A p \in Proc : mem[p] = NoMem
  BY <1>2, CurrentIs, CurrentOnDisk
<1> QED  BY <1>1, <1>2

(* No file is touched.                                                     *)
LEMMA FilesStay ==
  ASSUME RInv, LockInv', PlacesOK', UNCHANGED <<disk, mem, lckcnt>>,
         \A p \in Proc : pc'[p] = "work" => pc[p] = "work",
         astray' = astray,
         \A p \in Proc : \/ /\ scroot'[p] = scroot[p] /\ scclas'[p] = scclas[p]
                           /\ orphan'[p] = orphan[p]
                        \/ scroot'[p] = ZSUPER
  PROVE  RInv' /\ Quiet
<1>1. Current' = Current
  BY CurrentIs
<1>2. FileInv(Current)
  BY CurrentSound DEF RInv
<1>3. FileInv(disk') /\ MemOK'
  BY DEF RInv, MemOK
<1>4. ~astray' => Live(Current') /\ ContextsOK(Current)'
  BY <1>1, <1>2, SameRoots
<1> QED  BY <1>1, <1>3, <1>4 DEF RInv, Quiet

(* A process that has the file ends its work on it without a change.       *)
LEMMA FileSaved ==
  ASSUME RInv, LockInv', PlacesOK', NEW p \in Proc, lckcnt[p] > 0,
         NEW n \in Nat, n > 0,
         KeepLock(p, n, mem[p]) \/ bulock(p, n, mem[p]),
         NEW l \in {"idle", "closed"}, pc' = [pc EXCEPT ![p] = l],
         astray' = astray,
         \A q \in Proc : \/ /\ scroot'[q] = scroot[q] /\ scclas'[q] = scclas[q]
                           /\ orphan'[q] = orphan[q]
                        \/ scroot'[q] = ZSUPER
                        \/ Current.dir[scclas'[q]] = <<scroot'[q]>>
  PROVE  RInv' /\ Quiet
<1>1. LockInv /\ FileInv(disk) /\ MemOK
  BY DEF RInv
<1>2. FileInv(mem[p]) /\ Current = mem[p]
  BY <1>1, OwnerHasFile
<1>3. FileInv(disk') /\ MemOK' /\ Current' \in {mem[p], Written(mem[p])}
  BY <1>1, <1>2, CallEnds
<1>4. /\ FileInv(Current') /\ Current'.dir = Current.dir
      /\ Current'.blk = Current.blk
  BY <1>2, <1>3, WrittenSame
<1>5. ~astray' => Live(Current') /\ ContextsOK(Current)'
  BY <1>4, SameRoots
<1> QED  BY <1>2, <1>3, <1>5 DEF RInv, Quiet

LEMMA StepKeepsRoots ==
  ASSUME RInv, NEW p \in Proc,
         Grant(p) \/ Alarm(p) \/ Enter(p) \/ Open(p) \/ OpenFails(p)
  PROVE  RInv' /\ Quiet
<1>1. /\ LockInv /\ FileInv(disk) /\ MemOK /\ PlacesOK
      /\ pc \in [Proc -> {"closed", "idle", "wait", "granted", "work"}]
  BY DEF RInv, LockInv, LockTypeOK
<1>2. LockInv'
  BY <1>1, StepKeepsInv DEF Step
<1>3. CASE Grant(p)
  <2>1. PlacesOK'
    BY <1>1, <1>3 DEF Grant, Goto, place, ghosts, PlacesOK
  <2> QED
    BY <1>1, <1>2, <1>3, <2>1, FilesStay DEF Grant, Goto, place, ghosts
<1>4. CASE Alarm(p)
  <2>1. PlacesOK'
    BY <1>1, <1>4, RootConstants
    DEF Alarm, bacfre, AtRoot, Opening, Goto, place, ghosts, PlacesOK
  <2>2. \A q \in Proc : \/ /\ scroot'[q] = scroot[q] /\ scclas'[q] = scclas[q]
                          /\ orphan'[q] = orphan[q]
                       \/ scroot'[q] = ZSUPER
    BY <1>1, <1>4 DEF Alarm, bacfre, AtRoot, place, ghosts, PlacesOK
  <2>3. \A q \in Proc : pc'[q] = "work" => pc[q] = "work"
    BY <1>1, <1>4 DEF Alarm, bacfre, Goto
  <2> QED
    BY <1>2, <1>4, <2>1, <2>2, <2>3, FilesStay DEF Alarm, ghosts
<1>5. CASE Enter(p)
  <2>1. /\ \A q \in Proc : lckcnt[q] = 0 /\ mem[q] = NoMem /\ pc[q] # "work"
        /\ lckcnt \in [Proc -> 0 .. MaxNest] /\ mem = [q \in Proc |-> mem[q]]
    BY <1>1, <1>5, SharedConstants
    DEF Enter, LockInv, LockTypeOK, CountedIsOwned, WorkIsCounted, MemOK
  <2>2. /\ mem' = [mem EXCEPT ![p] = disk] /\ disk' = disk
        /\ lckcnt' = [lckcnt EXCEPT ![p] = 1] /\ pc' = [pc EXCEPT ![p] = "work"]
        /\ UNCHANGED <<scroot, scclas, orphan, astray>>
    BY <2>1, <1>5 DEF Enter, Goto, place, ghosts
  <2>3. /\ mem'[p] = disk /\ disk # NoMem
        /\ \A q \in Proc : q # p => mem'[q] = NoMem /\ lckcnt'[q] = 0
                                  /\ pc'[q] # "work"
    BY <1>1, <2>1, <2>2, SharedConstants DEF FileInv
  <2>4. Current' = disk /\ Current = disk
    BY <2>1, <2>3, CurrentIs, CurrentInMemory, CurrentOnDisk
  <2>5. MemOK'
    BY <1>1, <2>1, <2>2, <2>3 DEF MemOK
  <2>6. PlacesOK'
    BY <1>1, <2>2 DEF PlacesOK
  <2>7. ~astray' => Live(Current') /\ ContextsOK(Current)'
    BY <1>1, <2>2, <2>4, SameRoots
  <2> QED  BY <1>1, <1>2, <2>2, <2>4, <2>5, <2>6, <2>7 DEF RInv, Quiet
<1>6. CASE Open(p)
  <2> DEFINE b == mem[p].dir[Default][1]
  <2>1. lckcnt[p] = 1 /\ Default \in Name
    BY <1>1, <1>6, RootConstants DEF Open, LockInv, WorkIsCounted
  <2>2. FileInv(mem[p]) /\ Current = mem[p]
    BY <1>1, <2>1, OwnerHasFile
  <2>3. mem[p].dir[Default] = <<b>> /\ b \in Blk
    <3>1. PICK x \in Blk : mem[p].dir[Default] = <<x>>
      BY <1>6, <2>1, <2>2 DEF Open, FileInv, NamesOK
    <3> QED  BY <3>1
  <2>4. /\ pc' = [pc EXCEPT ![p] = "idle"]
        /\ scroot' = [scroot EXCEPT ![p] = b]
        /\ scclas' = [scclas EXCEPT ![p] = Default]
        /\ UNCHANGED <<orphan, astray>>
        /\ KeepLock(p, 1, mem[p]) \/ bulock(p, 1, mem[p])
    BY <1>6 DEF Open, AtRoot, Goto
  <2> HIDE DEF b
  <2>5. PlacesOK'
    BY <1>1, <2>1, <2>3, <2>4 DEF PlacesOK, Blk, ZSUPER
  <2>6. \A q \in Proc : \/ /\ scroot'[q] = scroot[q] /\ scclas'[q] = scclas[q]
                          /\ orphan'[q] = orphan[q]
                       \/ Current.dir[scclas'[q]] = <<scroot'[q]>>
    BY <1>1, <2>2, <2>3, <2>4 DEF PlacesOK
  <2>7. lckcnt[p] > 0 /\ 1 \in Nat /\ 1 > 0 /\ "idle" \in {"idle", "closed"}
    BY <2>1
  <2>8. KeepLock(p, 1, mem[p]) \/ bulock(p, 1, mem[p])
    BY <2>4
  <2>9. astray' = astray
    BY <2>4
  <2> QED  BY <1>2, <2>4, <2>5, <2>6, <2>7, <2>8, <2>9, FileSaved
<1>7. CASE OpenFails(p)
  <2>1. lckcnt[p] = 1 /\ mem[p] = disk
    BY <1>1, <1>7 DEF OpenFails, LockInv, WorkIsCounted, MemOK
  <2>2. /\ FileInv(mem[p]) /\ Current = mem[p]
        /\ \A q \in Proc \ {p} : lckcnt[q] = 0 /\ mem[q] = NoMem
    BY <1>1, <2>1, OwnerHasFile
  <2>3. /\ pc' = [pc EXCEPT ![p] = "closed"]
        /\ scroot' = [scroot EXCEPT ![p] = ZSUPER]
        /\ scclas' = [scclas EXCEPT ![p] = Default]
        /\ UNCHANGED <<orphan, astray>>
        /\ KeepLock(p, 0, NoMem) \/ bulock(p, 1, mem[p])
    BY <1>7 DEF OpenFails, bacfre, AtRoot, Goto
  <2>4. PlacesOK'
    BY <1>1, <2>3, RootConstants DEF PlacesOK
  <2>5. \A q \in Proc : \/ /\ scroot'[q] = scroot[q] /\ scclas'[q] = scclas[q]
                          /\ orphan'[q] = orphan[q]
                       \/ scroot'[q] = ZSUPER
    BY <1>1, <2>3 DEF PlacesOK
  <2>6. CASE bulock(p, 1, mem[p])
    <3>1. lckcnt[p] > 0 /\ 1 \in Nat /\ 1 > 0 /\ astray' = astray
      BY <2>1, <2>3
    <3> QED  BY <1>2, <2>3, <2>4, <2>5, <2>6, <3>1, FileSaved
  <2>7. CASE KeepLock(p, 0, NoMem)
    <3>1. /\ mem = [q \in Proc |-> mem[q]] /\ lckcnt \in [Proc -> 0 .. MaxNest]
          /\ disk' = disk
      BY <1>1, <2>7 DEF LockInv, LockTypeOK, KeepLock
    <3>2. \A q \in Proc : mem'[q] = NoMem /\ lckcnt'[q] = 0
      BY <2>2, <2>7, <3>1 DEF KeepLock
    <3>3. Current' = disk /\ Current = disk
      BY <2>1, <2>2, <3>1, <3>2, CurrentIs, CurrentOnDisk
    <3>4. \A q \in Proc : pc'[q] # "work"
      BY <1>1, <2>2, <2>3 DEF LockInv, WorkIsCounted
    <3>5. MemOK'
      BY <3>2, <3>4 DEF MemOK
    <3>6. ~astray' => Live(Current') /\ ContextsOK(Current)'
      BY <1>1, <2>3, <2>5, <3>3, SameRoots
    <3> QED  BY <1>1, <1>2, <2>4, <3>1, <3>3, <3>5, <3>6 DEF RInv, Quiet
  <2> QED  BY <2>3, <2>6, <2>7
<1> QED  BY <1>3, <1>4, <1>5, <1>6, <1>7

LEMMA ClientKeepsRoots ==
  ASSUME RInv, NEW p \in Proc,
         \/ \E mode \in BOOLEAN : btopn(p, mode)
         \/ Ask(p) \/ btunlock(p) \/ btcls(p)
  PROVE  RInv' /\ Quiet
<1>1. /\ LockInv /\ FileInv(disk) /\ MemOK /\ PlacesOK
      /\ pc \in [Proc -> {"closed", "idle", "wait", "granted", "work"}]
  BY DEF RInv, LockInv, LockTypeOK
<1>2. LockInv'
  BY <1>1, ClientKeepsInv DEF Client
<1>3. CASE (\E mode \in BOOLEAN : btopn(p, mode)) \/ Ask(p)
  <2>1. /\ UNCHANGED <<disk, mem, lckcnt, scroot, scclas, orphan, astray>>
        /\ pc' = [pc EXCEPT ![p] = "wait"]
    BY <1>3 DEF btopn, Ask, Goto, place, ghosts
  <2>2. PlacesOK'
    BY <1>1, <2>1 DEF PlacesOK
  <2> QED  BY <1>1, <1>2, <2>1, <2>2, FilesStay
<1>4. CASE btunlock(p)
  <2>1. /\ lckcnt[p] \in Nat /\ lckcnt[p] > 0 /\ bulock(p, lckcnt[p], mem[p])
        /\ UNCHANGED <<pc, scroot, scclas, orphan, astray>> /\ pc[p] = "idle"
    BY <1>1, <1>4, SharedConstants DEF btunlock, place, LockInv, LockTypeOK
  <2>2. pc' = [pc EXCEPT ![p] = "idle"]
    BY <1>1, <2>1
  <2>3. PlacesOK'
    BY <1>1, <2>1 DEF PlacesOK
  <2> QED  BY <1>2, <2>1, <2>2, <2>3, FileSaved
<1>5. CASE btcls(p)
  <2>1. /\ pc' = [pc EXCEPT ![p] = "closed"]
        /\ scroot' = [scroot EXCEPT ![p] = ZSUPER]
        /\ scclas' = [scclas EXCEPT ![p] = Default]
        /\ orphan' = [orphan EXCEPT ![p] = FALSE] /\ astray' = astray
    BY <1>5 DEF btcls, bacfre, AtRoot, Goto
  <2>2. PlacesOK'
    BY <1>1, <2>1, RootConstants DEF PlacesOK
  <2>3. \A q \in Proc : \/ /\ scroot'[q] = scroot[q] /\ scclas'[q] = scclas[q]
                          /\ orphan'[q] = orphan[q]
                       \/ scroot'[q] = ZSUPER
    BY <1>1, <2>1 DEF PlacesOK
  <2>4. CASE lckcnt[p] > 0
    <3>1. bulock(p, 1, mem[p])
      BY <1>5, <2>4 DEF btcls
    <3>2. 1 \in Nat /\ 1 > 0
      OBVIOUS
    <3> QED  BY <1>2, <2>1, <2>2, <2>3, <2>4, <3>1, <3>2, FileSaved
  <2>5. CASE ~(lckcnt[p] > 0)
    <3>1. UNCHANGED <<disk, mem, lckcnt>>
      BY <1>5, <2>5 DEF btcls
    <3> QED  BY <1>1, <1>2, <2>1, <2>2, <2>3, <3>1, FilesStay
  <2> QED  BY <2>4, <2>5
<1> QED  BY <1>3, <1>4, <1>5

----------------------------------------------------------------------------
LEMMA NewFileSound ==
  ASSUME NEW n \in Limits
  PROVE  FileInv(NewFile(n)) /\ Live(NewFile(n))
<1> DEFINE f == NewFile(n)
<1>1. ZROOT \in Blk /\ MAXBLK \in Nat /\ MAXBLK > 1 /\ Default \in Name
  BY RootConstants DEF Blk, ZROOT
<1>2. /\ f.blk = [b \in Blk |-> IF b = ZROOT THEN BlockOf("root", b)
                                  ELSE BlockOf("none", ZNULL)]
      /\ f.dir = [m \in Name |-> IF m = Default THEN <<ZROOT>> ELSE <<>>]
      /\ f.free = <<>> /\ f.blkmx = 2
  BY DEF NewFile
<1>3. f.blk \in [Blk -> Block]
  BY <1>2, RootConstants DEF Block, BlockOf, Type
<1>4. f.dir \in [Name -> Seq(Blk \cup {ZNULL})]
  <2>1. /\ <<ZROOT>> \in Seq(Blk \cup {ZNULL})
        /\ <<>> \in Seq(Blk \cup {ZNULL}) /\ <<>> \in Seq(Blk)
    BY <1>1
  <2> QED  BY <1>2, <2>1
<1>5. f \in File
  <2>1. /\ <<>> \in Seq(Blk) /\ 2 \in 2 .. MAXBLK /\ 0 \in 0 .. MAXBLK
    BY <1>1
  <2> DEFINE blk == f.blk  dir == f.dir
  <2>2. f = [blk |-> blk, dir |-> dir, free |-> <<>>, blkmx |-> 2,
             misc |-> 0, limit |-> n]
    BY DEF NewFile
  <2>3. blk \in [Blk -> Block] /\ dir \in [Name -> Seq(Blk \cup {ZNULL})]
    BY <1>3, <1>4
  <2> HIDE DEF f, blk, dir
  <2> QED  BY <2>1, <2>2, <2>3 DEF File, Block
<1> HIDE DEF f
<1>6. \A b \in Blk : /\ f.blk[b].type = IF b = ZROOT THEN "root" ELSE "none"
                    /\ f.blk[b].head = ZNULL
  BY <1>2 DEF BlockOf
<1>7. \A m \in Name : f.dir[m] = IF m = Default THEN <<ZROOT>> ELSE <<>>
  BY <1>2
<1>8. <<ZROOT>> # <<>>
  OBVIOUS
<1>9. NamesOK(f)
  BY <1>1, <1>6, <1>7, <1>8 DEF NamesOK
<1>10. Elems(f.free) = {} /\ Distinct(f.free)
  BY <1>2 DEF Elems, Distinct
<1>11. ListOK(f)
  BY <1>1, <1>2, <1>6, <1>10 DEF ListOK, Blk, ZROOT
<1>12. Live(f)
  BY <1>6 DEF Live, OwnersLive, HeadsLead, BlocksOf
<1> QED  BY <1>5, <1>9, <1>11, <1>12 DEF FileInv, f

LEMMA RootsInit ==
  ASSUME Init
  PROVE  RInv /\ \E n \in Limits : Current = NewFile(n)
<1>1. PICK n \in Limits : disk = NewFile(n)
  BY DEF Init
<1>2. FileInv(disk) /\ Live(disk)
  BY <1>1, NewFileSound
<1>3. Current = disk
  BY CurrentIs, CurrentOnDisk DEF Init
<1>4. MemOK
  <2>1. \A p \in Proc : lckcnt[p] = 0 /\ mem[p] = NoMem /\ pc[p] # "work"
    BY DEF Init
  <2> QED  BY <2>1 DEF MemOK
<1>6. PlacesOK
  BY RootConstants DEF Init, PlacesOK
<1>5. ContextsOK(Current)
  BY DEF Init, ContextsOK
<1> QED  BY <1>1, <1>2, <1>3, <1>4, <1>5, <1>6, InitInv DEF RInv

(* Every step of the processes is a call on the file in force, or leaves   *)
(* it as it is or saved.                                                   *)
LEMMA NextKeepsRoots ==
  ASSUME StrictClient, RInv, [Next]_vars
  PROVE  /\ RInv'
         /\ \/ Quiet
            \/ \E c \in Call, root \in Blk :
                 \E r \in Effects(c, Current, root, TRUE)
                          \cup Effects(c, Current, root, FALSE) :
                   Current' \in {r.file, Written(r.file)}
<1>1. CASE UNCHANGED vars
  <2>1. /\ UNCHANGED <<disk, mem, lckcnt, pc, scroot, scclas, orphan, astray>>
        /\ UNCHANGED <<owner, shared>>
    BY <1>1 DEF vars, lock, place, ghosts
  <2>2. LockInv' /\ PlacesOK'
    BY <2>1 DEF RInv, LockInv, LockTypeOK, CountedIsOwned, CacheIsCounted,
       WorkIsCounted, PlacesOK
  <2> QED  BY <2>1, <2>2, FilesStay
<1>2. ASSUME NEW p \in Proc, NEW c \in Call, Perform(p, c)
      PROVE  /\ RInv' /\ scroot[p] \in Blk
             /\ \E r \in Effects(c, Current, scroot[p], TRUE)
                          \cup Effects(c, Current, scroot[p], FALSE) :
                  Current' \in {r.file, Written(r.file)}
  <2>1. scroot[p] \in Blk
    BY <1>2 DEF Perform, RInv, PlacesOK, Opening
  <2>2. shared[p] = TRUE \/ shared[p] = FALSE
    BY DEF RInv, LockInv, LockTypeOK
  <2>3. PICK r \in Effects(c, Current, scroot[p], shared[p]) :
          Current' \in {r.file, Written(r.file)}
    BY <1>2, PerformKeepsRoots
  <2>4. r \in Effects(c, Current, scroot[p], TRUE)
              \cup Effects(c, Current, scroot[p], FALSE)
    BY <2>2, <2>3
  <2> QED  BY <1>2, <2>1, <2>3, <2>4, PerformKeepsRoots
<1>3. CASE Next
  <2>1. PICK p \in Proc : Step(p) \/ Client(p)
    BY <1>3 DEF Next
  <2>2. CASE \E c \in Call : Perform(p, c)
    BY <1>2, <2>2
  <2>3. CASE Grant(p) \/ Alarm(p) \/ Enter(p) \/ Open(p) \/ OpenFails(p)
    BY <2>3, StepKeepsRoots
  <2>4. CASE \/ \E mode \in BOOLEAN : btopn(p, mode)
             \/ Ask(p) \/ btunlock(p) \/ btcls(p)
    BY <2>4, ClientKeepsRoots
  <2> QED  BY <2>1, <2>2, <2>3, <2>4 DEF Step, Client
<1> QED  BY <1>1, <1>3

LEMMA InvIsSound == RInv => RootsSound
<1> SUFFICES ASSUME RInv PROVE RootsSound
  OBVIOUS
<1> DEFINE f == Current
<1>1. FileInv(f)
  BY CurrentSound DEF RInv
<1>2. ~astray => Live(f) /\ ContextsOK(f)
  BY DEF RInv
<1> HIDE DEF f
<1>3. f \in File
  BY <1>1 DEF FileInv
<1>4. \A n \in Name : f.dir[n] # <<>> =>
        /\ Len(f.dir[n]) = 1 /\ f.dir[n][1] \in Blk
        /\ f.dir[n] = <<f.dir[n][1]>>
        /\ f.blk[f.dir[n][1]].type = "root"
  <2> SUFFICES ASSUME NEW n \in Name, f.dir[n] # <<>>
               PROVE  /\ Len(f.dir[n]) = 1 /\ f.dir[n][1] \in Blk
                      /\ f.dir[n] = <<f.dir[n][1]>>
                      /\ f.blk[f.dir[n][1]].type = "root"
    OBVIOUS
  <2>1. PICK b \in Blk : f.dir[n] = <<b>> /\ f.blk[b].type = "root"
    BY <1>1 DEF FileInv, NamesOK
  <2> QED  BY <2>1
<1>5. NamesLead(f)
  BY <1>1, <1>4 DEF FileInv, NamesOK, NamesLead
<1>6. ASSUME NEW b \in Blk
      PROVE  f.blk[b].type = "root" <=> b \in RootBlocks(f)
  <2>1. ASSUME f.blk[b].type = "root" PROVE b \in RootBlocks(f)
    <3>1. PICK n \in Name : f.dir[n] = <<b>>
      BY <1>1, <2>1 DEF FileInv, NamesOK
    <3>2. f.dir[n] # <<>> /\ f.dir[n][1] = b
      BY <3>1
    <3> QED  BY <3>2 DEF RootBlocks
  <2>2. ASSUME b \in RootBlocks(f) PROVE f.blk[b].type = "root"
    BY <1>4, <2>2 DEF RootBlocks
  <2> QED  BY <2>1, <2>2
<1>7. /\ Distinct(f.free)
      /\ \A b \in Blk : /\ f.blk[b].type = "none" <=> b >= f.blkmx
                        /\ f.blk[b].type = "free" <=> b \in Elems(f.free)
  BY <1>1 DEF FileInv, ListOK
<1>8. ASSUME Live(f) PROVE BlocksPlaced(f) /\ ListsLead(f)
  <2>1. \A b \in Blk :
          /\ f.blk[b].type \in {"inuse", "data"} => f.blk[b].of \in RootBlocks(f)
          /\ f.blk[b].type \in {"cut", "dup", "lost"} =>
               f.blk[b].of \in RootBlocks(f) \cup {ZSUPER, ZNULL}
    BY <1>6, <1>8 DEF Live, OwnersLive
  <2>2. \A b \in Blk : b \in Elems(f.free) <=>
          \E i \in DOMAIN f.free : f.free[i] = b
    BY DEF Elems
  <2>3. BlocksPlaced(f)
    BY <1>6, <1>7, <2>1, <2>2 DEF BlocksPlaced, Distinct
  <2>4. RootBlocks(f) \subseteq Blk
    BY <1>4 DEF RootBlocks
  <2>5. ListsLead(f)
    BY <1>6, <1>8, <2>4 DEF Live, HeadsLead, ListsLead
  <2> QED  BY <2>3, <2>5
<1> QED  BY <1>2, <1>3, <1>5, <1>8 DEF RootsSound, ContextsOK, f

(* btdelr frees no block that is free already or has another root, and it  *)
(* leaves no tree block and no block of a data list without a root         *)
(* (btdelr.c:80-92), for any number of processes, names and blocks, when   *)
(* no root is created twice.  The dup blocks of a deleted root, the data   *)
(* blocks its list had lost and what a failed split took stay behind; of a *)
(* file in which a call has worked on a deleted root nothing is said but   *)
(* its type.                                                               *)
THEOREM RootsCorrect ==
  ASSUME StrictClient
  PROVE  Spec => []RootsSound
<1>1. Init => RInv
  BY RootsInit
<1>2. RInv /\ [Next]_vars => RInv'
  BY NextKeepsRoots
<1> QED  BY <1>1, <1>2, InvIsSound, PTL DEF Spec

----------------------------------------------------------------------------
(* The abstract specification has its own instance of module Roots; the    *)
(* operators are the same.                                                 *)
LEMMA SameOutcomes ==
  ASSUME NEW f, NEW cur, NEW c, NEW shares
  PROVE  /\ WC!Found(f, cur) = Found(f, cur)
         /\ WC!Stuck(f, cur) = Stuck(f, cur)
         /\ WC!Put(f, cur) = Put(f, cur)
         /\ WC!Refused(f, cur) = Refused(f, cur)
         /\ WC!Removed(f, cur, shares) = Removed(f, cur, shares)
         /\ WC!Inserted(f, cur) = Inserted(f, cur)
         /\ WC!Updated(f, cur) = Updated(f, cur)
         /\ WC!RecordGone(f, cur, shares) = RecordGone(f, cur, shares)
         /\ WC!Created(f, cur, c.name) = Created(f, cur, c.name)
         /\ WC!Changed(f, cur, c.name) = Changed(f, cur, c.name)
         /\ WC!Deleted(f, cur, c.name) = Deleted(f, cur, c.name)
BY DEF WC!Blk, Blk, WC!ZNULL, ZNULL, WC!ZSUPER, ZSUPER, WC!ZROOT,
   ZROOT, WC!SetToSeq, SetToSeq, WC!IsInjective, IsInjective,
   WC!Cardinality, Cardinality, WC!BlockOf, BlockOf,
   WC!BlocksOf, BlocksOf, WC!Supply, Supply, WC!Take, Take,
   WC!Freed, Freed, WC!Tree, Tree, WC!Room, Room, WC!HasKeys,
   HasKeys, WC!Found, Found, WC!Stuck, Stuck, WC!Put, Put,
   WC!Refused, Refused, WC!EntryGone, EntryGone, WC!KeyGone,
   KeyGone, WC!Gone, Gone, WC!Removed, Removed, WC!Lengthened,
   Lengthened, WC!Stored, Stored, WC!NotStored, NotStored,
   WC!Emptied, Emptied, WC!Shortened, Shortened, WC!Inserted,
   Inserted, WC!Updated, Updated, WC!RecordGone, RecordGone,
   WC!Leaves, Leaves, WC!MovesTo, MovesTo, WC!Holds, Holds,
   WC!NameInserted, NameInserted, WC!Created, Created,
   WC!Changed, Changed, WC!Returned, Returned, WC!RootFreed,
   RootFreed, WC!NameGone, NameGone, WC!Deleted, Deleted,
   WC!KeyCalls, KeyCalls

LEMMA SameOperators ==
  /\ WC!Call = Call /\ WC!Blk = Blk
  /\ \A n : WC!NewFile(n) = NewFile(n)
  /\ \A f : WC!Written(f) = Written(f)
  /\ \A c, f, cur, shares : WC!Effects(c, f, cur, shares) = Effects(c, f, cur, shares)
<1> USE DEF WC!Blk, Blk, WC!ZNULL, ZNULL, WC!ZROOT, ZROOT, WC!KeyCalls, KeyCalls,
        WC!BlockOf, BlockOf
<1>1. WC!Call = Call /\ WC!Blk = Blk
  BY DEF WC!Call, Call
<1>2. \A f : WC!Written(f) = Written(f)
  BY DEF WC!Written, Written
<1>3. \A n : WC!NewFile(n) = NewFile(n)
  BY DEF WC!NewFile, NewFile
<1>4. ASSUME NEW c, NEW f, NEW cur, NEW shares
      PROVE  WC!Effects(c, f, cur, shares) = Effects(c, f, cur, shares)
  BY SameOutcomes, Zenon DEF WC!Effects, Effects, WC!Leaves, Leaves, WC!Holds, Holds
<1> QED  BY <1>1, <1>2, <1>3, <1>4

(* The processes implement WholeCalls: every call finds the file as the    *)
(* call before it left it, whoever made it, and no update is lost between  *)
(* the memories of the processes and the file (bsemap.c, btcls.c) .        *)
THEOREM CallsAreWhole ==
  ASSUME StrictClient
  PROVE  Spec => ImplementsWholeCalls
<1>1. Init => RInv /\ WC!Init
  BY RootsInit, SameOperators DEF WC!Init
<1>2. RInv /\ [Next]_vars => RInv' /\ [WC!Next]_Current
  <2> SUFFICES ASSUME RInv, [Next]_vars PROVE RInv' /\ [WC!Next]_Current
    OBVIOUS
  <2>1. CASE Quiet
    <3> DEFINE c == [op |-> "btlock"]
    <3>1. c \in Call /\ ZROOT \in Blk
      BY RootConstants DEF Call, Blk, ZROOT
    <3>2. Leaves(Current, ZROOT) \in Effects(c, Current, ZROOT, TRUE)
      BY DEF Effects, KeyCalls
    <3>3. Leaves(Current, ZROOT).file = Current
      BY DEF Leaves
    <3> HIDE DEF c
    <3>4. WC!Next
      BY <2>1, <3>1, <3>2, <3>3, SameOperators DEF Quiet, WC!Next
    <3> QED  BY <3>4, NextKeepsRoots
  <2>2. CASE \E c \in Call, root \in Blk :
               \E r \in Effects(c, Current, root, TRUE)
                        \cup Effects(c, Current, root, FALSE) :
               Current' \in {r.file, Written(r.file)}
    <3>1. WC!Next
      BY <2>2, SameOperators DEF WC!Next
    <3> QED  BY <3>1, NextKeepsRoots
  <2> QED  BY <2>1, <2>2, NextKeepsRoots
<1> QED  BY <1>1, <1>2, PTL DEF Spec, ImplementsWholeCalls, WC!Spec
===============================================================================
