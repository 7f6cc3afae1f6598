# TLA+ verification of btlib

btlib is a C library that keeps string keys with integer values in a B tree in
a file (the *index file*), with optional data records, duplicate keys, several
named trees (*roots*) per file and access by several processes.  This directory
holds TLA+ models of the library, TLC configurations that check them, and
proofs that TLAPS checks.  `PROJECT.json` lists components, runs, mutants, the
map from definitions to source lines, findings, hazards and theorems.

## 1. Inventory of the system

| Component | State | Operations | Hard behaviour |
|---|---|---|---|
| Index core (`bfndky binsky bdelky bdelk1 bupdky bsptbk bjnblk bjoin balblk balbk1 bdemte bleaf bmodky btstk bclrlf`) | blocks of the tree; `cntxt.lf` (last find: block, position, exact, key); `cntxt.stk` (path to it) | find, insert, delete, update; the last two also of the "current" key | splits on the way down, joins, balances and chains of demotions on the way up, failures half way, positions stale after blocks move |
| Block editing (`bputky bremky brepky bcpybk bsetbk bgtinf bstinf`) | one block | put, remove, replace, copy keys and links | off-by-one in the shifting of links |
| Block search (`bsrhbk`) | a block, lo, hi, md | binary search, access by position | three exits of the loop; the static result |
| Free list (`bgtfre bmkfre`, `bsuper`) | `super.sfreep snfree sblkmx` | take, free, write and read the superblock | blocks lost or used twice; a file that cannot grow |
| Block cache (`brdblk bwrblk bgtslt bsetbs btque btthresh`) | slots, busy marks, LRU queue, write counts | read, write, replace, wire | all slots busy; write errors; a slot replaced under an index |
| Lock and shared mode (`btlock bsemap`) | `lckcnt`, file lock, alarm | lock, unlock, nested | time-out race, lost unlock, stale cache and context |
| Navigation (`bnxtky bprvky btpos bnxtbk`) | `lf`, `stk` | next, previous, start, end | scan between inserts and deletes |
| Roots (`btcrtr btchgr btdelr`) | superroot (block 0), `scroot` | create, change, delete a root | several steps, each of which may fail |
| Duplicate keys (`btdupkey btdups`) | chains in ZDUP blocks, `lf.draddr` | add, step, update, delete | position in a chain that changes |
| Data records (`btdata`) | segments in data blocks | insert, update, select, delete | segment sizes, free space, list of data blocks |
| Contexts (`btinit btopn btcls btcrt bacini bacfre bnewap bvalap`) | table of open files | open, close, create | full table, close with pending writes |
| Errors (`bterr`) | first error of the call | | an error that hides another |
| Programs (`bt btcmd btr kcp bigt bigtdel`) | | interpreter, recovery, load tests | recovery scan of a damaged file |

An application calls the API; every call selects a context (`btact = b`), takes
the file lock when the file is shared, works on blocks through the cache, and
returns `btgerr()`, the first error recorded.  Between two calls the only
memory of a call is the context: `lf` and `stk`, which `bdelky(NULL)`,
`bupdky(NULL)`, `bnxtky` and `bprvky` use.

What makes the index core correct: it is a dictionary; its tree stays a
balanced search tree; no block is lost or is both free and in use; the stack is
the path to the last find; the current key is where the context says; a call
touches no key but its own; every call returns.  What makes the rest correct:

* navigation: from any place of the context the next and the previous key are
  the nearest ones, and a walk over the blocks meets each once;
* data records: what is read is what was written last, no byte belongs to two
  segments, and the blocks of a root can be found from its list;
* duplicate keys: a key has a sequence of values, its chain is linked both ways,
  and a remembered entry leads to its neighbours after others changed the chain;
* lock and roots: no two processes have blocks of the file in memory, every call
  works on the file the last one left, every block has one owner, and a call that
  has begun gives the lock back.

## 2. What is modelled

| Module | Models |
|---|---|
| `Blocks` | `struct bt_memrec` and the routines that edit one block, as operators |
| `BTree` | the index core of one root in exclusive write mode, duplicates off: API calls, loops, free list, stack, errors |
| `BTreeProps` | the properties that relate several blocks, and the refinement |
| `Index` | abstract specification: a dictionary with a current key, and moves between its keys |
| `Navigate` | extends `BTreeProps`: `bnxtky`, `bprvky`, `btpos`, and the walk of `bnxtbk` under `btkeys` and `btdelr` |
| `BlockSearch` | the loop of `bsrhbk` and the correction `bfndky` applies to its exit |
| `BlockCache` | slots, wiring, LRU queue, threshold, growth of the file, `btsync` |
| `Segments` | data and dup blocks: `insdat`, `deldat`, `mkdblk`, their lists, the free list, as operators on a store |
| `DataRecords`, `DataProps` | extends `Segments`: the data calls, a turn of a loop a step; their properties |
| `RecordStore` | abstract specification: a record for each key, calls that take effect at one instant |
| `DupKeys`, `DupProps` | extends `Segments`: chains of duplicates and the places processes remember in them; their properties |
| `MultiMap` | abstract specification: a sequence of values for each key |
| `Roots` | the superroot, the blocks of each root by kind and the free list; a call as an operator from a file to the files it may leave |
| `SharedFile`, `SharedProps` | extends `Roots`: processes, lock, alarm, nested counts, blocks in memory; their properties |
| `WholeCalls` | abstract specification: calls on the file one after the other |
| `MC...` | the instances that TLC checks |
| `BTreeProofs`, `BlockSearchProofs`, `BlockCacheProofs`, `SharedProofs` | the proofs about one module and those it extends |
| `TreeProofs`, `TreeTheorems` | the proofs about the shape of the tree of `BTree`: the operators; the steps and what follows |
| `SegmentProofs`, `DataProofs` | the proofs about `Segments`: what its operators do to a store; and about `DataRecords`, its refinement of `RecordStore` among them |

Composition: `DataRecords` and `DupKeys` share the block and free list code of
`Segments`, as the program does; `DataRecords` uses an index that behaves as
`Index` says and takes and gives back blocks of the same free list;
`SharedFile` runs the operators of `Roots` under the lock.

### State of BTree and the code

`blocks` is the file seen through the cache; `super` the superblock fields
`sblkmx`, `snfree`, `sfreep`, and the size limit of the file; `lf` and `stk` the
context (two `bpush`es, a block and a position, make one frame); `err` is
`btgerr()`, `out` the value returned.  `pc`, `op`, `cblk` and `tgt` are the
program counter and the locals that survive from one step to the next.

A call is a sequence of steps, because its loops are the hard part: each turn of
`bfndky` (`SearchBlock`, `SplitRoot`, `SplitChild`), each turn of `bleaf`
(`Descend`), the removal (`DeleteKey`, `ReplaceKey`), `bjnblk` (`JoinRight`,
`JoinLeft`, `NoJoin`), `balblk` (`BalanceRight`, `BalanceLeft`, `NoBalance`),
each turn of `bdemte` (`DemoteDone`, `DemoteRoot`, `Demote`, `DemoteFull`) and
the `bfndky` with which `bdelk1` renews the context (pc = "refind").

`spoiled` is a ghost: it is set when a demotion finds its sister full (finding
1) or a routine reports a broken structure.  The call under way runs to its end
as the code does; the model makes no further call on the damaged tree.

### State of BlockCache and the code

`slots` is `cntrl` and `memrec`, `lru` the queue through `lrunxt`, `disk` the
file, `super` and `smod` the superblock of the context.  `pc`, `req` and `vic`
say which of `brdblk`, `bgtslt`, `bgtfre` and `bwrsup` is at work, for what and
with which slot.  A request is one or more steps: a hit (`Hit`), or `Miss`, the
choice of a slot (`FreeSlot`, each turn of `bqhead` as `Rotate`, `Evict`), and
the read or the growth (`Fill`, `Extend`).  Each read and write may fail
(`FillFails`, `ExtendFails`, `SyncFails`, the second case of the others).

Of a content only this matters: is it the one last written to its block?  `lost`
is a ghost: which blocks were hit by a failure, and whether the call that met it
returned an error; `turned` and `fails` count.  The client is any sequence of
requests that leaves one slot unwired (`Wire`).  That the index core does so is
not shown: a split that finds no space leaves its block wired (`bsptbk.c:86`).
A read that fails in `bputky` makes the program store before its arrays
(`bputky.c:111`); the model changes nothing then.

### State of Navigate and the code

`Cursor` is the part of the context the loops of `bnxtky`, `bprvky` and
`bnxtbk` change; a turn of a loop is an operator on it (`NxtTurn`, `PrvTurn`,
`WalkTurn`).  The calls only read blocks, so each is one step.  A `bnxtky`
after a find in an empty root and an insert would read key -1 of the array; the
guard of `NavCall` keeps the client out of it.

### State of Segments, DataRecords and DupKeys and the code

A store `st` has the blocks (`type`, `free` = ZMISC, `nxt` = ZNXBLK, `prv` =
ZNBLKS, `first` = ZNKEYS, and the segments by offset), the heads ZNXBLK and
ZNXDUP of the root, and the free list.  `d`, `rem`, `base` and `tail` of
`DataRecords` are the locals of the loops; `lost` is a ghost: segments that an
insert without space, or an update that cuts a record to nothing behind its
last segment, leaves without an owner.

In `DupKeys` a call is one step, as it runs under the lock.  `lf` is the context
of each process; slots past the last key, and entries that were deleted, keep
what they held, since a remembered position or address may still lead there.
`place` is a ghost: where among all entries a process is, while no other process
has changed the file.

### State of SharedFile and the code

`owner` is the POSIX record lock, which belongs to a process; `disk` the file as
written; `mem` the blocks a process has in its slots; `pc`, `lckcnt`, `scroot`,
`shared` its context.  `Alarm` may go off before the lock is granted or just
after: `block` then returns FALSE with the lock taken and not counted.  The lock
and that state stay until the next `block`, whose request is granted at once, or
`btcls`.  `kept`, `orphan` and `astray` are ghosts.

A file of `Roots` says of each block what it is and for which root it was
taken, and of each root whether it has keys and where its list of data blocks
begins (`head`, ZNXBLK).  A tree block is "inuse"; a data block is "data" while
that list leads to it and "cut" once `deldat` has cleared ZNXBLK in front of it
(`btdata.c:746-748`, operator `Emptied`); "dup" blocks are on no list; a block
that a failed split of the root took (`bsptbk.c:59`) is "lost".  `RootFreed` is
the part of `btdelr` that frees blocks (lines 79-94): the data blocks of the
list, the tree, the root, and no other.  The dup, cut and lost blocks of the root
keep their type and have no root from then on (`of` = ZNULL).

The key calls and the data calls are sets of outcomes.  How many blocks a call
takes and gives back is a choice, within what the code allows: a find splits in
a tree that has keys, the root with two blocks or not at all (`Found`, `Stuck`);
a delete takes an entry off a chain, or its key out of the tree with any joins
and demotions that leave no single block under the root (`KeyGone`), and in
exclusive mode a find comes after it; `btins` stores the record before the key
and takes it back when the key is refused.

A call that leaves without `bulock` has an outcome that is `held`: `btpos(ZEND)`
of an empty root (`btpos.c:78`), `btkeys` (`butil.c:58`), and `btdel` and
`btrecs` of a key that is not found (`btdata.c:134`, `btdata.c:343`,
`btdata.c:450`).

### Abstractions

* Keys are integers with the order of `strcmp`; values are model elements.  A
  key longer than `ZKYLEN - 1` is stored truncated: `LongKey` are the stored
  keys that the client names by such a string, which matters where `bdelk1`
  compares the two.
* Slots past `nkeys` are cleared in `BTree` (the program leaves stale data there
  and does not read it; the positions used are bounded by `TypeOK`).
* Outside `BlockCache` reads and writes succeed and the cache is coherent
  (`BlockCache` says when).  A file that cannot grow is modelled everywhere:
  `Limits` are the sizes at which `bgtfre` starts to fail.
* The parent word of a tree block, never read by the index core, is left out.
* A byte of a record is a triple: for which key, in a record of which size and
  at which place it was written.  A deleted segment is cleared, as no routine
  reads it again.  The type checks of `bseldt`, `bupddt` and `bdeldt` are left
  out where `SpaceExact` shows that they cannot fail.
* In `DataRecords` a find that must split and cannot is left out, and so is
  read-only mode.
* In `DupKeys` the index is its root block.  A deleted entry is cleared once no
  process can reach it (`Tidy`).  Clients call `bdelky(NULL)` and `bupdky(NULL)`
  only at a place they know; nothing in the code asks for that.
* In `Roots` the data calls name their key: `btupd(NULL)` in shared mode gives
  back a lock it did not take.  The superroot is never split.  The failure
  of `bgtfre` inside `btcrtr` (-1, tested as 0) is left out, and `"$$super"` is
  not named by the client.  A crash of a process is not modelled: nothing in the
  code handles one.

## 3. Runs

| Run | Instance | Shows |
|---|---|---|
| `structure` | every call sequence, with moves; 4 keys a block, threshold 1, 7 keys, at most 5 blocks, size limits 2 to 5, one long key, one key with two values (293 thousand states) | `TypeOK`, `StackIsPath`, `FreeListSound`, `CursorExact`, `WalkComplete`, `LostOnlyWhenFull`, `NextIsNext`, `PrevIsPrevious`; `Implements`: BTree with the moves of Navigate refines `Index` |
| `deep` | trees of three levels; 3 keys a block, 14 keys (42 thousand states) | `NoUnderflow`, `SearchTree`, `Balanced`, `NoInternalError`, `OnlyItsKeyUnlessSpoiled`, `ScansComplete`, `CallsReturn` |
| `records` | two keys, one with records of 3 or 5 bytes and one with 0 or 5, blocks that hold 3 bytes of data, 3 blocks of which the tree may take one (330 thousand states) | `RecTypeOK`, `SpaceExact`, `ListsSound`, `ChainLostOnlyWithHead`, `DataCallsReturn`; `ImplementsRecords`: DataRecords refines `RecordStore` |
| `dups` | two processes, keys 2 and 4, at most 3 values in all, blocks of two entries, 1 or 2 of them (90 thousand states) | `DupTypeOK`, `ChainsSound`, `DupSpaceExact`, `MovesRight`; `ImplementsMultiMap`: DupKeys refines `MultiMap` |
| `shared` | two roots, locks nested twice, a strict client; two processes in a file of 3 blocks, one in a file of 5 with tree, data and dup blocks (164 thousand states) | `LockSound`, `RootsSound`, `CallsReturn`; `ImplementsWholeCalls`: SharedFile refines `WholeCalls` |
| `search` | every sorted block of up to 5 keys out of 6, every key | `BSTypeOK`, `SearchRight`, `SearchEnds` |
| `cache` | 3 slots, 2 to 4 blocks, threshold 1, one failure (1.6 million states) | `CacheTypeOK`, `Coherent`, `QueueSound`, `SuperKept`, `HeadFound`, `WiredStays` |
| `writethrough` | as `cache` | violation of `LossIsReported` (finding 3) |
| `demotion` | as `deep` | violation of `OnlyItsKey` (finding 1) |
| `nocurrent` | 3 keys, a client without a current key | violation of `UpdatesCurrentKey` (finding 2) |
| `rootnames` | as `shared`, a client that creates roots freely | violation of `NoDuplicateRoots` (finding 4) |
| `leftbehind` | as `shared` | violation of `NothingLeftBehind` (finding 5) |

Why the bounds are enough.  Five blocks and seven keys reach a root
with three leaves, with root splits, leaf splits, joins with either sister,
balances in both directions, freed blocks reused, the collapse of the root, and
each way for a split to find no space.  Odd and even block sizes split
differently (`Sp2`), hence 3 (`deep`) and 4 (`structure`); with 4 keys and
threshold 1 balances happen.  In `structure` one key, in the middle, may have
either of two values and the others have one (`Marked`): enough to tell its
entry from the others.  Demotions need three levels; with 3 keys a block that takes 14 keys.
All call sequences on them are too many, so the client of `MCDeep` loads the
keys in ascending or descending order, may look for any of them (a find splits
full blocks), deletes in any order down to `Fewest` keys, and may load the keys
at one end again.  In `deep` and `search` the client or the search stops, so
deadlock is not an error there; in the other runs it is checked.

`structure` and `deep` also move through the tree.  No walk takes more turns than
there are blocks and as many steps up again: `Turns`.

In `records` a record fills a block, needs two, or is empty, so that updates
keep, cut, extend and empty a record, with and without a block to extend it
into; the free list mixes data and tree blocks (`MaxTree` = 1).  Each segment
lost makes the file smaller; with one lost every call is still made (`MaxLost`).
The buffer of `btsel` is shorter than the longest record (`Space`).

In `dups` a dup block holds two entries.  With one block a chain of two fills
it, and an insert fails at its first or its second entry; two processes, each
with a place of its own, run in it, with values that are all the same
(`OneValue`).  With two blocks a chain crosses from one to the other, blocks are
freed and used again and values differ; there one process at a time works
(`Alone`).  Key 4 and the gaps around both keys give each way to miss a key.

In `shared` two processes work on the smaller file, which has two blocks for
roots and what they own: a root is deleted and its block is taken by another, or
by a tree; records and duplicates are not stored there (`Small`).  In the larger
file there are two blocks besides two roots, or three besides one, enough for
the list of data blocks to be cut, for a split of the root that gets two blocks
or only one, for joins that give them back, and for the other root to own blocks while one is
deleted.  One process has that file, for exclusive use, and makes one change before it saves
(`Large`): what the lock does is the same for either file.  Locks nest twice
(`MaxNest`); a third level would repeat the second.  Left out is a client that
goes on with a root another process deleted: a key call there changes a block
that is free or belongs to another root, and nothing after it is promised
(`astray`).

The cache has the three slots of the default build, so that a fourth block
forces a replacement; two of them can be wired.  A count of writes is compared
with zero and with the threshold only, hence `MaxWrites` = 2.  One failure, in
any place, is enough for each of the error paths, and for the growth that is
tried again after it failed; `Wirable` keeps the run short.

Fairness.  `CallsReturn` of `BTreeProps`, `DataCallsReturn` and `SearchEnds`
assume weak fairness of the steps of a call: the code is sequential, and in
exclusive mode no step waits for anything.  `CallsReturn` of `SharedProps`
assumes the same of each process: a process that runs goes on, and its alarm
ends a wait for the lock, so a call returns even if the owner keeps the lock for
ever.  That a waiting process is granted the lock is not assumed, and not true.
Nothing is assumed of the client.  That `bqhead` ends is stated without
fairness: `HeadFound` says that it never comes back to a slot it has moved.

Mutants: each property has a faulty variant of a mapped definition (comments
"Faulty variant") under which TLC finds it violated.

## 4. Findings

1. **A delete can lose another key** (`bdemte.c:105`, run `demotion`).  `kep`
   points to the static `keyent` of `bsrhbk`.  When the sister that receives the
   demoted key is full, `bsptbk` overwrites that static with its middle key:
   the middle key is stored twice and the demoted key is gone.
2. **`bupdky(NULL)` without a current key** (`bupdky.c:57`, run `nocurrent`).
   After a find that failed, it changes the value of a neighbouring key and
   returns zero; `bdelky(NULL)` returns `QDELEX` in that state.

3. **A failed write-through is silent** (`bputky.c:115`, run `writethrough`).
   `bputky`, `bremky` and the data routines ignore the result of `bwrblk`, which
   clears the count of writes also when the write failed: the block counts as
   saved, is dropped later, and no call returns an error.

4. **A root can be created twice** (`binsky.c:59`, run `rootnames`).  `btcrtr`
   inserts the name into the superroot with `binsky`, which reads `ZMISC` of the
   root as the flag that allows duplicates.  In the superblock that word is the
   number of free blocks, as `bwrsup` wrote it.  When it was not zero, a name that
   exists is inserted again, its first entry is changed to the new block, and
   the old root with its keys is lost; `btcrtr` returns zero.

5. **`btdelr` does not return all blocks of a root** (`btdelr.c:80`, run
   `leftbehind`).  `doc/btlib.adoc:583` says "All blocks owned by the target root
   are deleted, and returned to the free list", and the comment `btdelr.c:4-5`
   "delete root name from super root, and all the blocks belonging to the
   root".  The code frees the data blocks it reaches from ZNXBLK, the tree blocks
   that `bnxtbk` reaches, and the root.  It leaves behind:
   the dup blocks, which it does not look for; the data blocks behind an active
   block that `deldat` freed, since that clears ZNXBLK (`btdata.c:746-748`); and
   a block taken by a split of the root that got no second one
   (`bsptbk.c:59`).  No root owns them any more and the free list does not have
   them: they are lost to the file.  What `btdelr` does promise, that it frees
   nothing twice and no block of another root, is `RootsSound`.

Findings 1, 2, 4 and 5 were also observed in the compiled library.

Other behaviour the models follow and a maintainer should know of:

* `btpos(ZEND)` of an empty root and `btkeys` return with the lock taken
  (`btpos.c:78`, `butil.c:58`): later calls nest under it, and no other process gets in
  before `btunlock` or `btcls`.
* An alarm just after the grant leaves the process with a lock it does not count
  (`bsemap.c:84`) until its next call or `btcls`.
* `btopn` for exclusive use that fails after `block` keeps the lock, with a file
  descriptor nobody can close (`btopn.c:82`).
* `btdupkey` that stores the first entry of a new chain and has no space for the
  second leaves the first without an owner.
* `deldat` leaves the root without an active block when that block is freed,
  although the list of data blocks is kept "to allow blocks to be returned to
  the free list, without destroying the data block chain for this root"
  (`btdata.c:686-689`).  `ChainLostOnlyWithHead` says that no block is lost from
  the list in any other way; what follows for `btdelr` is finding 5.

## 5. Proofs

From the assumptions on the constants; a theorem that needs more says so as its
hypothesis, and those are explained here.  For the index core the assumptions are
`BlockConstants`, `KeyConstants` and `CallConstants`: `MXKEY > THRES`, which
`inc/bc.h` enforces at build time, and constants of the right kind; so the
results hold for every block size, threshold, file size, key set, size limit
and client.

* `BTreeProofs`, first part: each block editing operator yields a block, with the
  number of keys it should have; where a key is after `PutKey`; `Gap` is in range.
* `BlockSearchProofs`: `SearchTypeOK` and `SearchCorrect`.  The invariant is that
  keys below `lo` are smaller and keys above `hi` larger than the key, and where
  `md` stands relative to both after each of the three exits.  This justifies
  `Gap` and `Hit` as one step in `BTree`.
* `BTreeProofs`, second part: theorem `Inductive` proves `IInv`, from which follow
  `TypeCorrect`, `CursorIsExact` and `StackNeverUnderflows`.

`TypeOK` is not inductive: it says that a position is in the array of *some*
block, while a step needs it in *this* block, and that the block exists.
`IInv` adds

* `RootIsRoot`: block `ROOT` keeps its type, and no other tree block has it;
  `bdelk1` and `bdemte` decide by the type whether there is a parent to pull;
* `StackShape`: the first frame is the empty one, all others name blocks;
* `RoutineState`: what each routine may assume of `lf`, `cblk`, `tgt` and the
  stack when it starts;
* `CallState`: which call may be at which routine;
* `CursorExact`, with what makes it survive: a find sets it from `Hit`, an
  insert clears it, a delete renews it or fails before it moves a key.

### The shape of the tree

`TreeTheorems` proves that `TInv` is inductive with `IInv` (`TreeInductive`), and
draws the conclusions: `ParentsAreParents` (`StackIsPath`), `FreeBlocksAreFree`
(`FreeListSound`) and `KeysAreFound` (`SearchTree`).

A proof by induction over the tree is not available, and not needed.  `TInv` says
that there is a witness `w` that gives each block of the tree a height and two
fences (`Tree`):

* the keys of a block are in order and between its fences (`NodeOK`);
* a block of height 0 has no links; a link of any other goes to a block one
  lower, whose fences are the keys left and right of the link, or a fence of the
  parent at either end;
* blocks of one height do not overlap, and a key or fence of a higher block is
  not strictly inside a lower one (`Apart`).

All this is about a block and its children.  A step writes at most four blocks
and says what becomes of their heights and fences (`SplitWitness`,
`MergeWitness`, `RootWitness`, `MoveWitness`, `ShrinkWitness`), and the rest of
the tree does not notice; that a block has one parent (`OneParent`) follows from
the fences.  `TInv` adds that stack and last find lead from the root link by link
(`PathOK`); that the blocks a find has passed span its key and are not full
(`FindOK`: this is why the parent of a split has room for the separator, and why
a split under it may be followed by another look at it); what binsky, bleaf and
bdemte may assume (`InsertOK`, `DescendOK`, `DemoteOK`); that only a block about
to be demoted is an interior block without a key (`InteriorOK`); and that there
is a sequence of the free blocks, each once, that the links follow (`FileOK`).

`SearchTree`, `FreeListSound` and `Balanced` are stated with recursive functions
(`Home`, `FreeList`, `Level`).  That they compute what they should follows from the
least number principle of `WellFoundedInduction` (`SetInduction`,
`IterationExists` in `TreeTheorems`), on sets of numbers.

The hypotheses:

* `KeysBounded`: some integer is below and one above all keys.  The keys of the
  model are integers for their order; the stored keys are strings of at most
  `ZKYLEN - 1` bytes, a finite set.
* `RoomToSplit`: `MXKEY >= 3`.  A split of a block of two keys leaves one half
  empty.
* `Roomy`, for `LeavesInductive`, `TreeIsBalanced` (`Balanced`) and
  `NothingBreaks`: `THRES < MXKEY - MXKEY \div 2`, or three keys and threshold
  0.  When a leaf has lost its last key and neither sister can take it in with
  their separator, `balblk` must find a sister from which it can take keys.
  With less room a leaf may stay empty, and a later deletion that wants the last
  key of that leaf fails with `QDELRP`: TLC finds both in the instance of `deep`
  with threshold 1, and the empty leaf with four keys and threshold 3.  The test in `bc.h:176` asks only
  for `ZMXKEY > ZTHRES`, so with `ZTHRES` = 3 it accepts block sizes of four to
  six keys that are not `Roomy`; the two sizes `bc.h` defines (blocks of 1024 and
  8192 bytes, 17 keys or more) are.

The invariant of the second part, `LInv`, is that no leaf below the root is
without a key but the one the deletion under way is about to deal with, and that
`balblk` is reached only when neither join was possible.

`NothingBreaks` is an action property, `SoundUntilSpoiled`: no step from a sound
structure returns `QBLKFL`, `QJNSE`, `QDEMSE` or `QDELRP`, and only a demotion
into a full sister (`DemoteFull`, finding 1) spoils it.  All of `TInv` and `LInv`
is about states in which `spoiled` is not set: what finding 1 leaves of the tree
keeps no order of keys.  The part of `NoInternalError` about the rest of such a
call is checked by TLC only.

### The block cache

* `BlockCacheProofs`: theorem `CacheInductive`, from which follow
  `CacheTypeCorrect` and `WiredBlocksStay`, for every number of slots, blocks
  and failures.  Its invariant adds to the types that the tail and no other slot
  ends the queue (so that `bqmove` of the head leaves a head), that a slot
  without a block is not wired, and that the slot `bgtslt` has returned is not
  wired while it is filled.

* The second part of `BlockCacheProofs`: theorem `CoherenceInductive`, from which follow
  `CacheIsAStore` (`Coherent`), `SuperblockKept`, `HeadIsFound` and
  `QueueIsWhole`.  The difficulty is that two slots can have the same block, after
  a growth that failed.  `brdblk` and `bwrblk` find the first of them; when that
  one is replaced, the next takes its part, and must be right by then.  The
  invariant `CInv` says that there is an order `p` of the slots, that of the
  queue, in which a copy that is out of date is nearer to the head than the
  first copy (`Good`), so that `bgtslt` has replaced it before.  It adds that of
  the copies only the first is wired (`CopiesOK`), that a slot is left to give
  up (`Room`), what `bgtslt` has passed while it turns the queue (`TurnedOK`),
  and what is true of the request in hand and of the file after `btsync`
  (`AskedOK`, `SyncedOK`).  `QueueIsWhole` follows the links by induction on the
  number of them.

### Processes

* `SharedProofs`: theorem `LockCorrect`, that `LockSound` holds for any number
  of processes, any depth of nesting and any contents of the file
  (`SharedConstants`).  That no two processes have blocks in memory
  (`OneAtATime`) is not inductive.  The invariant `LockInv` adds why: blocks are in
  memory only while a lock is counted (`CacheIsCounted`), a lock is counted only
  by the owner (`CountedIsOwned`), and at each place of a call the count is what
  `block` and `bulock` expect (`WorkIsCounted`).  An alarm after the grant breaks
  none of them: the lock stays, uncounted, and nothing is in memory.  What the
  operators of `Roots` do to a file does not matter and is not expanded.

* The second part of `SharedProofs`: theorems `RootsCorrect` (`RootsSound`) and `CallsAreWhole`
  (`ImplementsWholeCalls`), for any number of processes, names and blocks, both
  under the hypothesis `StrictClient`: no client creates a root whose name is in
  use.  The hypothesis is needed: run `rootnames` drops it and finds two roots
  with one name.  `RInv` adds to `LockInv` what a call leaves of the file
  (`FileInv`: a name leads to a root of its own; the free list has each free
  block once and no other), whose the blocks are and that the list of each root
  begins with one of its data blocks (`Live`: this is why `btdelr` frees a block
  of its root and of no other, and none that is free), and why the calls cannot be told from calls made one
  after the other: blocks are in memory exactly while a lock is counted, and
  when the work of a call begins they are equal to those on disk (`MemOK`).  For
  the refinement the effects of a call are one step of `WholeCalls` and all else
  (lock, alarm, nested counts, write back) is a stutter.

  A key call or a data call is many steps (splits, duplicates, joins, blocks of
  data), each an operator of `Roots`.  `KeepsRoots` is what each of them keeps,
  and `TwoSteps` that two in a row keep it: the roots stay roots and the names
  lead to them, the free list stays right, and if the current root is a root,
  the blocks keep their owners.  A lemma per operator (`TakeKeepsRoots` to
  `RecordGoneKeeps`) adds up to `EffectsSound`.  `RootsSound` says what that makes
  of `btdelr` and no more: dup, cut and lost blocks of a deleted root stay behind
  (finding 5), and after a call on a deleted root (`astray`) only the type of the
  file remains.

### Data records

`SegmentProofs` is about the operators of `Segments` on any store, of data or of
dup blocks: how `bgtfre`, `bmkfre`, `mkdblk`, `insdat` and `deldat` keep

* `ListsOK`: the blocks of a list are linked both ways, its head is at the front,
  the free list has the free blocks, as many as the superblock counts, and does
  not lead back into itself, and the blocks past `blkmx` were never used;
* `SpaceOK`: in each block the segments in use lie one behind the other without
  overlap in front of `first`, and `free` is what they leave of `CAP`.

A segment is in use when it is not `NoSeg`, so both speak of a store alone.
Addresses are products and sums (`mkdraddr`), so the module begins with quotients
and remainders; and it shows what the recursive functions `Trail` (for the lists
and the chains) and `FoldSet` (for sums of sizes) compute: `Trail` is the least
set that has its start and is closed under links, the sum of a set with one more
member is one size more.  These need induction on the naturals, got from the
least number principle.

`DataProofs` has the inductive invariant `Inv` (theorem `RecordsInvariant`), for
all sizes of blocks, files, keys and records.  Besides types (`TypeInv`), lists and
space (`StoreInv`) it says whose the segments are (`OwnInv`):

* `Chains`: a link leads to a segment in use or ends the chain, and no chain leads
  back to its first segment;
* `Cover`: each segment in use belongs to exactly one record, or to the call under
  way, or is lost.  Those of the call are what `binsdt` has stored so far, what
  `bdeldt` has still to delete, and behind `bupddt` what it has cut off.

`CallInv` and `PosInv` say what a routine may assume: which call runs it, that
`bupddt` has `base + rem` bytes of the record before it, and that the segment to
which an update will link the new ones ends its chain.  A data block has a
segment in use except between `mkdblk` and the `insdat` that follows it (`Fresh`).
From `Inv` follow `RecordsTyped` (`RecTypeOK`), `RecordListsSound` (`ListsSound`),
`RecordSpaceExact` (`SpaceExact`) and the action property `RecordChainKept`
(`ChainLostOnlyWithHead`).

`RecordsImplemented` is the refinement `ImplementsRecords`: every step of
`DataRecords` is one of `RecordStore` or a stutter.  Ownership alone does not give
it, so to `Inv` comes `Cont`, what the bytes are while a call is under way:

* `InsCont`: what `binsdt` has stored so far is the end of the record, from
  `base + rem` on, as it stores the last part first;
* `UpdCont`: behind `bupddt` the chain reads as the first `base` bytes of the new
  record and then what is left of the old one, and once the rest is cut off or
  linked as the new record, or as a front of it if the blocks ran out;
* `ReadCont`: what `bseldt` has copied and what the chain has from `d` on make up the
  record, and `brecsz` has counted what it passed;
* `OldInv`, `ErrInv`: the record that a call began with, and which error leads to
  which loop.

The bytes of a chain (`BytesAt`) are a recursive function with a bound on the length
of the chain.  `BytesStep` shows that the bound is never met, since a chain has no
more segments than there are addresses; `BytesFrame` that a chain of unchanged
segments reads the same; `BytesFrom` that a segment changed in a chain leaves the
bytes in front of it.  With `Cover`, by which a segment a call writes is in no other
record, these give for each step the records of all keys.  Each step has a lemma
(`InsPartSim`, `UpdSegSim`, ...) that says to which step of `RecordStore` it maps.

Of the constants they assume `SegmentConstants` (an area of a block has room for one
smallest segment, and is smaller than the block) and `RecordConstants`, which
says of the markers `NoData` and `NoRec` that they are no sequences of bytes.

### What was checked before, and what is only checked

In `BTreeProofs` each action has a lemma per conjunct it can disturb; in
`TreeTheorems` and `DataProofs` it has one lemma.  TLC checked the inductive
invariants before they were proved: `IInv` on the instances of `structure` and
`deep`, `CInv` on that of `cache`, `RInv` on that of `shared`, `Inv` and the parts of `Cont` of `DataProofs` on that of `records`.  A
witness of `TInv` is out of its reach; what `TInv` implies is checked by the runs.

Only model-checked:

* liveness (`CallsReturn`, `DataCallsReturn`, `SearchEnds`), which is out of the
  prover's reach;
* what a find, an insert or a delete does to the set of all keys, the refinement
  `Implements` and the walks of `Navigate` (`WalkComplete`, `NextIsNext`,
  `PrevIsPrevious`, `ScansComplete`): they need that the tree has every block in
  use, which `TInv` does not say (a failed split of the root loses one);
* `LostOnlyWhenFull`, for the same reason, and what is left after finding 1:
  `OnlyItsKeyUnlessSpoiled` and `NoInternalError` in a spoiled call;
* the properties of `DupKeys`, with the refinement `ImplementsMultiMap`.

## 6. Not modelled, and what could come next

* A crash of a process, under the lock or not: the code has no log and no
  repair other than the program `btr`, so what a crash leaves is not specified
  by anything in the library.
* The table of contexts with several files (`bnewap`, `bvalap`), `btcrt` with
  keys for the superroot, and a `btcrt` of a file that is in use: it truncates
  the file before it asks for the lock.
* The index core as client of `BlockCache` (the slots that `bjoin` and `bsptbk`
  wire), and reads and writes that fail above the cache, those of `btsync`
  under the lock among them.
* In shared mode a tree of several blocks under a remembered position; the data
  calls with a NULL key, and their steps under the lock (`Roots` has the blocks
  and the locks they leave).
* The bound of the stack (`btstk.c:58`): 20 levels need more keys than a model
  can hold.
* Read-only mode, in which a find splits nothing.
* The recovery scan of `btr`: it reads a damaged file and calls the API on
  another; its decisions depend on contents that the models leave out.
* Dumps, debugging output, message texts, and the terminal and file I/O of the
  programs.

Next theorems: that the blocks in use and those a search can reach are the same but for
those of a failed split (`LostOnlyWhenFull`), and from it the entries of the
tree under each step (`Implements`); `ChainsSound` of `DupProps`, for which
`SegmentProofs` has the lemmas about lists and space, and then the values of each
key (`ImplementsMultiMap`), on the pattern of `Cont`.
