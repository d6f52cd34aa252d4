# Verification of ouichefs and the LKP/PNL labs

`src/project/projet_PNL` is *ouiche_fs*, a small Linux file system extended with
insertion on write, partly filled blocks, an ioctl that describes a file and an
ioctl that defragments one. `src/labs` are kernel modules; the ones with a real
protocol are the task monitor of lab 6 and the copy of the kernel's cache of
names that lab 7 changes and builds. This directory holds TLA+ models of these,
TLC configurations that check them and TLAPS proofs.
Paths below are relative to `src/project/projet_PNL` unless they start with
`src/`; `dcache` stands for `src/labs/7/task-1/dcache-export.c` and `task_monitor`
for `src/labs/6/harena/task_monitor.c`.

## 1. Inventory

| Component | State | Operations | Interacts with |
|---|---|---|---|
| words of an index block (`block.c`, `ouichefs.h`) | 32-bit word: number of a block (20 bits), bytes used in it (12 bits) | get/set of both fields | everything that reads an index |
| bitmaps (`bitmap.h`) | `ifree_bitmap`, `bfree_bitmap`, `nr_free_inodes`, `nr_free_blocks` in memory | `get_free_inode/block`, `put_inode/block`; no lock | called by create, write, unlink, open, defrag, under the lock of *one* inode |
| regular files (`file.c`) | `i_size`, `i_blocks`, index block, data blocks | open (O_TRUNC), read, write (insert), page-cache functions | bitmap, index words; descriptor position |
| file information (`fileinfo.c`) | none | ioctl: used, partly filled blocks, wasted bytes | index words |
| defragmentation (`defrag.c`) | the same file, loop variables | packing, then shift to the left | bitmap (shared with other files), holds the inode lock |
| inodes (`inode.c`) | directory entries, inode cache, link counts | lookup, create, mkdir, unlink, rmdir, rename | bitmaps, directory blocks |
| directories (`dir.c`) | array of 128 entries without gaps | iterate | create, unlink, rename |
| superblock (`super.c`, `fs.c`) | superblock, inode store, bitmaps on disk | fill_super, write_inode, sync_fs, put_super, statfs | reads what mkfs wrote, writes what the others changed |
| mkfs (`mkfs/mkfs-ouichefs.c`) | disk image | writes superblock, inode store, bitmaps, root | initial state of all the above |
| task monitor (`task_monitor`) | list of monitors with their samples, mutex, thread, shrinker | sysfs start/stop, debugfs add/remove/read, sampling thread, shrink, module init and exit | the scheduler's tasks, the shrinker core, seq_file |
| cache of names (`dcache`) | entries with count, parent, name, inode, flags; hash chains; entries in lookup; LRU and dispose lists; `rename_lock`, `i_dir_seq`, `d_seq`; names in storage of their own | get, put, kill, shrink, unmount; parallel lookup, add, splice, alias, move, exchange, delete; mount, invalidate; walks without locks | file systems (answers to lookups), mounts, memory pressure, RCU |
| task monitor, lab 5 (`src/labs/5/harena/task4`, `src/labs/5/task-4`) | one thread, one pid | sysfs start/stop, ioctl, exit | kthread life cycle |
| the rest | lab 4 modules, lab 7 exercises, the unchanged `dcache-original.c`, configurations, scripts, archives and a submitted copy (`src/project/rendu`) | | |

What makes them hard, and what makes them correct:

* **bitmap** - the three steps find, clear, count of an allocation interleave
  with those of other threads. Correct: a block has one owner, none is lost, the
  counter equals the bitmap.
* **files** - a write shifts words in place, allocates, splits a block, copies
  several chunks, and accounts sizes in three places (word, `i_blocks`, `i_size`).
  Any of these can fail half way. Correct: insertion into a sequence of bytes, no
  shared block, no byte of another file touched, no buffer overrun, no leak.
* **defragmentation** - many iterations while other files allocate. Correct: same
  bytes, full blocks, ends.
* **directories** - entries without gaps, link counts, a cache of names that
  create trusts, listings in several calls.
* **superblock** - counters and bitmaps, inodes and buffers are three copies that
  reach the device at different times, one block at a time. Correct: what a sync
  saved survives a crash, and what is mounted again agrees with itself.
* **task monitor** - one list, one mutex that some of the code does not take,
  initialisation and exit in the wrong order. Correct: the samples kept are the
  newest, a reading is complete, a stop ends.
* **cache of names** - reference counts that drop without a lock, two parties that
  decide who frees, five kinds of lookups that race with moves. Correct: nothing
  used after it is freed, nothing forgotten, one entry for a name, one for a
  directory, no loops, mounts and invalidations exclude each other, a lookup says
  "absent" only of what was absent.

`PROJECT.json` lists every component with its status and every hazard at its line.

## 2. Plan

The most important first; all of it is in place unless it says otherwise.

1. `BlockEntry` - words; `OuicheFile` - files and bitmap; `FileStore` - what files
   promise; `OuicheFile` refines it.
2. `OuicheDefrag` - extends `OuicheFile` with defragmentation.
3. `BlockAlloc` - bitmap functions instruction by instruction.
4. `OuicheDir` - entries, inode numbers, link counts, the cache of names and
   listings; `Namespace` - the tree of names it implements.
5. `OuicheSuper` - the image beside the memory, the sync block by block, crash and
   remount, the layout and counters of mkfs.
6. `TaskMonitor` - lab 6.
7. `DentryRefs`, `DentryTree`, `DentryLookup` - lab 7's cache of names: the life of an
   entry, the tree of entries, the walks without locks.
8. `OuicheFileProofs`, `BlockAllocProofs`, `OuicheDirProofs`, `OuicheSuperProofs`,
   `TaskMonitorProofs`, `DentryRefsProofs`, `DentryTreeProofs`, `DentryLookupProofs` - the
   results of section 6.

Next:

9. Descriptors in `OuicheFile`: unlink while open, the words under O_TRUNC beside write.
10. Words of the index in `OuicheSuper`, for the index block that write never
    marks dirty (`file.c:786`).

## 3. Modules and how they correspond to the code

| Module | Models | Composition |
|---|---|---|
| `BlockEntry` | `block.c` | |
| `OuicheFile` | `bitmap.h`, `file.c`, create and unlink of `inode.c` | EXTENDS `BlockEntry`; instance `Store` of `FileStore` |
| `FileStore` | the contract of a file for programs (abstract) | |
| `OuicheDefrag` | `defrag.c` | EXTENDS `OuicheFile` |
| `BlockAlloc` | `bitmap.h`, one action per memory access | on its own |
| `OuicheDir` | `inode.c`, `dir.c`, the inode bitmap of `bitmap.h` | on its own; instance `Tree` of `Namespace` |
| `Namespace` | the contract of directories for programs (abstract) | |
| `OuicheSuper` | `super.c`, `mkfs/mkfs-ouichefs.c`, iget, create and unlink of `inode.c` | on its own |
| `TaskMonitor` | `task_monitor` | on its own |
| `DentryRefs` | `dcache`: counts, lists, killing | on its own |
| `DentryTree` | `dcache`: names, parents, aliases, mounts | on its own |
| `DentryLookup` | `dcache`: walks without locks beside moves | on its own |
| `OuicheFileProofs`, `BlockAllocProofs`, `OuicheDirProofs`, `OuicheSuperProofs`, `TaskMonitorProofs`, `DentryRefsProofs`, `DentryTreeProofs`, `DentryLookupProofs` | theorems | EXTEND the module they are about |
| `MCOuicheFile`, `MCStore`, `MCDefrag`, `MCAlloc`, `MCDir`, `MCSuper`, `MCTaskMonitor`, `MCDentry`, `MCTree`, `MCLookup` | constants of the runs | EXTEND the module they instantiate |

**OuicheFile.** `free` is the set of bits set in `sbi->bfree_bitmap`, `nrFree` is
`sbi->nr_free_blocks`, `inode[f]` the fields of the inode, `index[f]` the words of
its index block, `data[b]` the bytes of block `b`, `ret` the result of the last
call. `corrupt` says that a call has used memory outside its buffers; what
the kernel does then is not defined, so no action follows it (that is why
deadlock is not checked in these runs). What such a call does up to that access is
modelled: `OpenOverrun` frees and clears all words of a full index, `IndexOverrun`,
`SplitOverrun` and `CopyOverrun` are a write that reaches the end of the index in its
allocation, has a negative length in its split, or has one chunk too long in its
last copy. `UnlinkOverrun` and `FileInfoOverrun` change nothing before. A call of read, write or
unlink is one action, because read and write hold the inode lock and unlink that of the
directory and of the file. An open with O_TRUNC holds no lock and is one action all
the same: its steps beside those of a write are in `BlockAlloc`. The body of `ouichefs_write` is spread over operators in
the order of the code: `BlockJump`, `ByteJump` (where), `NrToAllocate`,
`WriteErrno` (early returns), `Shifted`, `Allocated`, `SplitIndex`, `SplitData`,
`CopyIndex`, `CopyData` (what). `Plans` is the set with the plan of a write that
passes the early returns, or the empty set; a plan never leaves `Plan`.
`WriteAllocFails`, `WriteSplitFails` and `WriteCopyFails` are the ways a write
stops half way, which the code does not undo.

*Supported uses.* The insertion algorithm is right on a domain smaller than what
the early returns let through. `Supported` states it: no truncation of the number
of blocks, one block only into a one-block file, an empty file is written at its
beginning, no gap larger than the last block. `SupportedNext` also leaves out
O_TRUNC. Under `SupportedSpec` the file implements `FileStore`; under `Spec`,
which has no such restriction, the safety of the bitmap and of other files still
holds, and `InBounds` does not (section 5).

*Assumptions taken.* `block_jump` and `byte_jump` are read without having been
assigned when the file has no block; the kernel of the project is configured
with `CONFIG_INIT_STACK_ALL_ZERO` (`src/labs/2/ressources/config-lkp:4476`), so they
are 0. A descriptor is closed before its file is unlinked. Writes of length 0 and
reference counts of buffers are not modelled. The page cache is not
involved: `read` and `write` of the file system work on buffers directly.

**OuicheDefrag.** One iteration of each loop is one action, named for what the
iteration does: `PackSkip`, `PackEnter`, `MergeEmpty`, `MergeWhole`, `MergePart`,
`MergeStarved` (the unchecked `get_free_block`), `MergeEnd`, `PackEnd`, then
`ShiftSkip`, `ShiftMove`, `ShiftGiveUp`, `ShiftOverrun`, `ShiftEnd`. Supported
calls on other files come between any two steps. `before` is a history variable.

**BlockAlloc.** `find_first_bit`, the load and the store of the bitmap word, the
load and the store of the counter are steps of their own; `owner` holds the inode
locks, `used` the blocks that each file names, `bare` those of them whose word has size
0. A bitmap word holds `WordBits` bits. `LockedSpec` has the calls of write, unlink and defrag,
which hold the lock of their inode; `Spec` has also the opens with O_TRUNC (`OpenPut`,
`OpenClear`), which do not. They give back bare blocks only, as `put_block` refuses words
with a size; the file's bytes lie in blocks that it had at first.

**OuicheDir.** `files[d]` is the array of entries in the block of directory `d`,
`ifree` and `nrFreeInodes` the bitmap and the counter, `inode[i]` mode and link
count, `reader[r]` an open descriptor with its position (`ctx->pos` without the
dots) and, as a history, the entries it still owes to the user. Three parts stand
for the VFS, whose code is not in the repository: `dentry` is its cache of
names (`Negative`: known to be absent), `dead` the cached inodes it has flagged
`S_DEAD`, and `Usable`, `Renames`, `Under` the checks it makes before it calls an
operation. They are external in the map. `Forget` and `Evict` are memory pressure on the
two caches, at any time. An operation is one action, because the VFS holds the
locks of the directories involved; `Iterate` is one call of a listing.
`Create` is `ouichefs_create` with `ouichefs_new_inode` and also mkdir, `Remove` is
`ouichefs_unlink`, used by `Unlink` and `Rmdir`. `RenameOverrun` is a rename that
leaves the block: out of a full directory, or of a name that is not found.
`Namespace` has none of this: a function from names to inodes, and the set
of directories.

**OuicheSuper.** `disk` is the device, `buf` and `dirty` its buffers, `sbi` what
`fill_super` keeps in memory (the two bitmaps and the two counters), `inode` and
`idirty` the inode cache. Blocks are records named for what they hold. `Image` is
what `main` of mkfs writes, block after block (`MkfsWrite`); `Mount` is `fill_super`,
which compares the magic number only, so that an image whose writing stopped after
its first block, the superblock, is mounted as well (and then left alone).
`Lookup`, `Create` and `Unlink` are the parts of `inode.c` that change counters,
bitmaps and inodes. A sync is `SyncBegin`, then `SyncSuper`, `SyncIfree` and
`SyncBfree` for each block, the inodes, and the same again with `wait`, as
`sync_filesystem` does; operations, the kernel's write-back (`FlushInode`,
`FlushBuffer`), the inode shrinker (`ReclaimInode`), a block that cannot be read
(`SyncFails`, `FlushInodeFails`) and a crash come between any two. An error of
`write_inode` is returned to nobody who tries again, and an unmount goes on after an
error of `sync_fs`; both lose what is in memory, and `torn` records that.
`synced` is a history variable: what memory held when a whole sync ended, as long
as nothing has changed it.

**TaskMonitor.** A monitor has one reference, so the function that puts it frees
it. The mutex is held from `LockThread` to `UnlockThread` (a sample is a step of its
own, as the writers do not respect the mutex) and from `SeqStart` to `SeqStop`. A
write to the debugfs file is `Search`, under the mutex, and `Take` or `Add`, after
it. `ShrinkCount` takes no mutex, `ShrinkScan` only tries it. `Sample` is `save_sample`
for a process that lives. Where the code uses memory that is not there - a monitor
that another writer has freed (`TakeFreed`, `SampleFreed`, `SeqShowNothing`), a mutex
that is not there yet or any more (`LockNothing`, `TooEarly`, `ShrinkNothing`), a
thread that is not there (`StopForModuleGone`, `StoreStopGone`, `ExitLeaves`) - the
action sets `broken`, and nothing is claimed after it. All of these steps happen in
the run: the order in `tm_init` and `tm_exit` and the put outside the mutex
(`task_monitor:207`) are real weaknesses of the module, about which no comment
says the contrary.

**The cache of names.** One file of 3400 lines is modelled from three sides, each
with the state its questions need. `DentryRefs` has no names; `DentryTree` has no
counts (an entry that nobody holds may be forgotten at any time); `DentryLookup`
has neither the tree nor the counts, but chains, sequences and the storage of
names.

*DentryRefs.* An entry has its count (`-1`: dead), its parent, hashed, inode, the
list it is on (`lru`: none, LRU, shrink) and `DCACHE_MAY_FREE`; a thread its place in
`dput`, `dentry_kill`, `shrink_dentry_list`, `prune_dcache_sb`, `d_prune_aliases`,
`shrink_dcache_parent` or the unmount, its dispose list and its references. There is no variable
for `d_lock`: the code between the taking of a free lock and its release is one
step, and nested locks taken without a read in between are taken in one step (what
others do while the thread waits for the second lock they could have done before it
took the first). Where the code gives a lock up or fails a trylock there are two
steps. Only the lock of an inode is held across steps (`i_lock`). Unmount is one
thread's, since `s_umount` keeps others out.

*DentryTree.* `d_alloc_parallel` is `Lookup`, `Found`, `NotFound`, `Chain` and `Waited`; the
file system answers with `FsError`, `AddStart`/`AddEnd` (`__d_add`, in two steps because
the entry leaves the chain of entries in lookup before it is hashed), `SpliceFinds`
with `SpliceFails` or `MoveStart`/`MoveEnd` (`d_splice_alias`) and `ExactAlias`.
`Obtain`/`InstantiateAnon` are `d_obtain_alias` and `d_obtain_root`. `Delete`, `Rename` and
`Exchange` are one step each: their callers hold the directories' locks
exclusively. `Mount`, `MountUp`, `MountEnd` go up the tree under `rename_lock`;
`Invalidate`, `Shrink`, `WalkStart`, `Visit`, `Ascend`, `Detach` are `d_invalidate` with
`d_walk`, which compares the sequence of `rename_lock` at first and takes the lock
when it has changed. Counters are modelled by what is asked of them: `fresh` (has
`i_dir_seq` changed since I read it?) and `still` (has `rename_lock`?). Inodes are
directories, the only ones that splice and have one alias.

*DentryLookup.* A step of a move is one store that others may see, a step of a walk one or two loads: an entry is taken out of
its chain, gets its parent, its name, its place in the other chain, in the order of
`__d_move`, with an odd `d_seq` from the first to the last. A walk that stands on an
entry goes on along the pointer that the entry keeps. Three reductions keep it
finite and small: memory is freed as soon as RCU lets it, the names of a chain have
one hash value (so that a walk compares them all), and one walker meets one mover
- walks do not see each other, and movers hold `rename_lock`.

**Slips.** A definition whose comment begins with "Slip" is a plausible mistake
(a dropped test, a wrong order, an off-by-one). No action uses it. With the slip
in the place of the definition that follows it, TLC finds the property that
`PROJECT.json` ("mutants") names violated: each property does depend on the code.

## 4. Runs

| Run | Question | Bounds | Distinct states |
|---|---|---|---|
| `file_ops` | safety under every call of `Next` | 2 files, 6 data blocks, 3 words per index, 2 bytes per block, payloads of 2 and 5 bytes, offsets 0, 1, 3 | 220 thousand |
| `file_store` | refinement of `FileStore` under supported calls with failures | 1 file, 5 data blocks, 4 words, payloads of 1 and 3 different bytes, offsets 0, 1, 2, 4, reads of 3 | 10 thousand |
| `defrag_pack` | packing beside another file, with liveness | 2 files, 5 data blocks, 4 words | 224 thousand |
| `alloc_one_file` | calls that hold one inode lock | 3 threads, 4 blocks, 2 bits per word | 1.4 million |
| `alloc_two_files` | the same with two files: **violated** | 2 threads, 2 files | |
| `dir_ops` | safety of directories, refinement of `Namespace` | root and 2 inodes, 2 entries per block, 3 names, 1 listing of the root | 262 thousand |
| `super_crash` | layout, durability and agreement over crash and remount | 13 blocks, 3 inodes and 12 bits per block, 2 calls between two saves | 613 thousand |
| `task_monitor` | samples, readings and stops | 1 process, 2 monitors, 2 threads, 2 writers, 1 controller, 1 sample fits, threads sleep at 1 | 226 thousand |
| `dentry_refs` | counts, lists and memory of entries | 2 threads, a root and 2 entries, 1 inode, 2 references held by callers | 1.4 million |
| `dentry_unlocked` | `shrink_lock_dentry` locks the inode: **violated** | the same | |
| `dentry_tree` | names, aliases, loops, mounts | 2 threads, a root and 3 entries, 2 names, 2 directories | 1.1 million |
| `dentry_lookup` | walks without locks beside a move | 1 walker, 1 mover, 3 entries, 2 directories (one compares names itself), 2 names (one long), 2 chains, 2 storages | 1.5 million |

What the passing runs show:

* `TypeOK`, `NoSharing`: no block is named twice and none that is named is free.
  In particular O_TRUNC and unlink, which pass whole words to `put_block`, never
  free a block that is still named, each taken as one step.
* `FreeCountExact`: the counter equals the bitmap after every call.
* `OneFileChanges`: a call that stays in its buffers changes the bytes of one file at
  most, whatever it shifts, splits, fills or fails to do. Of a call that leaves them
  nothing is claimed: it writes into memory that is not modelled.
* `SizeIsSum`, `SupportedInBounds`, `RefinesStore`: supported calls insert bytes,
  read them back, keep `i_size` equal to the sum of the word sizes and leave the
  file alone when they return an error.
* `PackKeepsContent`, `PackFills`, `PackCounts`, `PackEnds`: the packing keeps
  the bytes at every step, fills every block but the last, keeps `i_blocks` equal
  to the words left, and ends.
* `EntriesDense`, `OneParent`, `LinkCounts`, `FreeInodesFollow`: entries have no
  gaps, a used inode has exactly one entry, link counts are those rmdir relies on,
  the counter moves with the bitmap (it starts one too high: mkfs counts only the
  root as used, and bit 0 is used as well).
* `CacheTrue`: what the kernel remembers of a name is what a search finds. `create`
  tests nothing itself and depends on it.
* `ListingComplete`: a listing misses at most one entry for each removal of
  an entry it had already given; nothing else makes it miss one.
* `RefinesNamespace`: names behave as a tree with lookups that tell the truth.
* `GetsUnused`, `Conserved`: among calls that hold the lock of one inode the bitmap
  needs no other. The lock is not enough for the program: `open` with O_TRUNC does not
  take it (`Spec` in place of `LockedSpec`, below), and there are several inodes
  (`alloc_two_files`).
* `InPlace`: what mkfs writes, one block after the other, lies where the formulas of
  mount, `sync_fs`, `iget` and `write_inode` say. These formulas are shared operators
  (`IfreeBlock`, `BfreeBlock`, `InodeBlock`), as the code has the same expression in each
  place; that the copies are equal is read, not checked.
* `SyncedIsDurable`: what a sync saved is on the device, and what is mounted from it
  is what was saved: no field, counter or part of a bitmap is left out.
* `Consistent`: on a partition that no crash has torn, the counters count the bits and
  files have inodes and index blocks of their own, over any number of mounts.
* `NewestKept`, `PassComplete`, `StopReturns`: a monitor keeps its newest samples without
  a gap although the shrinker's count drifts; a reading that keeps the mutex shows
  each sample once; a stop ends.
* `CountsExact`, `NoUseAfterFree`, `ListsExact`, `NoneForgotten`: an entry's count is the
  number of those who count on it; what is counted on, listed or worked on has
  its memory, and so has the parent of what lives; an entry is on one dispose list at
  most and marked accordingly; a killed entry is freed by one of the two who
  could, and an unmount leaves no entry that nobody uses.
* `NamesOnce`, `OneAlias`, `NoLoops`, `InvalidateOrMount`: parallel lookups agree on one
  entry for a name; a directory has one; whatever hierarchy the file system
  pretends to have, parents lead to a root; nothing is mounted below what is
  invalid when it is declared so, nor afterwards.
* `NoFalseNegative`, `RcuTrue`, `NamesHeld`: "absent" is said only of a name that was
  absent at some moment of the lookup; an entry returned by the walk without locks
  is the one looked for; a long name lives as long as an entry, a snapshot or a
  walk needs it.

Why the bounds are enough. Blocks of 2 usable bytes (`BlockSize = 3`) are the
smallest that can be empty, partly filled and full; `NumberMask = 16` is the
smallest field that holds the numbers of all blocks. Payloads of 3 bytes need two
blocks and payloads of 5 bytes three, so allocation, shift, split and the loop over several blocks all occur;
offsets lie at, inside and after blocks and after the end. An index of 3 or 4 words
fills up within a few calls, and so does the partition, which reaches the paths of
ENOSPC, EFBIG and the index overruns. Inodes are symmetric (`MCSymmetry`) in the runs
without liveness; so are threads. No counter is cut: all of them are bounded
by the number of blocks.

In `dir_ops` three names for two entries let a directory be full when a name is
still absent (EMLINK), and two inodes besides the root give a file in a
subdirectory, moves in and out of it, reuse of numbers and removals beside a
listing. A rename into a full directory would need a third inode; that test is the same
expression as the one of create. Names are symmetric.

In `super_crash` 13 blocks of 12 bits and 3 inodes give an inode store of several
blocks and two blocks for each bitmap, so that the loops of `sync_fs` go round and a
region can be hit from its neighbour. `MaxCalls = 2` bounds the creations and removals
between two whole syncs: enough to remove what an unfinished sync has half saved, and
to use its numbers again. After a crash that tore the partition it may be mounted,
and then nothing more is done with it: the code has no repair to check.

In `task_monitor` two threads are what start after stop can produce, two writers
and the thread are three who put one reference, two monitors let a reading go
from one list to the next. At `MaxNum` samples a thread only wakes up to stop; with
`Fit = 1` two samples are one too many, which the shrinker drops.

In `dentry_refs` two entries below the root are a directory with a child, whose
death puts its parent, or two siblings; one inode is enough as the code never holds
the locks of two. `MaxHeld` bounds the references that callers keep, not those of
the code itself. In `dentry_tree` three entries are two lookups of one name beside a
hashed one, or a chain of directories that a lookup tries to close to a
loop. In `dentry_lookup` three entries in two chains are a neighbour to stand on, an
entry to move, and a target.

Fairness. `PackSpec` assumes weak fairness of `PackStep`: defrag runs in the
kernel on behalf of a process, holds the only lock it needs and waits for nobody,
so the scheduler lets it go on. The other files' users have no fairness.
`TaskMonitor` assumes weak fairness of the steps of a thread, of a reading that holds
the mutex, and of the return of `kthread_stop`: all three can run and wait for nobody. It
assumes strong fairness of `LockThread`: the kernel's mutex is handed to who has
waited for it, however often others take it. Writers, the shrinker and processes have
none.

**Properties that the code does not have.** Beyond section 5, six definitions state
what a comment or the report says and no run lists them, since TLC refutes them;
adding one to the configuration named shows a counterexample:

* `BlockAlloc.GetsUnused` (`alloc_one_file` with `SPECIFICATION Spec`): a write of a
  file and an open of it with O_TRUNC (`file.c:233`; "Return an unused block number and
  mark it used", `bitmap.h:51`). The write holds the lock of the inode and has stored a
  block in the index with size 0 (`file.c:598-601`). The open, which takes no lock, gives
  the word to `put_block`, which refuses words with a size and accepts this one; before
  the word is cleared the write calls `get_free_block` for its next word and gets the
  same block again, in a trace of 13 states.
* `OuicheFile.InBounds` (`file_ops`): a write of several blocks into a one-block file
  is copied into that block, past its end (`file.c:721`; the report says several
  blocks per call work, `rapport/README.md:53`).
* `OuicheFile.NoLeak` (`file_ops`): unlink leaves the data blocks allocated and not
  cleaned, as it uses words with their size field as block numbers
  (`inode.c:369`; "cleanup blocks containing data", `inode.c:304`).
* `OuicheDefrag.DefragKeepsContent` (with `DefragSpec`): the shift stops
  before it has moved the last block with bytes, after `i_blocks` was reduced
  (`defrag.c:204`; `defrag.c:188`, `rapport/README.md:77`).
* `OuicheDir.NewDirectoryUsable` (`dir_ops`): rmdir destroys a directory inode with
  one link left (`inode.c:397`), so the kernel keeps it cached and flagged dead; the
  next mkdir gets the same inode and nothing can be created in it (`inode.c:302`,
  "If link count is 0, destroy file"; `README.md:51`, "Creation and deletion").
* `OuicheDir.NamesOnce` (`dir_ops` with `MCLongNames`, `MCNames`, `MCCut`): names of 28
  bytes are accepted and lose their last byte (`inode.c:275`; `README.md:32`,
  "filenames are limited to 28 characters").

That O_TRUNC is not supported is acknowledged in the report
(`rapport/README.md:61-69`).

## 5. Findings

Each is a run with `expect: violation` of one property that the code's own
comments state.

1. `alloc_two_files` - two writers of two files get the same block
   (`bitmap.h:58`; "Return an unused block number and mark it used", `bitmap.h:51`).
2. `dentry_unlocked` - `shrink_lock_dentry` (`dcache:1138`) reads the inode of a negative
   entry, finds none to lock, and lets the entry's lock go to wait for its
   parent's. Another thread looks the entry up, makes it positive and puts it. The
   function then sees the same parent and a count of 0, and returns true, without the
   lock of the inode that the entry now has and that `__dentry_kill` will unlock
   (`dcache:1135`, "Otherwise, return true and have that dentry's inode and parent both
   locked."). The comment is right of every other order of steps.

## 6. Proofs

All checked by TLAPS, for every value of the constants that satisfies the
assumptions `WidthAssumption`, `DiskAssumption`, `InputAssumption`,
`AllocAssumption`, `DirAssumption`, `SuperAssumption`, `MonitorAssumption`,
`DentryAssumption`, `TreeAssumption` and `LookupAssumption`, which TLC evaluates in
the runs.

* `OuicheFileProofs`, for any widths of the two fields of a word: `SetNumber`,
  `SetSize` - each setter stores its value cut to its field, keeps the other field
  and gives a word. For any number of files, blocks, words, any payloads and
  offsets: `FileTyped`, `FileNoSharing`, `FileCounts` under `Spec`, that is with
  O_TRUNC and all unsupported writes, up to the access that leaves a buffer. The inductive invariant is
  `FileInv(Spared)`, that is `TypeOK /\ Separate /\ Layout(Spared)`, where `Spared` is empty as long as no
  call has left its buffers and all files afterwards. `Separate` is `NoSharing` with index
  blocks and words apart. `Layout` (the words counted by `i_blocks` are not zero, a
  file with bytes has a first word, a file without bytes has no data block) is
  needed because a write gives a size to the word at `block_jump`: had that word
  been 0 it would then name block 0. The heart is `WrittenWord` with `WrittenFrom`:
  after shift, allocation, split and copy the number in a slot is a fresh block or
  the number of exactly one old slot. `WrittenSlots` keeps `Layout`,
  `ChunkInPayload` shows that no iteration reads past the user's bytes, and
  `TakenCounted` and `PutCounted` turn sets of blocks into the counter's changes.
  `FileOneChanges` needs no induction over bytes: `ContentKept` shows that a file reads
  the same when its inode, its words and the blocks they name (`Named`) do, since by
  `Layout` no word below `i_blocks` is zero; `NamedApart` that these blocks are neither free
  nor another file's; and `WriteElsewhere` that the shift, the split and every copy of a write
  touch fresh blocks and blocks of the file only. Of calls that leave their buffers it says
  nothing; that what they do before keeps types, `NoSharing` and the counter is
  `OverrunStep`.
  `FileSupportedFits` under `SupportedSpec`: `Sized` says that a linked file has its
  index block and one with bytes a data block too, from which a supported write
  has as many blocks as it copies into. `FileSizes` and `FileRefinesStore` under
  `SupportedSpec`, with the inductive `StoreInv`, that is `FileInv({}) /\ Sized /\ SizeIsSum`.
  `Total` is the sum of the sizes of the slots before a slot; `TotalOf` and `Flattened` build
  the sums and the flattened sequence one slot at a time, as sets of the lengths reached so far,
  so that no induction theorem over data is needed, and `JumpedTotal` finds the sum that the
  code forms in `nr_jumped_bytes`. `Laid` says which byte of the file each slot
  has. `Inserts` is the heart: sizes and blocks that agree with the old ones before, within and
  behind the write (`Ahead`, `Middle`, `Behind`) are an insertion of its bytes, a
  gap after the end included; `WriteInserts` that shift, allocation, split and loop leave such
  sizes and blocks, and `StopKeeps` and `AllocKeeps` that the supported failures leave the bytes as they were.
  `ReadFetches` says that the loop of read, from the first slot whose end is not before the
  offset, takes the bytes from there on. `PackCountsBlocks`, `PackFillsBlocks`,
  `PackNoSharing` and `PackFreeCount` under `PackSpec`: the packing leaves zero words in
  the middle of the index, which `Layout` forbids, so `FileInv` takes the
  files that are exempt and `PackInv` has `FileInv(Busy)` with the file being packed.
  The calls on other files keep `FileInv(X)` for any `X` they are not in. `PackLoop` and
  `MergeLoop` say what the loops know: the words from the loop's place on are there,
  those between the two places are gone, the blocks before are full, and
  `left_empty_bytes` is what the block at `i` still lacks. A block that is cut has
  filled the one before, so `MergePart` always goes back to the outer loop: the
  branch for a block that is not full (`defrag.c:167`) is never taken.
  `Cardinality(Kept) + removed = nr` then gives `i_blocks`. `PackKeepsBytes`:
  `KeepInv` adds that the slots are laid out (`Laid`) with the bytes that the file had
  when the packing began. A step moves bytes from the head of the block at `j` to the end of
  the block at `i`, and no slot between the two has any (`KeepMove`); `Regrouped` shows
  that sizes and blocks that differ in this way lay out the same sequence.
* `BlockAllocProofs`: `AllocTyped` for any threads, with opens that truncate; `OneInodeGetsUnused` and
  `OneInodeConserves` under `LockedSpec`, if all threads work on one inode and none
  truncates it. Without either condition they are false (`alloc_two_files`; section 4). The invariant `AllocInv`
  says where the block in flight is (`Missing`) and how far the counter is from
  the bitmap (`Extra`) at each label of the thread that holds the lock.
* `OuicheDirProofs`, for any number of inodes, entries, names and readers.
  `DirEntriesDense` and `DirFreeInodesFollow` hold with any names: `DirInv` adds to density
  the types of the blocks and that free numbers are inode numbers, which `create`
  needs to add an entry that is not empty; `CountInv` adds that an inode is free exactly
  when it has no mode, so that a number that is given back was in use. `DirOneParent`, `DirCacheTrue`, `DirLinkCounts`,
  `DirListingComplete` and `DirRefinesNamespace` have the hypothesis `LongNames = {}`: a name
  of 28 bytes passes the length test and is cut (`inode.c:275`, 451, 466), after which
  the cache and the block disagree and two names lead to one inode. With such a
  name TLC finds four of them violated within seconds (constants `MCLongNames`, `MCNames`,
  `MCCut`); of `DirListingComplete` only the proof needs the hypothesis. `TreeInv` looks at a directory as
  `Kept`, its entries as a set of name and number without their places; every step then adds, drops or moves one
  pair or keeps all (`Adds`, `Drops`, `Moves`), and what is to be kept - an inode placed
  once (`Placed`), a name once in a directory (`NamesApart`), the cache
  (`CacheTells`) - is shown for these kinds, not for slots. `LinkInv` counts the pairs that
  name directories, `ListInv` says where the entries lie that a listing has not passed. For
  the refinement the tree's links are read off the entries (`Seen`); each kind of step is a
  call of `Namespace` with the same answer or none at all, and what is below a
  directory, which both modules compute by a recursive function, is shown to be equal by a
  least counterexample.
* `OuicheSuperProofs`: `SuperInPlace`, `SuperSyncedIsDurable` and `SuperConsistent`, for any
  number of blocks, inodes in a block, bits in a block and calls. `SuperInv` is
  the conjunction of: a clean buffer is what the device has and every block
  holds what its region is for (`Devices`, `Holds`); `Caches`, `Syncing`, `Making`, the
  types of the other variables, with all caches empty when nothing is mounted and
  the blocks that mkfs has passed equal to `Image`; `Whole` of a partition that is not torn; and
  `Safe` when `synced` remembers what was saved. `Whole` says that the view from memory
  is `Sound` (counters, bitmaps, entries and inodes agree), that a clean cached inode is
  what the store has, and how far a quiet sync has come (`Progress`): the
  superblock, the bitmap parts before its place and every inode not on its
  list are in the buffers. `Progress` is what a sync needs to end with `Saved(disk) = InMemory` (`QuietSaved`);
  it is lost with the first call that disturbs the sync, and regained only by the next. The
  history variables are needed: without `torn` a crash between two blocks of
  a sync leaves counters and bitmaps that do not agree, and a mount finds
  them. `ImageSound` shows that what mkfs writes is `Sound`; `FilledIfree` and
  `FilledBfree`, that bitmaps cut into blocks and read back are the same sets;
  `SoundMore` and `SoundLess` turn one inode and one block into the changes of both
  counters.
* `TaskMonitorProofs`: `MonitorNewestKept` and `MonitorPassComplete`, for any number of
  monitors, threads and samples. `MonitorInv` has `Lists` (no monitor twice in the list; the
  samples of every monitor are the newest, without a gap, and not more than `count`: `Newest`), `Mutex` (who has
  the mutex at each label, and that there is none before `monitors_init` and
  after the exit), and `Pass`: while the reader stands at a monitor, exactly the
  samples of the monitors before it in the list and of this one before its
  place have been shown (`ShownTo`, `AllTo`). `Pass` is kept as nothing else changes
  list or samples while the reader has the mutex.
* `DentryRefsProofs`: `SpecCountsExact`, `SpecNoUseAfterFree`, `SpecListsExact` and
  `SpecNoneForgotten`, for any number of entries, inodes, threads and references;
  entries and threads are finite, as they are counted. `RefsInv` has nine parts. `Counted` is
  `CountsExact` for every entry, in three sets: who holds it (`Holders`), who has still to
  give it up (`Owers`), and its living children; on an entry that does not live nobody counts. `Shapes`
  says what an entry is in each part of its life (a dead one is not hashed, has no inode and is not on
  the LRU; an entry that may be freed by the owner of a list is on one or given away). `Listed`: no
  list has an entry twice, no two lists the same, and the mark tells who is on one.
  `Places`: what a thread knows at each label - in particular that a killer that
  holds the lock of an inode still has the entry's inode, without which
  another thread could change what the killer is about to release - and that
  what it has just killed is `Unburied`. `KilledOnce` and `Dying`: one killer at most, and a killer
  or a list for everything that is dead. `Rooted`: the way up through the living comes to the
  root, which `NoneForgotten` needs and only `Move` could break. `Unmounting`: who
  unmounts is alone, and after `umount_check` the root is alone too (`Gone`).
  The argument: a step of a thread changes what one thread and one child have to do with
  each entry, so a step is described by `StepOK(t, c)`, and `StepKeepsInv` shows once that it keeps
  `RefsInv`; `Balance` is the arithmetic of it, every entry by itself. Each action
  is then shown to be such a step, with what `dput`, the shrinkers and the unmount share
  (`Dies`, `KillsFor`, `Waits`, `Shrinks`, ...) proved once. That an unmount finds
  nothing (`NothingLeft`): if no entry has the count 0 every living one but the root has a child,
  so "parent" maps the living onto themselves, and on a finite set such a map
  leaves no one whose parent is the root; all living would then be cut off from it, against `Rooted`.
  The proof changed the model twice: `Move` only excluded
  loops of two entries, which is all that the run with two entries below the root can tell apart, and now has
  the whole of `d_ancestor` (`NotBelow`, `dcache:3066`); and a killer that starts again with the
  inode no longer keeps the parent it has let go (`LockParent`).
* `DentryTreeProofs`: `TreeNamesOnce`, `TreeOneAlias`, `TreeNoLoops` and the action property
  `TreeInvalidateOrMount`, for any number of threads, entries, names and directories. The
  thirty-odd steps are first sorted into kinds
  (lemmas `...Sort`, one for each action): a kind says what happens to entries and to
  threads with an entry of their own - one is allocated, claimed, published,
  replaced, revived, renamed, removed, and so on. Each kind then keeps the
  invariant (lemmas `...Keeps`). `TreeInv` says, besides types: a thread in a lookup
  owns its entry, which nobody else has and nothing is below (`Owned`, `Childless`); an
  entry in lookup is some thread's (`InLookup`); the alias being spliced lives and is
  nobody's own (`Aliased`); `d_set_mounted` stands on a live entry and has `rename_lock`
  (`Mounting`); a claimed name is neither hashed nor claimed twice (`ClaimedOnce`),
  where the claim lasts from the entry in the chain of lookups until it is
  hashed or moved; a name is hashed once (`HashedOnce`). The part that makes it
  inductive is `FreshLook`: a thread that has looked in the hash table and will
  find `i_dir_seq` unchanged still knows that the name is not hashed and that
  nobody is between the two tables with it. `Single` - one entry for a directory - is
  kept as a new alias is made only where there is none (`NewAlias`).
  `LoopInv` says that every set of entries closed under parents has a root (`Rooted`), and that
  for a move under way (`MovesApart`) such a set holds the place where the alias goes and
  not the alias. `d_ancestor` gives that set at the moment it answers
  no (`NotAbove`: what the way up meets is closed, by the pigeonhole principle as there are
  finitely many `Dentries`, the only assumption added for it); it stays until the
  move ends, as every step that gives an entry another parent has `rename_lock`, which the
  move has. `NoLoops` follows: the way up from an entry, being closed, has a root.
  `MountInv` is for `d_invalidate` against `d_set_mounted`. An entry is not below another if a
  closed set has the one and not the other (`Apart`). A pass of the walk that
  need not be repeated so far (`Sees`: it holds `rename_lock`, or compares the sequence and found
  it unchanged) runs beside no move and no mount, and all that is mounted and that it has not met
  is below what its stack has still to visit (`PassLeft`): when an entry is visited that is not
  mounted, what is below it is below one of its children (`NextBelow`). What has
  been invalidated above a future mount is above the place that
  `d_set_mounted` has reached, or there (`WayLeft`): it goes up from hashed entries only, and
  what has been invalidated is not hashed (`Unfound`). So a walk whose stack is empty
  ends with nothing mounted below, and a mount that has reached a root has nothing invalid above.
  Beside these, a step of another thread must leave the tree as far as the walk or
  the mount knows it (`Along`, `AlongKeeps`): it may drop entries that nobody holds and
  give entries to names, but not move them.
* `DentryLookupProofs`: `LookupNoFalseNegative`, `LookupRcuTrue` and `LookupNamesHeld`, for any
  number of entries, directories, names, chains, walkers and movers; the two sets that are
  counted, entries and threads, are finite and disjoint. `LookupInv` has four parts.
  `Table`: an entry has one place in one chain at most, an entry is in the chain of its name
  exactly if it is hashed and no move has it out (`Gone`), and a name has one hashed
  entry, also when the entry comes back that a move has out (`MoveAlone`). The entries: an unlocked one
  has the parent and the text of its name (`EntryOf`, `TextOf`, `ParentsOf`), and
  what is dying waits for the walks that may still see it. The names: `CountedName`, where the
  users are moved from one set to another when entries change their storages
  (`NameSame`, `NameMore`, `NameLess`). The walks: `ReachOf` gives a walk a set of live or waiting entries
  that contains all chains, the place of the walk and what comes after each member,
  which is why nothing freed is ever met; `SequenceOf` says what holds of an entry while its
  sequence has not changed. The heart is `AheadOf`: a walk that no move has disturbed
  and whose name was there all the time still has the entry of the name ahead of it.
  "Ahead" is `Leads(p, x)`: every set that contains `p` and what comes after each of its
  members contains `x`; no path has to be followed, so there is no induction over the
  chain. Entries leave a chain (`LeadsDrop`) and come into it at its head (`LeadsPut`)
  without disturbing it. For a walk beside no move a second set around it stays in the one
  chain of the name (`Steady` in `ReachOf`): without it an entry taken out could lead the walk
  into another chain, as moves really do.

Only model-checked: the liveness `PackEnds` and `StopReturns`; fairness is out of
reach of the prover.

## 7. Not modelled

* *ouiche_fs*: the page-cache functions of `file.c` (`file_get_block`, `write_begin`,
  `write_end`, `writepage`), as the file system's own `read` and `write` replace their
  callers; open descriptors of removed files; the words and bytes of a file that is
  truncated beside a write (`BlockAlloc` has its blocks only); what a call does after
  it has left its buffers; a device
  failure inside rename or unlink; the index block that write changes and never
  marks dirty (`file.c:786`), nor a buffer released before it is marked
  (`file.c:776`); the error paths of `fill_super`, which release a buffer twice and an
  inode twice (`super.c:326-348`); the references to a file that `fdget` takes and nobody
  gives back (`fileinfo.c:23`, `defrag.c:242`); statfs; `fs.c`; user programs and the
  benchmark, which have no state.
* *Task monitor*: the contents of samples, several processes with one name, what
  happens after freed memory is used; what others do while a monitor is being released
  (`task_monitor:70-81`, without the mutex) is covered only as use after the whole
  release (`Take` is one step).
* *Cache of names*: hash function and sizes, statistics, `d_tmpfile`, `d_genocide`, ACL and
  security hooks. In `DentryLookup` `RcuParent` loads `d_parent` and `d_unhashed` in one step and
  `RcuKey` `hash_len` and the pointer to the name: the length of one name beside the text
  of another is not covered. Two oddities seen and left out: an entry that `shrink_lock_dentry`
  gives up on because its inode changed (`dcache:1154`) is taken off its list and put on no other,
  though nobody uses it, until somebody does; and `nr_dentry_negative` is changed
  while an entry is on a dispose list, against `dcache:416-420`. `InvalidateOrMount` is about
  mounts that begin while an entry is invalid; `d_splice_alias` may move a directory
  with a mount in it below an invalidated one.
* `src/labs/7/task-1/dcache-original.c` differs from `dcache` in lines 99 to 103 only.
  `src/labs/7/harena/weasel.c` prints every chain of the hash table without
  `rcu_read_lock` (lines 31-53); nothing protects the walk that it makes, so
  there is nothing to check.
* `src/project/rendu` is a copy of the files of `projet_PNL`, `src/archive` of older labs. The other modules of
  labs 4, 5 and 7 print or copy one value.
