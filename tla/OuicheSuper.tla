----------------------------- MODULE OuicheSuper -----------------------------
(***************************************************************************)
(* The partition of ouichefs beside what the kernel holds of it in memory: *)
(* mkfs, mount, write_inode, sync, unmount, and a crash at any time        *)
(* (mkfs-ouichefs.c, super.c, fs.c; iget, create and unlink of inode.c).   *)
(*                                                                         *)
(* Three copies of the metadata exist.  The superblock's counters and the  *)
(* bitmaps live in sbi, and reach buffers only in sync_fs; inodes live in  *)
(* the inode cache, and reach buffers in write_inode; buffers reach the    *)
(* device when they are dirty.  Files are entries of the root directory    *)
(* here, and have an index block and no data.                              *)
(***************************************************************************)
EXTENDS Integers, FiniteSets, FiniteSetsExt, Sequences

CONSTANTS
  NrBlocks,        \* the size of the image in blocks
  InodesPerBlock,  \* OUICHEFS_INODES_PER_BLOCK
  BitsPerBlock,    \* the bits of a block: OUICHEFS_BLOCK_SIZE * 8
  MaxCalls         \* bound: the calls that change the tree between two saves

-----------------------------------------------------------------------------
(* The layout that mkfs computes; the superblock records it.               *)

Ceil(a, b) == IF a % b # 0 THEN a \div b + 1 ELSE a \div b

NrInodes == NrBlocks + (NrBlocks % InodesPerBlock)
NrIstore == Ceil(NrInodes, InodesPerBlock)
NrIfree == Ceil(NrInodes, BitsPerBlock)
NrBfree == Ceil(NrBlocks, BitsPerBlock)
NrData == NrBlocks - 1 - NrIstore - NrIfree - NrBfree

\* A bitmap's first block holds the bits of every block that mkfs uses.
ASSUME SuperAssumption ==
  /\ {NrBlocks, InodesPerBlock, BitsPerBlock} \subseteq Nat \ {0}
  /\ InodesPerBlock > 1
  /\ NrData > 1
  /\ NrIstore + NrIfree + NrBfree + 2 <= BitsPerBlock
  /\ MaxCalls \in Nat

Blocks == 0 .. NrBlocks - 1
Root == 1
RootBlock == 1 + NrIstore + NrIfree + NrBfree
Inos == 2 .. NrInodes - 1

\* Where the inode store keeps an inode: a block and a place in it.
InodeBlock(i) == i \div InodesPerBlock + 1
InodeShift(i) == i % InodesPerBlock

\* Slip: the superblock's block is forgotten.
IfreeBlockLow(i) == NrIstore + i

\* The block of the i-th part of each bitmap.
IfreeBlock(i) == NrIstore + i + 1
BfreeBlock(i) == NrIstore + NrIfree + i + 1

IfreeBlocks == {IfreeBlock(i) : i \in 0 .. NrIfree - 1}
BfreeBlocks == {BfreeBlock(i) : i \in 0 .. NrBfree - 1}
Part(bits, i) == {n \in bits : n \div BitsPerBlock = i}
AllBits(i) == i * BitsPerBlock .. (i + 1) * BitsPerBlock - 1

VARIABLES
  disk,    \* the content of each block on the device
  buf,     \* the content of each block in the buffer cache
  dirty,   \* the buffers marked dirty
  sbi,     \* ouichefs_sb_info: <<>> when nothing is mounted
  inode,   \* the inode cache: a record, or Out
  idirty,  \* the inodes marked dirty
  sync,    \* how far a sync or an unmount has come
  mkfs,    \* the blocks that a run of mkfs has written, or -1
  torn,    \* a crash or an interrupted mkfs left the device in between
  calls,   \* the calls since the device was last known to be whole
  synced   \* what the last sync with no change since it began has saved

device == <<disk, buf, dirty>>
cache == <<sbi, inode, idirty>>
history == <<torn, calls, synced>>
vars == <<disk, buf, dirty, sbi, inode, idirty, sync, mkfs, torn, calls, synced>>

Out == [nlink |-> -1, index |-> 0]
Zero == [nlink |-> 0, index |-> 0]
Record == [nlink : 0 .. 2, index : Blocks]
Slot == 0 .. InodesPerBlock - 1

\* The contents of a block, by what wrote it.
Blank == [kind |-> "blank"]
Super(ni, nb) == [kind |-> "super", inodes |-> ni, blocks |-> nb]
Store(s) == [kind |-> "store", slots |-> s]
Bits(s) == [kind |-> "bits", free |-> s]
Dir(e) == [kind |-> "dir", entries |-> e]
EmptyIndex == [kind |-> "index"]

\* How the bytes of a block read: those of a blank one are zero.
Free(c) == IF c.kind = "bits" THEN c.free ELSE {}
Slots(c) == IF c.kind = "store" THEN c.slots ELSE [s \in Slot |-> Zero]
Listed(c) == IF c.kind = "dir" THEN c.entries ELSE {}

Idle == [phase |-> "idle", at |-> 0, wait |-> FALSE, todo |-> {},
         quiet |-> FALSE, umount |-> FALSE]
Mounted == sbi # <<>>
Nothing == <<>>
-----------------------------------------------------------------------------
(* mkfs writes the blocks in order; a write that fails ends it.            *)

write_superblock == <<Super(NrInodes - 1, NrData - 1)>>

write_inode_store ==
  LET root == [nlink |-> 2, index |-> RootBlock]
  IN  [k \in 1 .. NrIstore |->
         Store([s \in Slot |-> IF k = 1 /\ s = Root THEN root ELSE Zero])]

write_ifree_blocks ==
  [k \in 1 .. NrIfree |-> Bits(AllBits(k - 1) \ (IF k = 1 THEN {0, 1} ELSE {}))]

\* Slip: the block of the root directory is left free.
write_bfree_blocksNoRoot ==
  LET used == NrIstore + NrIfree + NrBfree + 1
  IN  [k \in 1 .. NrBfree |->
         Bits(AllBits(k - 1) \ (IF k = 1 THEN 0 .. used - 1 ELSE {}))]

write_bfree_blocks ==
  LET used == NrIstore + NrIfree + NrBfree + 2
  IN  [k \in 1 .. NrBfree |->
         Bits(AllBits(k - 1) \ (IF k = 1 THEN 0 .. used - 1 ELSE {}))]

write_root_index_block == <<Dir({})>>

Image == write_superblock \o write_inode_store \o write_ifree_blocks
           \o write_bfree_blocks \o write_root_index_block

\* What ouichefs_fill_super copies from the device d.
FillSuper(d) ==
  [inodes |-> d[0].inodes,
   blocks |-> d[0].blocks,
   ifree |-> UNION {Free(d[b]) : b \in IfreeBlocks},
   bfree |-> UNION {Free(d[b]) : b \in BfreeBlocks}]

\* What ouichefs_iget copies from the inode store.
Iget(d, i) == Slots(d[InodeBlock(i)])[InodeShift(i)]

\* What a mount would find and what lookups would read after it.
Saved(d) ==
  LET s == FillSuper(d)
  IN  [super |-> s, entries |-> Listed(d[RootBlock]),
       inodes |-> [i \in Listed(d[RootBlock]) |-> Iget(d, i)]]

Init ==
  /\ disk = [b \in Blocks |-> Blank] /\ buf = disk /\ dirty = {}
  /\ sbi = Nothing
  /\ inode = [i \in Inos \cup {Root} |-> Out] /\ idirty = {}
  /\ sync = Idle
  /\ mkfs = -1
  /\ torn = TRUE
  /\ calls = 0
  /\ synced = Nothing

\* Bound: mkfs starts over on its own blocks or blank ones only.
MkfsBegin ==
  /\ ~ Mounted /\ mkfs = -1
  /\ \A b \in Blocks : disk[b] # Blank =>
                    b < Len(Image) /\ disk[b] = Image[b + 1]
  /\ mkfs' = 0 /\ torn' = TRUE /\ calls' = 0 /\ synced' = Nothing
  /\ UNCHANGED <<device, cache, sync>>

\* One block; after the last the partition is whole.
MkfsWrite ==
  /\ mkfs \in DOMAIN Image \cup {0} /\ mkfs < Len(Image)
  /\ disk' = [disk EXCEPT ![mkfs] = Image[mkfs + 1]]
  /\ buf' = disk'
  /\ mkfs' = IF mkfs + 1 = Len(Image) THEN -1 ELSE mkfs + 1
  /\ torn' = (mkfs' # -1)
  /\ synced' = IF mkfs' = -1 THEN Saved(disk') ELSE Nothing
  /\ UNCHANGED <<dirty, cache, sync, calls>>

MkfsFails ==
  /\ mkfs # -1
  /\ mkfs' = -1
  /\ UNCHANGED <<device, cache, sync, history>>
-----------------------------------------------------------------------------
(* Mount                                                                   *)

\* ouichefs_fill_super tests the magic number and nothing else.
Mount ==
  /\ ~ Mounted /\ mkfs = -1
  /\ buf[0].kind = "super"
  /\ sbi' = FillSuper(buf)
  /\ inode' = [inode EXCEPT ![Root] = Iget(buf, Root)]
  /\ UNCHANGED <<device, idirty, sync, mkfs, history>>

(* The calls of the VFS that change the tree.  A sync that is under way is *)
(* no longer quiet.  The times of the root directory, which they also      *)
(* change, are left out.                                                   *)

\* A buffer that is marked dirty with what the device has is as good as clean.
Marked(bs) == {b \in dirty \cup bs : buf'[b] # disk'[b]}

\* Bound: a torn partition may be mounted, and no more is done with it.
Usable == Mounted /\ ~ torn
Calls == Usable /\ ~ sync.umount /\ calls < MaxCalls
Changed ==
  /\ sync' = [sync EXCEPT !.quiet = FALSE]
  /\ synced' = Nothing /\ calls' = calls + 1
  /\ UNCHANGED <<disk, mkfs, torn>>

Entries == Listed(buf[RootBlock])
FreeInos == {i \in sbi.ifree : i < NrInodes}
FreeBlocks == {b \in sbi.bfree : b < NrBlocks}

\* A lookup reads an inode that is not in the cache.
Lookup(i) ==
  /\ Usable /\ ~ sync.umount
  /\ i \in Entries /\ inode[i] = Out
  /\ inode' = [inode EXCEPT ![i] = Iget(buf, i)]
  /\ UNCHANGED <<device, sbi, idirty, sync, mkfs, history>>

\* ouichefs_create: an inode, an index block, which is cleared, an entry.
Create ==
  /\ Calls
  /\ sbi.inodes # 0 /\ sbi.blocks # 0
  /\ FreeInos # {} /\ FreeBlocks # {}
  /\ Changed
  /\ LET i == Min(FreeInos)
         b == Min(FreeBlocks)
     IN  /\ sbi' = [inodes |-> sbi.inodes - 1, blocks |-> sbi.blocks - 1,
                    ifree |-> sbi.ifree \ {i}, bfree |-> sbi.bfree \ {b}]
         /\ inode' = [inode EXCEPT ![i] = [nlink |-> 1, index |-> b]]
         /\ idirty' = idirty \cup {i}
         /\ buf' = [buf EXCEPT ![b] = EmptyIndex, ![RootBlock] = Dir(Entries \cup {i})]
         /\ dirty' = Marked({b, RootBlock})

\* ouichefs_unlink, and the eviction of an inode that has no link left: the
\* VFS does not write it back.
Unlink(i) ==
  /\ Calls
  /\ i \in Entries /\ inode[i] # Out
  /\ Changed
  /\ LET b == inode[i].index
     IN  /\ buf' = [buf EXCEPT ![RootBlock] = Dir(Entries \ {i}), ![b] = EmptyIndex]
         /\ dirty' = Marked({b, RootBlock})
         /\ sbi' = [inodes |-> sbi.inodes + 1, blocks |-> sbi.blocks + 1,
                    ifree |-> sbi.ifree \cup {i}, bfree |-> sbi.bfree \cup {b}]
  /\ inode' = [inode EXCEPT ![i] = Out]
  /\ idirty' = idirty \ {i}
-----------------------------------------------------------------------------
(* Writing back                                                            *)

\* A block of metadata gets content c; waiting writes it to the device.
Put(b, c, wait) ==
  /\ buf' = [buf EXCEPT ![b] = c]
  /\ disk' = IF wait THEN [disk EXCEPT ![b] = c] ELSE disk
  /\ dirty' = Marked({b})

\* Slip: the number of the index block is not copied.
WrittenNoIndex(i) == [inode[i] EXCEPT !.index = Iget(buf, i).index]

\* What ouichefs_write_inode copies into the inode store.
Written(i) == inode[i]

write_inode(i) ==
  /\ Put(InodeBlock(i),
         Store([Slots(buf[InodeBlock(i)]) EXCEPT ![InodeShift(i)] = Written(i)]), TRUE)
  /\ idirty' = idirty \ {i}

\* The flusher writes an inode or a buffer when it likes.
FlushInode(i) ==
  /\ Usable /\ i \in idirty
  /\ write_inode(i)
  /\ UNCHANGED <<sbi, inode, sync, mkfs, history>>

FlushBuffer(b) ==
  /\ Usable /\ b \in dirty
  /\ disk' = [disk EXCEPT ![b] = buf[b]]
  /\ dirty' = dirty \ {b}
  /\ UNCHANGED <<buf, cache, sync, mkfs, history>>

\* The store cannot be read: the VFS counts the inode as clean all the same,
\* and a sync goes on; so it has not saved everything.
FlushInodeFails(i) ==
  /\ Usable /\ i \in idirty
  /\ idirty' = idirty \ {i}
  /\ sync' = [sync EXCEPT !.quiet = FALSE]
  /\ torn' = TRUE /\ synced' = Nothing
  /\ UNCHANGED <<device, sbi, inode, mkfs, calls>>

\* Memory is short: a clean inode is dropped.
ReclaimInode(i) ==
  /\ Usable /\ i \in Inos \ idirty /\ inode[i] # Out
  /\ inode' = [inode EXCEPT ![i] = Out]
  /\ UNCHANGED <<device, sbi, idirty, sync, mkfs, history>>
-----------------------------------------------------------------------------
(* sync and unmount.  The VFS calls sync_fs without waiting, writes the    *)
(* dirty inodes, calls sync_fs again and waits, and writes dirty buffers.  *)

\* The same in memory.
InMemory ==
  [super |-> sbi, entries |-> Entries,
   inodes |-> [i \in Entries |-> IF inode[i] = Out THEN Iget(buf, i) ELSE inode[i]]]

SyncBegin(umount) ==
  /\ Usable /\ sync = Idle
  /\ sync' = [Idle EXCEPT !.phase = "super", !.quiet = TRUE, !.umount = umount]
  /\ UNCHANGED <<device, cache, mkfs, history>>

Goes(phase, at) == sync' = [sync EXCEPT !.phase = phase, !.at = at]

SyncSuper ==
  /\ sync.phase = "super"
  /\ Put(0, Super(sbi.inodes, sbi.blocks), sync.wait)
  /\ Goes("ifree", 0)
  /\ UNCHANGED <<cache, mkfs, history>>

SyncIfree ==
  /\ sync.phase = "ifree"
  /\ Put(IfreeBlock(sync.at), Bits(Part(sbi.ifree, sync.at)), sync.wait)
  /\ IF sync.at + 1 < NrIfree THEN Goes("ifree", sync.at + 1) ELSE Goes("bfree", 0)
  /\ UNCHANGED <<cache, mkfs, history>>

\* Where the loop of sync_bfree goes.
BfreeNext ==
  IF sync.at + 1 < NrBfree THEN "bfree" ELSE IF sync.wait THEN "blocks" ELSE "inodes"

SyncBfree ==
  /\ sync.phase = "bfree"
  /\ Put(BfreeBlock(sync.at), Bits(Part(sbi.bfree, sync.at)), sync.wait)
  /\ sync' = [sync EXCEPT !.phase = BfreeNext,
                          !.at = IF BfreeNext = "bfree" THEN (sync.at + 1) % NrBfree ELSE 0,
                          !.todo = CASE BfreeNext = "inodes" -> idirty
                                     [] BfreeNext = "blocks" -> dirty'
                                     [] OTHER -> {}]
  /\ UNCHANGED <<cache, mkfs, history>>

SyncInode(i) ==
  /\ sync.phase = "inodes" /\ i \in sync.todo
  /\ sync' = [sync EXCEPT !.todo = (@ \ {i}) \cap idirty]
  /\ IF i \in idirty THEN write_inode(i) ELSE UNCHANGED <<device, idirty>>
  /\ UNCHANGED <<sbi, inode, mkfs, history>>

SyncAgain ==
  /\ sync.phase = "inodes" /\ sync.todo = {}
  /\ sync' = [sync EXCEPT !.phase = "super", !.at = 0, !.wait = TRUE]
  /\ UNCHANGED <<device, cache, mkfs, history>>

SyncBlock(b) ==
  /\ sync.phase = "blocks" /\ b \in sync.todo
  /\ sync' = [sync EXCEPT !.todo = (@ \ {b}) \cap dirty]
  /\ disk' = IF b \in dirty THEN [disk EXCEPT ![b] = buf[b]] ELSE disk
  /\ dirty' = dirty \ {b}
  /\ UNCHANGED <<buf, cache, mkfs, history>>

\* A sync that nothing has disturbed has saved what is in memory.
Settle ==
  LET whole == sync.quiet /\ ~ torn
  IN  /\ synced' = IF whole THEN InMemory ELSE synced
      /\ calls' = IF whole THEN 0 ELSE calls

SyncEnd ==
  /\ sync.phase = "blocks" /\ sync.todo = {} /\ ~ sync.umount
  /\ sync' = Idle
  /\ Settle
  /\ UNCHANGED <<device, cache, mkfs, torn>>

\* The VFS evicts the inodes, ouichefs_put_super frees sbi and the bitmaps,
\* and the device writes what is dirty and drops its buffers.
Unmount ==
  /\ sync.phase = "blocks" /\ sync.todo = {} /\ sync.umount
  /\ disk' = [b \in Blocks |-> IF b \in dirty THEN buf[b] ELSE disk[b]]
  /\ buf' = disk' /\ dirty' = {}
  /\ sbi' = Nothing
  /\ inode' = [i \in Inos \cup {Root} |-> Out] /\ idirty' = {}
  /\ sync' = Idle
  /\ Settle
  /\ UNCHANGED <<mkfs, torn>>

\* A block cannot be read: sync_fs gives up, and so does a sync.  An unmount
\* goes on and frees what was not saved.
SyncFails ==
  /\ sync.phase \in {"super", "ifree", "bfree"}
  /\ IF sync.umount
     THEN /\ sync' = [sync EXCEPT !.phase = "blocks", !.quiet = FALSE, !.todo = {}]
          /\ torn' = TRUE /\ synced' = Nothing /\ UNCHANGED calls
     ELSE sync' = Idle /\ UNCHANGED history
  /\ UNCHANGED <<device, cache, mkfs>>

\* Memory is lost.  What the device holds is whole if nothing has changed
\* since it was saved.
Crash ==
  /\ Mounted \/ mkfs # -1
  /\ buf' = disk /\ dirty' = {}
  /\ sbi' = Nothing
  /\ inode' = [i \in Inos \cup {Root} |-> Out] /\ idirty' = {}
  /\ sync' = Idle
  /\ mkfs' = -1
  /\ torn' = (torn \/ synced = Nothing)
  /\ UNCHANGED <<disk, calls, synced>>
-----------------------------------------------------------------------------
SyncStep ==
  \/ SyncSuper
  \/ SyncIfree
  \/ SyncBfree
  \/ SyncAgain
  \/ SyncEnd
  \/ Unmount
  \/ \E i \in sync.todo : SyncInode(i)
  \/ \E b \in sync.todo : SyncBlock(b)

Next ==
  \/ MkfsBegin \/ MkfsWrite \/ MkfsFails
  \/ Mount
  \/ Create
  \/ \E i \in Inos : Lookup(i) \/ Unlink(i) \/ ReclaimInode(i)
  \/ \E i \in idirty : FlushInode(i) \/ FlushInodeFails(i)
  \/ \E b \in Blocks : FlushBuffer(b)
  \/ \E umount \in BOOLEAN : SyncBegin(umount)
  \/ SyncStep
  \/ SyncFails
  \/ Crash

Spec == Init /\ [][Next]_vars
-----------------------------------------------------------------------------
(* What is checked                                                         *)

Kinds(b) ==
  CASE b = 0 -> {"super", "blank"}
    [] b \in 1 .. NrIstore -> {"store", "blank"}
    [] b \in IfreeBlocks \cup BfreeBlocks -> {"bits", "blank"}
    [] b = RootBlock -> {"dir", "blank"}
    [] OTHER -> {"index", "blank"}

\* Each block, in the cache and on the device, holds what the layout puts
\* there: what mkfs writes one block after the other lies where mount, sync_fs,
\* iget and write_inode (which share InodeBlock, IfreeBlock and BfreeBlock here)
\* compute it, and no one writes outside its region.
InPlace ==
  /\ \A b \in Blocks : disk[b].kind \in Kinds(b) /\ buf[b].kind \in Kinds(b)
  /\ \A i \in 0 .. NrIfree - 1 :
       Free(disk[IfreeBlock(i)]) \subseteq AllBits(i)
  /\ dirty \subseteq Blocks /\ idirty \subseteq Inos
  /\ \A i \in Inos \cup {Root} : inode[i] \in Record \cup {Out}
  /\ mkfs \in -1 .. Len(Image) - 1

\* What a sync has saved with no change since it began is on the device,
\* through unmount, crash and mount, and memory agrees with it: sync_fs and
\* write_inode leave out no counter, no part of a bitmap and no field.
SyncedIsDurable ==
  synced # Nothing => /\ Saved(disk) = synced
                      /\ Mounted => InMemory = synced

\* In a partition that no crash has torn, whatever was mounted, unmounted and
\* written back in between, the counters of sbi count the bits that are set
\* (one more for inodes: mkfs does not count inode 0), and every file has an
\* inode and an index block of its own, which the bitmaps hold as used.
Consistent ==
  Mounted /\ ~ torn =>
    /\ sbi.blocks = Cardinality(FreeBlocks)
    /\ sbi.inodes = Cardinality(FreeInos) + 1
    /\ Entries \cap sbi.ifree = {}
    /\ LET index == [i \in Entries |-> InMemory.inodes[i].index]
       IN  /\ \A i, j \in Entries : index[i] = index[j] => i = j
           /\ \A i \in Entries : index[i] \notin sbi.bfree \cup 0 .. RootBlock
=============================================================================
