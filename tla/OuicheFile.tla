----------------------------- MODULE OuicheFile -----------------------------
(***************************************************************************)
(* Regular files of ouichefs: allocation of blocks (bitmap.h), the index   *)
(* block of a file (block.c) and the operations create, open, read, write  *)
(* (insertion) and unlink (file.c, inode.c).                               *)
(*                                                                         *)
(* read and write hold the lock of the inode from beginning to end, so one *)
(* call is one action.  BlockAlloc models what that lock does not cover.   *)
(* The four widths of the code are parameters: NumberMask and BlockSize    *)
(* (BlockEntry), MaxBlocks (OUICHEFS_MAX_BLOCKS_PER_FILE, which is also    *)
(* the number of words of an index block) and NrBlocks (sbi->nr_blocks).   *)
(*                                                                         *)
(* A definition introduced as a slip is a mistake the code could contain   *)
(* and does not: no action uses it, and each property is falsified by a    *)
(* specification in which a slip replaces the definition after it.         *)
(***************************************************************************)
EXTENDS BlockEntry, Sequences, FiniteSets, FiniteSetsExt, SequencesExt

CONSTANTS
  NrBlocks,    \* blocks of the partition, numbered from 0
  FirstData,   \* first block after the metadata and the root directory
  MaxBlocks,   \* words of an index block
  Inodes,      \* inode numbers of regular files
  Byte,        \* values of a byte
  Payloads,    \* non-empty byte sequences that programs write
  Offsets,     \* offsets at which programs read and write
  ReadLens     \* lengths that programs read

ASSUME DiskAssumption ==
  /\ FirstData \in Nat \ {0}
  /\ NrBlocks \in Nat /\ FirstData < NrBlocks
  /\ NrBlocks < NumberMask
  /\ MaxBlocks \in Nat \ {0}

ASSUME InputAssumption ==
  /\ 0 \in Byte
  /\ Payloads \subseteq Seq(Byte) \ {<<>>}
  /\ Offsets \subseteq Nat
  /\ ReadLens \subseteq Nat \ {0}

VARIABLES
  free,     \* sbi->bfree_bitmap: the bits that are set
  nrFree,   \* sbi->nr_free_blocks
  inode,    \* the inodes: linked, i_size, i_blocks, index_block
  index,    \* the words of each inode's index block
  data,     \* the bytes of each block
  corrupt,  \* a call has read or written memory or a block it does not own
  ret       \* what the last call returned: an errno or 0, and bytes read

disk == <<free, nrFree, inode, index, data>>
vars == <<free, nrFree, inode, index, data, corrupt, ret>>

Blocks == 0 .. NrBlocks - 1
DataBlocks == FirstData .. NrBlocks - 1
Slots == 0 .. MaxBlocks - 1
Block == [0 .. BlockSize - 1 -> Byte]
Zeros == [x \in 0 .. BlockSize - 1 |-> 0]

\* OUICHEFS_MAX_FILESIZE - 1024, that is 1024 * 4095.
MaxFileSize == MaxBlocks * MaxBlockSize

NoInode == [linked |-> FALSE, size |-> 0, blocks |-> 0, indexBlock |-> 0]

Errnos == {"OK", "EIO", "ENOSPC", "ESPIPE", "EFBIG", "EFAULT"}
Ret(e, bytes) == [errno |-> e, bytes |-> bytes]

-----------------------------------------------------------------------------
(* bitmap.h *)

Rank(b) == Cardinality({c \in free : c < b})

\* The blocks that n successive calls of get_free_block return.
FirstFree(n) ==
  {al \in [0 .. n - 1 -> {b \in free \cap Blocks : Rank(b) < n}] :
     \A k \in 0 .. n - 1 : Rank(al[k]) = k}

\* How many calls of get_free_block succeed; a set bit 0 reads as "none".
Available == IF 0 \in free THEN 0 ELSE Cardinality(free \cap Blocks)

\* Slip: no comparison with the size of the bitmap.
AcceptsAll(i) == TRUE

\* put_free_bit refuses only numbers above the size of the bitmap.
Accepted(i) == i =< NrBlocks

-----------------------------------------------------------------------------
(* The layout of a file *)

\* nr_blocks: the data blocks of a file, without its index block.
NrUsed(f) == inode[f].blocks - 1

SizeAt(f, s) == get_block_size(index[f][s])
NumberAt(f, s) == get_block_number(index[f][s])

\* nr_jumped_bytes after the block in slot i.
Jumped(f, i) == MapThenSumSet(LAMBDA s : SizeAt(f, s), 0 .. i)

\* memcpy, copy_from_user and memset: cnt bytes of src from position from.
Copy(dst, at, src, from, cnt) ==
  [x \in 0 .. BlockSize - 1 |->
     IF at =< x /\ x < at + cnt THEN src[x - at + from] ELSE dst[x]]

\* The bytes a reader of the whole file finds, block after block.
Content(f) ==
  FlattenSeq([i \in 1 .. NrUsed(f) |->
    [x \in 1 .. SizeAt(f, i - 1) |-> data[NumberAt(f, i - 1)][x - 1]]])

-----------------------------------------------------------------------------
(* ouichefs_create with ouichefs_new_inode, ouichefs_open, ouichefs_unlink *)

Init ==
  /\ free = DataBlocks
  /\ nrFree = NrBlocks - FirstData
  /\ inode = [f \in Inodes |-> NoInode]
  /\ index = [f \in Inodes |-> [s \in Slots |-> 0]]
  /\ data = [b \in Blocks |-> Zeros]
  /\ corrupt = FALSE
  /\ ret = Ret("OK", <<>>)

\* Memory is intact and the file exists.
Live(f) == ~ corrupt /\ inode[f].linked

\* Which free inode number is taken, and the directory, are left open here.
Create(f) ==
  /\ ~ corrupt /\ ~ inode[f].linked
  /\ nrFree > 0 /\ Available > 0
  /\ \E al \in FirstFree(1) :
       /\ free' = free \ {al[0]}
       /\ nrFree' = nrFree - 1
       /\ inode' = [inode EXCEPT ![f] = [linked |-> TRUE, size |-> 0,
                                        blocks |-> 1, indexBlock |-> al[0]]]
       /\ index' = [index EXCEPT ![f] = [s \in Slots |-> 0]]
       /\ data' = [data EXCEPT ![al[0]] = Zeros]
  /\ ret' = Ret("OK", <<>>)
  /\ UNCHANGED corrupt

CreateFails(f) ==
  /\ ~ corrupt /\ ~ inode[f].linked
  /\ nrFree = 0 \/ Available = 0
  /\ free' = IF nrFree > 0 THEN free \ {0} ELSE free
  /\ ret' = Ret("ENOSPC", <<>>)
  /\ UNCHANGED <<nrFree, inode, index, data, corrupt>>

\* Slip: the result of put_free_bit is ignored and every word counted.
PutWordsCounted(f, slots) ==
  /\ free' = free \cup {index[f][s] : s \in {t \in slots : Accepted(index[f][t])}}
  /\ nrFree' = nrFree + Cardinality(slots)

\* The blocks freed are the words of the index, size field included.
PutWords(f, slots) ==
  LET put == {s \in slots : Accepted(index[f][s])}
  IN  /\ free' = free \cup {index[f][s] : s \in put}
      /\ nrFree' = nrFree + Cardinality(put)

\* The slots before the first word that is zero.
Prefix(f) == {s \in Slots : \A t \in 0 .. s : index[f][t] # 0}

\* Opened for writing with O_TRUNC, and not empty.
OpenTrunc(f) ==
  /\ Live(f)
  /\ inode[f].size # 0
  /\ Prefix(f) # Slots
  /\ PutWords(f, Prefix(f))
  /\ index' = [index EXCEPT ![f] =
                 [s \in Slots |-> IF s \in Prefix(f) THEN 0 ELSE @[s]]]
  /\ inode' = [inode EXCEPT ![f].size = 0, ![f].blocks = 0]
  /\ ret' = Ret("OK", <<>>)
  /\ UNCHANGED <<data, corrupt>>

\* The loop over the words has no bound: it frees and clears all those of a
\* full index block and goes on after its end, before i_size is assigned.
OpenOverrun(f) ==
  /\ Live(f)
  /\ inode[f].size # 0
  /\ Prefix(f) = Slots
  /\ PutWords(f, Slots)
  /\ index' = [index EXCEPT ![f] = [s \in Slots |-> 0]]
  /\ corrupt' = TRUE
  /\ UNCHANGED <<inode, data, ret>>

\* A word whose size is not zero is no block number: put_block refuses it
\* and sb_bread fails, so the block is neither freed nor scrubbed.
Unlink(f) ==
  /\ Live(f)
  /\ NrUsed(f) >= 0
  /\ LET words == {s \in Slots : s < NrUsed(f) /\ index[f][s] # 0}
         put == {s \in words : Accepted(index[f][s])}
     IN  /\ free' = free \cup {index[f][s] : s \in put}
                         \cup {inode[f].indexBlock}
         /\ nrFree' = nrFree + Cardinality(put) + 1
         /\ data' = [b \in Blocks |->
              IF \E s \in words : index[f][s] = b THEN Zeros ELSE data[b]]
  /\ index' = [index EXCEPT ![f] = [s \in Slots |-> 0]]
  /\ inode' = [inode EXCEPT ![f] = NoInode]
  /\ ret' = Ret("OK", <<>>)
  /\ UNCHANGED corrupt

\* i_blocks - 1 is unsigned: after O_TRUNC the loop passes the words, which are
\* all zero, and goes on after the end of the index block.
UnlinkOverrun(f) ==
  /\ Live(f)
  /\ NrUsed(f) < 0
  /\ corrupt' = TRUE
  /\ UNCHANGED <<disk, ret>>

-----------------------------------------------------------------------------
(* ouichefs_read *)

ReadBytes(f, off, len) ==
  LET nr == NrUsed(f)
      i == Min({k \in 0 .. nr - 1 : off =< Jumped(f, k)} \cup {nr})
      jump(j) == IF j = i THEN SizeAt(f, j) - (Jumped(f, j) - off) ELSE 0
      before(j) == IF j = i THEN 0 ELSE Jumped(f, j - 1) - off
      left(j) == Max({0, Min({len, inode[f].size}) - before(j)})
      part(j) == [x \in 1 .. Min({left(j), SizeAt(f, j) - jump(j)}) |->
                    data[NumberAt(f, j)][jump(j) + x - 1]]
  IN  FlattenSeq([k \in 1 .. nr - i |-> part(i + k - 1)])

Read(f, off, len) ==
  /\ Live(f)
  /\ ret' = IF off > MaxFileSize \/ off >= inode[f].size
              THEN Ret("ESPIPE", <<>>)
              ELSE Ret("OK", ReadBytes(f, off, len))
  /\ UNCHANGED <<disk, corrupt>>

-----------------------------------------------------------------------------
(* fileinfo_ioctl of a regular file; what it logs is its result here. *)

Waste(f, s) == MaxBlockSize - SizeAt(f, s)

\* The blocks used, those of them filled in part, and the bytes left in these.
FileInfo(f) ==
  /\ Live(f)
  /\ NrUsed(f) >= 0
  /\ LET partly == {s \in 0 .. NrUsed(f) - 1 : Waste(f, s) # 0}
     IN  ret' = Ret("OK", <<NrUsed(f), Cardinality(partly),
                            MapThenSumSet(LAMBDA s : Waste(f, s), partly)>>)
  /\ UNCHANGED <<disk, corrupt>>

\* As in unlink, i_blocks - 1 has no sign: after O_TRUNC the loop reads on after
\* the end of the index block.
FileInfoOverrun(f) ==
  /\ Live(f)
  /\ NrUsed(f) < 0
  /\ corrupt' = TRUE
  /\ UNCHANGED <<disk, ret>>

-----------------------------------------------------------------------------
(* ouichefs_write *)

\* block_jump: the first block at whose end the offset is reached, else the
\* last one.  block_jump and byte_jump are assigned in the loop over the
\* blocks only; when the file has none they are 0, as the kernel the project
\* builds with clears its stack (CONFIG_INIT_STACK_ALL_ZERO in config-lkp).
BlockJump(f, off) ==
  IF NrUsed(f) =< 0 THEN 0
  ELSE Min({i \in 0 .. NrUsed(f) - 1 : Jumped(f, i) >= off}
           \cup {NrUsed(f) - 1})

\* Slip: the bytes after the offset instead of those before it.
ByteJumpFromEnd(f, off, bj) ==
  IF NrUsed(f) =< 0 THEN 0 ELSE Jumped(f, bj) - off

ByteJump(f, off, bj) ==
  IF NrUsed(f) =< 0 THEN 0 ELSE SizeAt(f, bj) - (Jumped(f, bj) - off)

\* CEIL(byte_jump + len, OUICHEFS_MAX_BLOCK_SIZE)
Needed(byj, len) == (byj + len + MaxBlockSize - 1) \div MaxBlockSize

NrToAllocate(f, byj, len) ==
  IF NrUsed(f) + Needed(byj, len) > MaxBlocks
  THEN MaxBlocks - NrUsed(f)
  ELSE Needed(byj, len)

\* The early returns, in the order of the code.
WriteErrno(off, len, n) ==
  CASE off > MaxFileSize       -> "ESPIPE"
    [] off + len > MaxFileSize -> "ENOSPC"
    [] n = 0                   -> "EFBIG"
    [] n > nrFree              -> "ENOSPC"
    [] OTHER                   -> "OK"

\* block_jump, byte_jump and nr_blocks_to_allocate of a write that passes the
\* checks.  All three stay in the range of a file's offsets and slots.
Plan == [bj : Slots, byj : 0 .. MaxFileSize, n : 1 .. MaxBlocks]

Plans(f, off, len) ==
  LET bj == BlockJump(f, off)
      byj == ByteJump(f, off, bj)
      n == NrToAllocate(f, byj, len)
  IN  IF Live(f) /\ off + len =< MaxFileSize
               /\ WriteErrno(off, len, n) = "OK"
      THEN {[bj |-> bj, byj |-> byj, n |-> n]} \cap Plan
      ELSE {}

NotNew(f) == inode[f].size > 0

\* Slip: the block at block_jump is allocated again.
FirstAtJump(f, w) == w.bj

\* first_block_to_allocate
First(f, w) == IF NotNew(f) THEN w.bj + 1 ELSE w.bj

\* The words above block_jump move up by n slots, then the first m of the
\* slots to allocate get a block of size 0.
Shifted(f, w) ==
  [s \in Slots |-> IF w.bj + w.n < s /\ s < NrUsed(f) + w.n
                   THEN index[f][s - w.n] ELSE index[f][s]]

Allocated(f, w, m, al) ==
  [s \in Slots |->
     IF First(f, w) =< s /\ s < First(f, w) + m
     THEN set_block_size(set_block_number(Shifted(f, w)[s],
                                          al[s - First(f, w)]), 0)
     ELSE Shifted(f, w)[s]]

\* The sizes after the second part of the block at block_jump has gone to
\* the last new block.
SplitIndex(f, w, al) ==
  LET ix == Allocated(f, w, w.n, al)
      rest == get_block_size(ix[w.bj]) - w.byj
  IN  IF NotNew(f)
      THEN [ix EXCEPT ![w.bj] = set_block_size(@, w.byj),
                      ![w.bj + w.n] = set_block_size(@, Max({0, rest}))]
      ELSE ix

\* The blocks after the memcpy of that second part and the memset.
SplitData(f, w, al, len) ==
  LET ix == Allocated(f, w, w.n, al)
      cut == get_block_number(ix[IF NotNew(f) THEN w.bj ELSE 0])
      moved == IF NotNew(f)
               THEN [data EXCEPT ![al[w.n - 1]] =
                       Copy(@, 0, data[cut], w.byj, MaxBlockSize - w.byj)]
               ELSE data
  IN  IF w.byj + len < MaxBlockSize
      THEN [moved EXCEPT ![cut] = Copy(@, w.byj + len, Zeros, 0,
                                       MaxBlockSize - w.byj - len)]
      ELSE moved

\* Slip: any file that has a block is written in one copy.
CopiesOnce(f, w) == IF NrUsed(f) >= 1 THEN 1 ELSE w.n

\* The copy loop runs over n blocks, or over one if the file had one block.
Copies(f, w) == IF NrUsed(f) = 1 THEN 1 ELSE w.n

\* Where iteration k writes in its block, from which byte, and how much.
At(w, k) == IF k = 0 THEN w.byj ELSE 0
Source(w, k) == IF k = 0 THEN 0 ELSE k * MaxBlockSize - w.byj
Amount(f, w, len, k) ==
  IF k = Copies(f, w) - 1 THEN len - Source(w, k) ELSE MaxBlockSize - At(w, k)

\* The words and the blocks after c iterations of the loop.
CopyIndex(f, w, al, len, c) ==
  LET ix == SplitIndex(f, w, al)
  IN  [s \in Slots |->
         IF w.bj =< s /\ s < w.bj + c
         THEN set_block_size(ix[s],
                IF s - w.bj = Copies(f, w) - 1
                THEN get_block_size(ix[s]) + Amount(f, w, len, s - w.bj)
                ELSE MaxBlockSize)
         ELSE ix[s]]

CopyData(f, w, al, d, c) ==
  LET block(k) == get_block_number(Allocated(f, w, w.n, al)[w.bj + k])
      chunk(dst, k) == Copy(dst, At(w, k), d, Source(w, k) + 1,
                            Amount(f, w, Len(d), k))
      old == SplitData(f, w, al, Len(d))
      head == IF c = 0 THEN old ELSE [old EXCEPT ![block(0)] = chunk(@, 0)]
  IN  [b \in Blocks |->
         IF \E k \in 1 .. c - 1 : block(k) = b
         THEN chunk(head[b], CHOOSE k \in 1 .. c - 1 : block(k) = b)
         ELSE head[b]]

\* memcpy with a negative length, a word after the end of the index block,
\* or copy_from_user past the end of a block.
Overruns(f, w, len) ==
  \/ w.byj > MaxBlockSize
  \/ First(f, w) + w.n > MaxBlocks
  \/ LET k == Copies(f, w) - 1
     IN  At(w, k) + Amount(f, w, len, k) > BlockSize

\* Slip: the gap is not counted.
EmptySpaceIgnored(f, off) == 0

\* empty_space: the bytes between the end of the file and the offset.
EmptySpace(f, off) == IF off > inode[f].size THEN off - inode[f].size ELSE 0

\* Slip: only the first of the blocks is marked used.
TakenFirst(al) == {al[0]}

Taken(al) == {al[k] : k \in DOMAIN al}

Write(f, off, d, w) ==
  /\ w.n =< Available
  /\ ~ Overruns(f, w, Len(d))
  /\ \E al \in FirstFree(w.n) :
       /\ free' = free \ Taken(al)
       /\ index' = [index EXCEPT ![f] =
                      CopyIndex(f, w, al, Len(d), Copies(f, w))]
       /\ data' = CopyData(f, w, al, d, Copies(f, w))
  /\ nrFree' = nrFree - w.n
  /\ inode' = [inode EXCEPT ![f].blocks = @ + w.n,
                            ![f].size = @ + Len(d) + EmptySpace(f, off)]
  /\ ret' = Ret("OK", <<>>)
  /\ UNCHANGED corrupt

\* The writes that leave their buffers, up to the access that does.  The loop of
\* the allocation reaches the end of the index block with a block in hand;
IndexOverrun(f, w) ==
  LET m == MaxBlocks - First(f, w)
  IN  /\ m < w.n
      /\ \E al \in FirstFree(m + 1) :
           /\ free' = free \ Taken(al)
           /\ index' = [index EXCEPT ![f] = Allocated(f, w, m, al)]
      /\ nrFree' = nrFree - (m + 1)
      /\ UNCHANGED <<inode, data>>

\* the memcpy of the split has a negative length;
SplitOverrun(f, w) ==
  /\ First(f, w) + w.n =< MaxBlocks
  /\ w.byj > MaxBlockSize
  /\ \E al \in FirstFree(w.n) :
       /\ free' = free \ Taken(al)
       /\ index' = [index EXCEPT ![f] = Allocated(f, w, w.n, al)]
  /\ nrFree' = nrFree - w.n
  /\ inode' = [inode EXCEPT ![f].blocks = @ + w.n]
  /\ UNCHANGED data

\* or the last copy is longer than what is left of its block.
CopyOverrun(f, d, w) ==
  /\ First(f, w) + w.n =< MaxBlocks
  /\ w.byj =< MaxBlockSize
  /\ \E al \in FirstFree(w.n) :
       /\ free' = free \ Taken(al)
       /\ index' = [index EXCEPT ![f] =
                      CopyIndex(f, w, al, Len(d), Copies(f, w) - 1)]
       /\ data' = CopyData(f, w, al, d, Copies(f, w) - 1)
  /\ nrFree' = nrFree - w.n
  /\ inode' = [inode EXCEPT ![f].blocks = @ + w.n]

WriteOverrun(f, d, w) ==
  /\ w.n =< Available
  /\ Overruns(f, w, Len(d))
  /\ IndexOverrun(f, w) \/ SplitOverrun(f, w) \/ CopyOverrun(f, d, w)
  /\ corrupt' = TRUE
  /\ UNCHANGED ret

WriteRejected(f, off, d) ==
  /\ Live(f)
  /\ LET byj == ByteJump(f, off, BlockJump(f, off))
         e == WriteErrno(off, Len(d), NrToAllocate(f, byj, Len(d)))
     IN  e # "OK" /\ ret' = Ret(e, <<>>)
  /\ UNCHANGED <<disk, corrupt>>

-----------------------------------------------------------------------------
(* The ways ouichefs_write stops half way.  Nothing done so far is undone. *)

\* get_free_block finds nothing although the counter promised n blocks, or
\* the m-th new block cannot be read: i_blocks keeps its old value.
WriteAllocFails(f, w) ==
  /\ \E m \in (1 .. Min({w.n, Available}))
               \cup (IF Available < w.n THEN {Available} ELSE {}) :
       /\ First(f, w) + m =< MaxBlocks
       /\ \E al \in FirstFree(m) :
            /\ free' = (IF m < w.n /\ m = Available THEN free \ {0} ELSE free)
                        \ Taken(al)
            /\ index' = [index EXCEPT ![f] = Allocated(f, w, m, al)]
       /\ nrFree' = nrFree - m
  /\ ret' = Ret("ENOSPC", <<>>)
  /\ UNCHANGED <<inode, data, corrupt>>

\* The block at block_jump cannot be read.
WriteSplitFails(f, w) ==
  /\ w.n =< Available
  /\ First(f, w) + w.n =< MaxBlocks
  /\ \E al \in FirstFree(w.n) :
       /\ free' = free \ Taken(al)
       /\ index' = [index EXCEPT ![f] = Allocated(f, w, w.n, al)]
  /\ nrFree' = nrFree - w.n
  /\ inode' = [inode EXCEPT ![f].blocks = @ + w.n]
  /\ ret' = Ret("ENOSPC", <<>>)
  /\ UNCHANGED <<data, corrupt>>

\* Block c of the loop cannot be read (EIO), or the user's memory cannot be
\* read after p bytes (EFAULT; copy_from_user zeroes the remainder).
WriteCopyFails(f, d, w, c) ==
  /\ w.n =< Available
  /\ ~ Overruns(f, w, Len(d))
  /\ c < Copies(f, w)
  /\ \E al \in FirstFree(w.n) :
       LET ix == CopyIndex(f, w, al, Len(d), c)
           done == CopyData(f, w, al, d, c)
           b == get_block_number(ix[w.bj + c])
           cnt == Amount(f, w, Len(d), c)
       IN  /\ free' = free \ Taken(al)
           /\ index' = [index EXCEPT ![f] = ix]
           /\ \/ data' = done /\ ret' = Ret("EIO", <<>>)
              \/ /\ \E p \in 0 .. cnt - 1 :
                     data' = [done EXCEPT ![b] =
                       Copy(Copy(@, At(w, c), Zeros, 0, cnt), At(w, c),
                            d, Source(w, c) + 1, p)]
                 /\ ret' = Ret("EFAULT", <<>>)
  /\ nrFree' = nrFree - w.n
  /\ inode' = [inode EXCEPT ![f].blocks = @ + w.n]
  /\ UNCHANGED corrupt

-----------------------------------------------------------------------------
(* Every use of the file system in which no device or memory access fails. *)

Next ==
  \E f \in Inodes :
    \/ Create(f) \/ CreateFails(f)
    \/ OpenTrunc(f) \/ OpenOverrun(f)
    \/ Unlink(f) \/ UnlinkOverrun(f)
    \/ FileInfo(f) \/ FileInfoOverrun(f)
    \/ \E off \in Offsets, len \in ReadLens : Read(f, off, len)
    \/ \E off \in Offsets, d \in Payloads :
         \/ WriteRejected(f, off, d)
         \/ \E w \in Plans(f, off, Len(d)) :
              Write(f, off, d, w) \/ WriteOverrun(f, d, w)

Spec == Init /\ [][Next]_vars

(* The uses the insertion algorithm is right for: the blocks needed are not *)
(* truncated by MaxBlocks, a file of one block receives no more than one,   *)
(* an empty file is written at its beginning, a write after the end of the  *)
(* file begins in its last block, and there is no O_TRUNC.  Some failures   *)
(* half way are harmless too: of the allocation when no word has moved, of  *)
(* the split and of the first copy into a file that is not empty.           *)

Supported(f, off, len, w) ==
  /\ w.n = Needed(w.byj, len)
  /\ NrUsed(f) = 1 => w.n = 1
  /\ NotNew(f) \/ off = 0
  /\ w.byj =< MaxBlockSize

SupportedNext ==
  \E f \in Inodes :
    \/ Create(f) \/ CreateFails(f)
    \/ Unlink(f)
    \/ \E off \in Offsets, len \in ReadLens : Read(f, off, len)
    \/ \E off \in Offsets, d \in Payloads :
         \/ WriteRejected(f, off, d)
         \/ \E w \in Plans(f, off, Len(d)) :
              /\ Supported(f, off, Len(d), w)
              /\ \/ Write(f, off, d, w)
                 \/ w.bj >= NrUsed(f) - 1 /\ WriteAllocFails(f, w)
                 \/ NotNew(f) /\ WriteSplitFails(f, w)
                 \/ /\ NotNew(f) /\ off =< inode[f].size
                    /\ WriteCopyFails(f, d, w, 0)

SupportedSpec == Init /\ [][SupportedNext]_vars

-----------------------------------------------------------------------------
(* Properties *)

\* Types: the bitmap holds only data blocks, a word has its two fields, and
\* i_blocks never exceeds the words of an index block and the block itself.
TypeOK ==
  /\ free \subseteq DataBlocks
  /\ nrFree \in Int
  /\ inode \in [Inodes -> [linked : BOOLEAN, size : Nat,
                           blocks : 0 .. MaxBlocks + 1,
                           indexBlock : DataBlocks \cup {0}]]
  /\ index \in [Inodes -> [Slots -> Word]]
  /\ data \in [Blocks -> Block]
  /\ corrupt \in BOOLEAN
  /\ ret.errno \in Errnos

Linked == {f \in Inodes : inode[f].linked}

\* The blocks that belong to a file, with the place that holds their number.
\* Slot -1 stands for index_block.
Place(f, s) == IF s = -1 THEN inode[f].indexBlock ELSE NumberAt(f, s)
Held(f) == {-1} \cup {s \in Slots : index[f][s] # 0}

\* A block that an inode or a word of an index block names is a data block,
\* is not free, and no other inode or word names it: insertion shifts, splits
\* and allocates words, truncation and unlink clear them.
NoSharing ==
  \A f \in Linked : \A s \in Held(f) :
    /\ Place(f, s) \in DataBlocks \ free
    /\ \A g \in Linked : \A t \in Held(g) :
         Place(f, s) = Place(g, t) => f = g /\ s = t

\* sbi->nr_free_blocks, which every operation updates apart from the bitmap,
\* is the number of bits set in the bitmap.
FreeCountExact == nrFree = Cardinality(free)

\* A call that stays in its buffers changes the bytes of one file at most,
\* whatever blocks it moves and whether or not it succeeds.
OneFileChanges ==
  [][~ corrupt' => \E f \in Inodes :
                     \A g \in Linked \ {f} : Content(g)' = Content(g)]_vars

\* i_size is the sum of the sizes in the words of the file's blocks.
SizeIsSum == \A f \in Linked : inode[f].size = Len(Content(f))

\* No buffer is overrun.
InBounds == ~ corrupt

\* unlink and O_TRUNC give back every block of the file.
NoLeak ==
  \A b \in DataBlocks \ free :
    \E f \in Linked : \E s \in Held(f) : Place(f, s) = b

\* A supported write never leaves the buffers and the index block.
SupportedInBounds ==
  \A f \in Inodes, off \in Offsets, d \in Payloads :
    \A w \in Plans(f, off, Len(d)) :
      Supported(f, off, Len(d), w) => ~ Overruns(f, w, Len(d))

\* Used as the contract says: insertion at an offset, reads that return the
\* bytes from the offset on, errors that change nothing.
Store == INSTANCE FileStore WITH files <- [f \in Linked |-> Content(f)]
RefinesStore == Store!Spec

=============================================================================
