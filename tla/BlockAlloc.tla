----------------------------- MODULE BlockAlloc -----------------------------
(***************************************************************************)
(* get_free_block and put_block (bitmap.h) instruction by instruction, as  *)
(* threads call them from write, unlink, defrag and open.                  *)
(*                                                                         *)
(* Neither function takes a lock.  The callers hold the lock of the inode  *)
(* they work on, so threads on one file exclude each other and threads on  *)
(* two files do not; open with O_TRUNC, which gives back blocks too, holds *)
(* no lock at all.  find_first_bit, the read-modify-write of the bitmap    *)
(* word (bitmap_clear and bitmap_set of one bit are not atomic) and the    *)
(* one of nr_free_blocks are separate steps.                               *)
(*                                                                         *)
(* LockedSpec has the calls that hold the lock of their inode; Spec has    *)
(* the truncating opens beside them.                                       *)
(*                                                                         *)
(* A definition introduced as a slip is a mistake the code could contain   *)
(* and does not; no action uses it.                                        *)
(***************************************************************************)
EXTENDS Integers, FiniteSets

CONSTANTS
  Threads,
  Nobody,     \* the holder of a free lock
  Files,
  FileOf,     \* the file each thread works on
  DataBlocks, \* the blocks that are free at first
  WordBits    \* bits in a word of the bitmap

ASSUME AllocAssumption ==
  /\ Nobody \notin Threads
  /\ FileOf \in [Threads -> Files]
  /\ DataBlocks \subseteq Nat \ {0}
  /\ IsFiniteSet(DataBlocks)
  /\ WordBits \in Nat \ {0}

VARIABLES
  bits,     \* sbi->bfree_bitmap
  count,    \* sbi->nr_free_blocks
  owner,    \* the thread that holds each inode's lock
  used,     \* the blocks that each file's index names
  bare,     \* those of them whose word has size 0
  pc,       \* where each thread is
  blk,      \* the block that a thread allocates or gives back
  word,     \* the bitmap word that a thread has loaded
  num       \* the value of nr_free_blocks that a thread has loaded

vars == <<bits, count, owner, used, bare, pc, blk, word, num>>
locals == <<blk, word, num>>

WordOf(b) == {c \in DataBlocks : c \div WordBits = b \div WordBits}

Init ==
  /\ bits = DataBlocks
  /\ count = Cardinality(DataBlocks)
  /\ owner = [f \in Files |-> Nobody]
  /\ used = [f \in Files |-> {}]
  /\ bare = [f \in Files |-> {}]
  /\ pc = [t \in Threads |-> "out"]
  /\ blk = [t \in Threads |-> 0]
  /\ word = [t \in Threads |-> {}]
  /\ num = [t \in Threads |-> 0]

Goto(t, from, to) == pc[t] = from /\ pc' = [pc EXCEPT ![t] = to]

\* Slip: the lock is taken whoever holds it.
LockAlways(t) ==
  /\ Goto(t, "out", "in")
  /\ owner' = [owner EXCEPT ![FileOf[t]] = t]
  /\ UNCHANGED <<bits, count, used, bare, locals>>

Lock(t) ==
  /\ Goto(t, "out", "in")
  /\ owner[FileOf[t]] = Nobody
  /\ owner' = [owner EXCEPT ![FileOf[t]] = t]
  /\ UNCHANGED <<bits, count, used, bare, locals>>

Unlock(t) ==
  /\ Goto(t, "in", "out")
  /\ owner' = [owner EXCEPT ![FileOf[t]] = Nobody]
  /\ UNCHANGED <<bits, count, used, bare, locals>>

\* Slip: find_first_bit's answer for an empty bitmap, its size, is not tested.
FindUntested(t) ==
  /\ Goto(t, "in", "clear")
  /\ \E b \in bits \cup {Cardinality(DataBlocks) + 1} :
       /\ \A c \in bits : b =< c
       /\ blk' = [blk EXCEPT ![t] = b]
  /\ UNCHANGED <<bits, count, owner, used, bare, word, num>>

\* get_free_block: find_first_bit, then bitmap_clear, then the counter.
Find(t) ==
  /\ Goto(t, "in", "clear")
  /\ \E b \in bits : /\ \A c \in bits : b =< c
                     /\ blk' = [blk EXCEPT ![t] = b]
  /\ UNCHANGED <<bits, count, owner, used, bare, word, num>>

ClearLoad(t) ==
  /\ Goto(t, "clear", "cleared")
  /\ word' = [word EXCEPT ![t] = bits \cap WordOf(blk[t])]
  /\ UNCHANGED <<bits, count, owner, used, bare, blk, num>>

ClearStore(t) ==
  /\ Goto(t, "cleared", "decrement")
  /\ bits' = (bits \ WordOf(blk[t])) \cup (word[t] \ {blk[t]})
  /\ UNCHANGED <<count, owner, used, bare, locals>>

DecLoad(t) ==
  /\ Goto(t, "decrement", "return")
  /\ num' = [num EXCEPT ![t] = count]
  /\ UNCHANGED <<bits, count, owner, used, bare, blk, word>>

\* The caller stores the number it got in the index block of its file, with
\* size 0.
Return(t) ==
  /\ Goto(t, "return", "in")
  /\ count' = num[t] - 1
  /\ used' = [used EXCEPT ![FileOf[t]] = @ \cup {blk[t]}]
  /\ bare' = [bare EXCEPT ![FileOf[t]] = @ \cup {blk[t]}]
  /\ UNCHANGED <<bits, owner, locals>>

\* The write goes on and gives the word its size, or fails before it does.
SetSize(t) ==
  /\ pc[t] = "in"
  /\ \E b \in bare[FileOf[t]] : bare' = [bare EXCEPT ![FileOf[t]] = @ \ {b}]
  /\ UNCHANGED <<bits, count, owner, used, pc, locals>>

\* put_block: bitmap_set, then the counter.
Put(t) ==
  /\ Goto(t, "in", "set")
  /\ \E b \in used[FileOf[t]] :
       /\ blk' = [blk EXCEPT ![t] = b]
       /\ used' = [used EXCEPT ![FileOf[t]] = @ \ {b}]
       /\ bare' = [bare EXCEPT ![FileOf[t]] = @ \ {b}]
  /\ UNCHANGED <<bits, count, owner, word, num>>

SetLoad(t) ==
  /\ Goto(t, "set", "put")
  /\ word' = [word EXCEPT ![t] = bits \cap WordOf(blk[t])]
  /\ UNCHANGED <<bits, count, owner, used, bare, blk, num>>

\* Slip: the word is overwritten by the one bit.
SetStoreAlone(t) ==
  /\ Goto(t, "put", "increment")
  /\ bits' = (bits \ WordOf(blk[t])) \cup {blk[t]}
  /\ UNCHANGED <<count, owner, used, bare, locals>>

SetStore(t) ==
  /\ Goto(t, "put", "increment")
  /\ bits' = (bits \ WordOf(blk[t])) \cup word[t] \cup {blk[t]}
  /\ UNCHANGED <<count, owner, used, bare, locals>>

IncLoad(t) ==
  /\ Goto(t, "increment", "leave")
  /\ num' = [num EXCEPT ![t] = count]
  /\ UNCHANGED <<bits, count, owner, used, bare, blk, word>>

IncStore(t) ==
  /\ Goto(t, "leave", "in")
  /\ owner[FileOf[t]] = t
  /\ count' = num[t] + 1
  /\ UNCHANGED <<bits, owner, used, bare, locals>>

\* open with O_TRUNC of a file that has bytes (in blocks it had at first):
\* put_block gets each word of the index, whoever has the lock of the inode.
\* It refuses a word with a size, whose block stays used, and takes one of
\* size 0; the word is cleared when put_block has returned.  Words that a
\* write moves under the loop are left out.
OpenPut(t) ==
  /\ Goto(t, "out", "set")
  /\ \E b \in bare[FileOf[t]] : blk' = [blk EXCEPT ![t] = b]
  /\ UNCHANGED <<bits, count, owner, used, bare, word, num>>

OpenClear(t) ==
  /\ Goto(t, "leave", "out")
  /\ owner[FileOf[t]] # t
  /\ count' = num[t] + 1
  /\ used' = [used EXCEPT ![FileOf[t]] = @ \ {blk[t]}]
  /\ bare' = [bare EXCEPT ![FileOf[t]] = @ \ {blk[t]}]
  /\ UNCHANGED <<bits, owner, locals>>

LockedStep(t) ==
  \/ Lock(t) \/ Unlock(t) \/ SetSize(t)
  \/ Find(t) \/ ClearLoad(t) \/ ClearStore(t) \/ DecLoad(t) \/ Return(t)
  \/ Put(t) \/ SetLoad(t) \/ SetStore(t) \/ IncLoad(t) \/ IncStore(t)

LockedNext == \E t \in Threads : LockedStep(t)

LockedSpec == Init /\ [][LockedNext]_vars

Step(t) == LockedStep(t) \/ OpenPut(t) \/ OpenClear(t)

Next == \E t \in Threads : Step(t)

Spec == Init /\ [][Next]_vars

-----------------------------------------------------------------------------
(* Properties *)

Labels == {"out", "in", "clear", "cleared", "decrement", "return",
           "set", "put", "increment", "leave"}

TypeOK ==
  /\ bits \subseteq DataBlocks
  /\ count \in Int
  /\ owner \in [Files -> Threads \cup {Nobody}]
  /\ used \in [Files -> SUBSET DataBlocks]
  /\ bare \in [Files -> SUBSET DataBlocks]
  /\ pc \in [Threads -> Labels]
  /\ blk \in [Threads -> DataBlocks \cup {0}]
  /\ word \in [Threads -> SUBSET DataBlocks]
  /\ num \in [Threads -> Int]

Allocating(t) == pc[t] \in {"decrement", "return"}

\* get_free_block returns a block that no file uses and that no other call
\* is about to return.
GetsUnused ==
  \A t \in Threads : Allocating(t) =>
    /\ \A f \in Files : blk[t] \notin used[f]
    /\ \A u \in Threads \ {t} : Allocating(u) => blk[u] # blk[t]

Quiet == \A t \in Threads : pc[t] \in {"out", "in"}

\* When no call is under way a block is free or used by one file, none is
\* lost, and the counter is the number of free blocks.
Conserved ==
  Quiet =>
    /\ bits \cup UNION {used[f] : f \in Files} = DataBlocks
    /\ \A f \in Files : /\ bits \cap used[f] = {}
                        /\ \A g \in Files \ {f} : used[f] \cap used[g] = {}
    /\ count = Cardinality(bits)

=============================================================================
