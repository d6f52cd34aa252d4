---------------------------- MODULE OuicheDefrag ----------------------------
(***************************************************************************)
(* The defragmentation of one file (defrag.c), step by step, beside the    *)
(* operations of OuicheFile on the other files: defrag holds the lock of   *)
(* its inode only, and one iteration of its loops is one action.           *)
(*                                                                         *)
(* Packing moves the bytes of the following blocks into the free end of    *)
(* each block and gives back the blocks it has emptied; the shift then     *)
(* closes the gaps it left in the index block.                             *)
(***************************************************************************)
EXTENDS OuicheFile

VARIABLES
  pc,       \* "idle", "pack" (outer loop), "merge" (inner loop), "shift",
            \* "done", or "crashed" by a step outside the file's blocks
  df,       \* the file
  i, j,     \* the loop variables of defrag
  left,     \* left_empty_bytes
  removed,  \* nr_removed_blocks
  nr,       \* nr_blocks, read once at the beginning
  before    \* history: the bytes of the file when defrag began

locals == <<df, i, j, left, removed, nr, before>>
dvars == <<vars, pc, locals>>

AnInode == CHOOSE f \in Inodes : TRUE

DefragInit ==
  /\ Init
  /\ pc = "idle" /\ df = AnInode
  /\ i = 0 /\ j = 1 /\ left = 0 /\ removed = 0 /\ nr = 0
  /\ before = <<>>

DefragBegin(f) ==
  /\ pc = "idle"
  /\ Live(f)
  /\ pc' = "pack" /\ df' = f
  /\ i' = 0 /\ j' = 1 /\ left' = 0 /\ removed' = 0
  /\ nr' = NrUsed(f)
  /\ before' = Content(f)
  /\ UNCHANGED vars

\* A block without free bytes is skipped.
PackSkip ==
  /\ pc = "pack" /\ i < nr
  /\ MaxBlockSize - SizeAt(df, i) = 0
  /\ i' = i + 1 /\ j' = i + 1
  /\ UNCHANGED <<vars, pc, df, left, removed, nr, before>>

PackEnter ==
  /\ pc = "pack" /\ i < nr
  /\ MaxBlockSize - SizeAt(df, i) # 0
  /\ left' = MaxBlockSize - SizeAt(df, i)
  /\ j' = i + 1
  /\ pc' = "merge"
  /\ UNCHANGED <<vars, df, i, removed, nr, before>>

\* Slips (see OuicheFile): the word stays, the block is not counted as free,
\* the block is not counted as removed.
DropKeepsWord(word) ==
  /\ free' = free \cup {NumberAt(df, j)} /\ nrFree' = nrFree + 1
  /\ index' = [index EXCEPT ![df][i] = word]
  /\ removed' = removed + 1
  /\ j' = j + 1

DropNotFreed(word) ==
  /\ free' = free \cup {NumberAt(df, j)} /\ UNCHANGED nrFree
  /\ index' = [index EXCEPT ![df][i] = word, ![df][j] = 0]
  /\ removed' = removed + 1
  /\ j' = j + 1

DropUncounted(word) ==
  /\ free' = free \cup {NumberAt(df, j)} /\ nrFree' = nrFree + 1
  /\ index' = [index EXCEPT ![df][i] = word, ![df][j] = 0]
  /\ j' = j + 1
  /\ UNCHANGED removed

\* put_block of the number of block j and a zero word in its place.
Drop(word) ==
  /\ IF Accepted(NumberAt(df, j))
     THEN free' = free \cup {NumberAt(df, j)} /\ nrFree' = nrFree + 1
     ELSE UNCHANGED <<free, nrFree>>
  /\ index' = [index EXCEPT ![df][i] = word, ![df][j] = 0]
  /\ removed' = removed + 1
  /\ j' = j + 1

MergeEmpty ==
  /\ pc = "merge" /\ j < nr
  /\ SizeAt(df, j) = 0
  /\ Drop(index[df][i])
  /\ UNCHANGED <<inode, data, corrupt, ret, pc, df, i, left, nr, before>>

\* Slips: only whole blocks move; the bytes move to the start of block i.
MovedWhole == IF SizeAt(df, j) =< left THEN SizeAt(df, j) ELSE 0
GrownFromStart == Copy(data[NumberAt(df, i)], 0, data[NumberAt(df, j)], 0,
                       Min({left, SizeAt(df, j)}))

\* bytes_to_move and the word and the bytes of block i after the move.
Moved == Min({left, SizeAt(df, j)})
GrownWord == set_block_size(index[df][i], SizeAt(df, i) + Moved)
GrownBlock == Copy(data[NumberAt(df, i)], SizeAt(df, i),
                   data[NumberAt(df, j)], 0, Moved)

\* Every byte of block j has moved into block i.
MergeWhole ==
  /\ pc = "merge" /\ j < nr
  /\ SizeAt(df, j) # 0 /\ SizeAt(df, j) = Moved
  /\ data' = [data EXCEPT ![NumberAt(df, i)] = GrownBlock]
  /\ Drop(GrownWord)
  /\ left' = left - Moved
  /\ UNCHANGED <<inode, corrupt, ret, pc, df, i, nr, before>>

\* The remainder of block j goes to a new block; block j is given back only
\* afterwards.
MergePart ==
  /\ pc = "merge" /\ j < nr
  /\ SizeAt(df, j) > Moved
  /\ Available > 0
  /\ \E al \in FirstFree(1) :
       LET old == NumberAt(df, j)
           rest == SizeAt(df, j) - Moved
           grown == [data EXCEPT ![NumberAt(df, i)] = GrownBlock]
       IN  /\ data' = [grown EXCEPT ![al[0]] =
                         Copy(@, 0, grown[old], Moved, rest)]
           /\ index' = [index EXCEPT
                ![df][i] = GrownWord,
                ![df][j] = set_block_number(set_block_size(@, rest), al[0])]
           /\ free' = (free \ {al[0]}) \cup {old}
  /\ left' = left - Moved
  /\ IF get_block_size(GrownWord) = MaxBlockSize
     THEN pc' = "pack" /\ i' = j /\ j' = j
     ELSE pc' = "merge" /\ i' = i /\ j' = j + 1
  /\ UNCHANGED <<nrFree, inode, corrupt, ret, df, removed, nr, before>>

\* The result of get_free_block is not checked: when no block is free, the
\* remainder is written to block 0, the superblock.
MergeStarved ==
  /\ pc = "merge" /\ j < nr
  /\ SizeAt(df, j) > Moved
  /\ Available = 0
  /\ corrupt' = TRUE
  /\ pc' = "crashed"
  /\ UNCHANGED <<disk, ret, locals>>

\* Slip: the outer loop goes on with the block it has filled.
MergeEndStays ==
  /\ pc = "merge" /\ j >= nr
  /\ pc' = "pack"
  /\ UNCHANGED <<vars, df, i, j, left, removed, nr, before>>

MergeEnd ==
  /\ pc = "merge" /\ j >= nr
  /\ pc' = "pack" /\ i' = j
  /\ UNCHANGED <<vars, df, j, left, removed, nr, before>>

PackEnd ==
  /\ pc = "pack" /\ i >= nr
  /\ inode' = [inode EXCEPT ![df].blocks = @ - removed]
  /\ pc' = "shift" /\ i' = 0
  /\ UNCHANGED <<free, nrFree, index, data, corrupt, ret,
                 df, j, left, removed, nr, before>>

PackStep ==
  \/ PackSkip \/ PackEnter
  \/ MergeEmpty \/ MergeWhole \/ MergePart \/ MergeStarved \/ MergeEnd
  \/ PackEnd

-----------------------------------------------------------------------------
(* The shift *)

ShiftSkip ==
  /\ pc = "shift" /\ i < nr
  /\ SizeAt(df, i) # 0
  /\ i' = i + 1
  /\ UNCHANGED <<vars, pc, df, j, left, removed, nr, before>>

\* The slots after i where the inner loop stops: a word with a size, or the
\* last slot, at which defrag gives up and returns.
Stops == {s \in Slots : s > i /\ (SizeAt(df, s) # 0 \/ s = nr - 1)}

\* put_block gets the size of the word that moved instead of its number.
ShiftMove ==
  /\ pc = "shift" /\ i < nr /\ SizeAt(df, i) = 0
  /\ Stops # {} /\ Min(Stops) # nr - 1
  /\ LET s == Min(Stops)
     IN  /\ index' = [index EXCEPT ![df][i] = index[df][s], ![df][s] = 0]
         /\ IF Accepted(SizeAt(df, s))
            THEN free' = free \cup {SizeAt(df, s)} /\ nrFree' = nrFree + 1
            ELSE UNCHANGED <<free, nrFree>>
         /\ j' = s
  /\ i' = i + 1
  /\ UNCHANGED <<inode, data, corrupt, ret, pc, df, left, removed, nr, before>>

\* The label metadata.
ShiftGiveUp ==
  /\ pc = "shift" /\ i < nr /\ SizeAt(df, i) = 0
  /\ Stops # {} /\ Min(Stops) = nr - 1
  /\ pc' = "done"
  /\ UNCHANGED <<vars, locals>>

\* The inner loop started at the last slot and runs off the index block.
ShiftOverrun ==
  /\ pc = "shift" /\ i < nr /\ SizeAt(df, i) = 0
  /\ Stops = {}
  /\ corrupt' = TRUE
  /\ pc' = "crashed"
  /\ UNCHANGED <<disk, ret, locals>>

ShiftEnd ==
  /\ pc = "shift" /\ i >= nr
  /\ pc' = "done"
  /\ UNCHANGED <<vars, locals>>

ShiftStep == ShiftSkip \/ ShiftMove \/ ShiftGiveUp \/ ShiftOverrun \/ ShiftEnd

-----------------------------------------------------------------------------

\* Supported uses of the files, except the one whose lock defrag holds.
OtherWrite(f, off, d) ==
  \E w \in Plans(f, off, Len(d)) :
    Supported(f, off, Len(d), w) /\ Write(f, off, d, w)

FileStep(f) ==
  /\ pc = "idle" \/ f # df
  /\ Create(f) \/ Unlink(f) \/ \E off \in Offsets, d \in Payloads : OtherWrite(f, off, d)
  /\ UNCHANGED <<pc, locals>>

\* The packing alone: nothing is asked of the steps after its end.
PackNext ==
  \/ \E f \in Inodes : (pc # "shift" /\ FileStep(f)) \/ DefragBegin(f)
  \/ PackStep

PackSpec == DefragInit /\ [][PackNext]_dvars /\ WF_dvars(PackStep)

DefragNext ==
  \/ \E f \in Inodes : FileStep(f) \/ DefragBegin(f)
  \/ PackStep
  \/ ShiftStep

DefragSpec == DefragInit /\ [][DefragNext]_dvars

-----------------------------------------------------------------------------
(* Properties *)

Active == pc \in {"pack", "merge"}

\* The words among the first nr that still name a block.
Kept == {s \in Slots : s < nr /\ index[df][s] # 0}

\* The bytes of the first nr slots, which other files' calls cannot touch.
SlotBytes ==
  FlattenSeq([k \in 1 .. nr |->
    [x \in 1 .. SizeAt(df, k - 1) |-> data[NumberAt(df, k - 1)][x - 1]]])

\* Between any two steps of the packing the file's slots hold the bytes it
\* had when defrag began, in the same order.
PackKeepsContent == Active \/ pc = "shift" => SlotBytes = before

\* When the packing ends every block but the last one with bytes is full.
PackFills ==
  pc = "shift" =>
    \A s \in Kept, t \in Kept :
      s < t /\ SizeAt(df, t) > 0 => SizeAt(df, s) = MaxBlockSize

\* When the packing ends i_blocks counts the words that are left.
PackCounts == pc = "shift" => NrUsed(df) = Cardinality(Kept)

\* The packing of a file ends, whatever the other files' users do.
PackEnds == Active ~> pc \in {"shift", "crashed"}

\* defrag keeps the bytes of the file.
DefragKeepsContent == pc = "done" => Content(df) = before

=============================================================================
