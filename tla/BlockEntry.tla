----------------------------- MODULE BlockEntry -----------------------------
(***************************************************************************)
(* The words of a file's index block (block.c).  A word packs the number   *)
(* of a data block in its low 20 bits and the number of bytes used in that *)
(* block in its high 12 bits.  Both widths are parameters: NumberMask is   *)
(* NUMBER_MASK (1 << 20) and BlockSize is OUICHEFS_BLOCK_SIZE, which is    *)
(* also 2^12, the number of values of the size field.                      *)
(***************************************************************************)
EXTENDS Integers

CONSTANTS NumberMask, BlockSize

ASSUME WidthAssumption == /\ NumberMask \in Nat \ {0}
                          /\ BlockSize \in Nat /\ BlockSize >= 2

\* OUICHEFS_MAX_BLOCK_SIZE: a full block does not fit the 12-bit size field.
MaxBlockSize == BlockSize - 1

Word == 0 .. NumberMask * BlockSize - 1

get_block_number(e) == e % NumberMask

get_block_size(e) == e \div NumberMask

set_block_number(e, n) == (e \div NumberMask) * NumberMask + (n % NumberMask)

set_block_size(e, s) == (e % NumberMask) + (s % BlockSize) * NumberMask

=============================================================================
