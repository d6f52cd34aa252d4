------------------------------- MODULE MCAlloc -------------------------------
EXTENDS BlockAlloc, TLC

CONSTANTS t1, t2, t3, f1, f2

OneFile == [t \in Threads |-> f1]
TwoFiles == [t \in Threads |-> IF t = t1 THEN f1 ELSE f2]
MCDataBlocks == 1 .. 4
MCSymmetry == Permutations(Threads)
=============================================================================
