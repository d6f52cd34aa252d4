------------------------------- MODULE MCStore -------------------------------
EXTENDS OuicheFile

MCPayloads == {<<1>>, <<2, 3, 4>>}
MCOffsets == {0, 1, 2, 4}
MCSymmetry == Permutations(Inodes)
=============================================================================
