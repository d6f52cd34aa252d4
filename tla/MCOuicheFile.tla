---------------------------- MODULE MCOuicheFile ----------------------------
EXTENDS OuicheFile

MCPayloads == {<<1, 1>>, <<2, 2, 2, 2, 2>>}
MCOffsets == {0, 1, 3}
MCSymmetry == Permutations(Inodes)
=============================================================================
