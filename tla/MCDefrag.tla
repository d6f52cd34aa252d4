------------------------------ MODULE MCDefrag ------------------------------
EXTENDS OuicheDefrag

MCPayloads == {<<1>>, <<2, 3>>}
MCOffsets == {0, 1, 2}
=============================================================================
