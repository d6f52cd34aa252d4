-------------------------------- MODULE MCDir --------------------------------
EXTENDS OuicheDir, TLC

MCNoCut == <<>>
MCSymmetry == Permutations(Names)

\* A name of the maximal length and the one it becomes on the disk.
MCLongNames == {"notes.tx"}
MCNames == {"notes.t", "notes.tx"}
MCCut == "notes.tx" :> "notes.t"
=============================================================================
