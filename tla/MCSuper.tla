------------------------------- MODULE MCSuper -------------------------------
EXTENDS OuicheSuper
=============================================================================
