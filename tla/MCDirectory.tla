---------------------------- MODULE MCDirectory ----------------------------
EXTENDS Directory, TLC
=============================================================================
