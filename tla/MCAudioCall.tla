---------------------------- MODULE MCAudioCall ----------------------------
EXTENDS AudioCall, TLC
=============================================================================
