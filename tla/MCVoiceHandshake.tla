--------------------------- MODULE MCVoiceHandshake ---------------------------
(* Two channels and three calls: join, switch or leave, join again.        *)
(* Channels and calls are interchangeable.                                 *)
EXTENDS VoiceHandshake, TLC

Symmetry == Permutations(Channels) \cup Permutations(Calls)
=============================================================================
