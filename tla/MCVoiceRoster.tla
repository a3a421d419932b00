---------------------------- MODULE MCVoiceRoster ----------------------------
(* Channels and fetches are interchangeable.                               *)
EXTENDS VoiceRoster, TLC

Symmetry == Permutations(Channels) \cup Permutations(Fetches)
=============================================================================
