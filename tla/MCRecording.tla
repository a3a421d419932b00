----------------------------- MODULE MCRecording -----------------------------
(* Three overlapping fetches, two tasks running the event handler (the     *)
(* poller of an old connection may still run beside the new one), two      *)
(* payloads and up to MaxSeq recorded events.  Windows, recorders and      *)
(* payloads are interchangeable, and every property is a safety property.  *)
EXTENDS Recording, TLC

Symmetry == Permutations(Windows) \cup Permutations(Recorders)
                \cup Permutations(Events)
=============================================================================
