---------------------------- MODULE MCPendingSends ----------------------------
(* Two sends and a message of somebody else around one fetch: enough for a *)
(* bubble to be taken by the wrong message in every way the matching by    *)
(* room allows.                                                            *)
EXTENDS PendingSends, TLC

Symmetry == Permutations(Sends) \cup Permutations(Others)

(* Without is retain, on every list of up to four entries.                 *)
ASSUME WithoutIsRetain ==
    \A s \in BoundedSeq(1 .. 3, 4), e \in 1 .. 3 :
        Without(s, e) = SelectSeq(s, LAMBDA x : x # e)
=============================================================================
