------------------------------ MODULE MCChatSync ------------------------------
(* ChatSync.cfg: two messages and two fetches, which overlap when the room *)
(* is clicked again while the first is in flight, and three changes of the *)
(* room.  ChatSyncResurrection.cfg needs one message and one fetch.        *)
(* Messages and fetches are interchangeable, and every property is a safety*)
(* property.                                                               *)
EXTENDS ChatSync, SequencesExt, TLC

(* The loop of apply_to_messages, event by event; ApplyToMessages is what  *)
(* it computes.                                                            *)
ApplyOne(msgs, e) ==
    [msgs EXCEPT ![e.msg] = IF @ = Absent THEN Absent ELSE Live(e.rev)]
ApplyInOrder(msgs, events) == FoldLeft(ApplyOne, msgs, events)

ASSUME ClosedFormAssumption ==
    \A msgs \in Lists, events \in SeqOf(GatewayEvents, 4) :
        ApplyToMessages(msgs, events) = ApplyInOrder(msgs, events)

Symmetry == Permutations(Msgs) \cup Permutations(Fetches)
=============================================================================
