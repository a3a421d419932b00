------------------------------ MODULE WindowLog ------------------------------
(***************************************************************************)
(* What a recording window promises to the fetch that opened it, with no   *)
(* shared buffer, sequence numbers, counters or lock: every open window    *)
(* has a log of its own, and an event whose handler started recording      *)
(* while the window was already open ends up in that log.                  *)
(*                                                                         *)
(* Recording.tla is the implementation (general/recording.rs).             *)
(***************************************************************************)
EXTENDS Sequences

CONSTANTS Windows,    \* the in-flight REST calls that may hold a window
          Recorders,  \* the tasks that run the gateway event handler
          Events,     \* the recorded payloads
          NoEvent     \* "this recorder is not recording anything"

VARIABLES open,       \* the windows that are open
          log,        \* what each open window has recorded, oldest first
          taken,      \* what take() returned to the holder of the window
          inflight,   \* the event each recorder is busy recording
          owed        \* the windows that were open when it started

vars == <<open, log, taken, inflight, owed>>

Init == /\ open = {}
        /\ log = [w \in Windows |-> <<>>]
        /\ taken = [w \in Windows |-> <<>>]
        /\ inflight = [p \in Recorders |-> NoEvent]
        /\ owed = [p \in Recorders |-> {}]

-----------------------------------------------------------------------------
Open(w) ==
    /\ w \notin open
    /\ open' = open \cup {w}
    /\ UNCHANGED <<log, taken, inflight, owed>>

Take(w) ==
    /\ w \in open
    /\ taken' = [taken EXCEPT ![w] = log[w]]
    /\ UNCHANGED <<open, log, inflight, owed>>

Close(w) ==
    /\ w \in open
    /\ open' = open \ {w}
    /\ log' = [log EXCEPT ![w] = <<>>]
    /\ taken' = [taken EXCEPT ![w] = <<>>]
    /\ owed' = [p \in Recorders |-> owed[p] \ {w}]
    /\ UNCHANGED inflight

Begin(p, e) ==
    /\ inflight[p] = NoEvent
    /\ inflight' = [inflight EXCEPT ![p] = e]
    /\ owed' = [owed EXCEPT ![p] = open]
    /\ UNCHANGED <<open, log, taken>>

(* A recorder finishes: the event goes to every window that is open now,   *)
(* or to none, and then only if it is owed to none.                        *)
Finish(p) ==
    /\ inflight[p] # NoEvent
    /\ \/ log' = [w \in Windows |-> IF w \in open THEN Append(log[w], inflight[p])
                                                 ELSE log[w]]
       \/ /\ owed[p] = {}
          /\ UNCHANGED log
    /\ inflight' = [inflight EXCEPT ![p] = NoEvent]
    /\ owed' = [owed EXCEPT ![p] = {}]
    /\ UNCHANGED <<open, taken>>

Next == \/ \E w \in Windows : Open(w) \/ Take(w) \/ Close(w)
        \/ \E p \in Recorders : Finish(p) \/ \E e \in Events : Begin(p, e)

Spec == Init /\ [][Next]_vars
=============================================================================
