------------------------------ MODULE Recording ------------------------------
(***************************************************************************)
(* The recording buffer of the Discord backend,                            *)
(* interface/discord/src/gateways/general/recording.rs.                    *)
(*                                                                         *)
(* While a REST fetch is in flight it holds a RecordingWindow; the gateway *)
(* event handler appends what it sees to ONE buffer shared by all windows. *)
(* The slot at index i of the buffer has absolute sequence number          *)
(* front_seq + i; dropping a window trims the slots nobody references.     *)
(*                                                                         *)
(* The mutex `recorded` is modelled by its holder.  start_recording and    *)
(* Drop are two steps each, because `recording_refs` is read by            *)
(* maybe_record without the mutex: one step changes the state under the    *)
(* mutex, the next changes the counter and releases it.  maybe_record is   *)
(* call, lock-free load, locked push.                                      *)
(***************************************************************************)
EXTENDS Integers, Sequences, FiniteSets

CONSTANTS Windows,    \* REST calls that may have a window open at a time
          Recorders,  \* tasks running the event handler
          Events,     \* recorded payloads
          NoEvent,    \* "not recording"
          NoOne,      \* "mutex is free"
          MaxSeq      \* bound: how many events one run may record

ASSUME RecordingAssumption ==
    /\ IsFiniteSet(Windows)
    /\ NoOne \notin Windows
    /\ NoEvent \notin Events
    /\ MaxSeq \in Nat

VARIABLES
    buffer,         \* RecordingState::buffer
    frontSeq,       \* RecordingState::front_seq
    activeStarts,   \* RecordingState::active_starts, as a bag: start -> count
    recordingRefs,  \* General::recording_refs
    lock,           \* who holds the mutex General::recorded
    wpc,            \* where each window is in its life
    startSeq,       \* RecordingWindow::start_seq
    taken,          \* what take() returned to the fetch that holds the window
    rpc,            \* where each recorder is in maybe_record
    event,          \* the event it is called with
    owed            \* history: the windows open when it was called

vars == <<buffer, frontSeq, activeStarts, recordingRefs, lock,
          wpc, startSeq, taken, rpc, event, owed>>

Seqs == 0 .. MaxSeq
WindowPC == {"closed", "registering", "open", "taken", "dropping"}
RecorderPC == {"idle", "loading", "pushing"}

OpenWindows == {w \in Windows : wpc[w] \in {"open", "taken"}}

NextSeq == frontSeq + Len(buffer)

(* What is left of a queue without its first n slots: iter().skip(n) and   *)
(* drain(..n).                                                             *)
Skip(s, n) == SubSeq(s, n + 1, Len(s))

(* active_starts.is_empty() and active_starts.iter().min()                 *)
Registered(starts) == {s \in Seqs : starts[s] > 0}
Oldest(starts) == CHOOSE s \in Registered(starts) :
                      \A t \in Registered(starts) : s <= t

Init ==
    /\ buffer = <<>>
    /\ frontSeq = 0
    /\ activeStarts = [s \in Seqs |-> 0]
    /\ recordingRefs = 0
    /\ lock = NoOne
    /\ wpc = [w \in Windows |-> "closed"]
    /\ startSeq = [w \in Windows |-> 0]
    /\ taken = [w \in Windows |-> <<>>]
    /\ rpc = [p \in Recorders |-> "idle"]
    /\ event = [p \in Recorders |-> NoEvent]
    /\ owed = [p \in Recorders |-> {}]

-----------------------------------------------------------------------------
(* start_recording, up to the fetch_add: the start is pushed under the     *)
(* mutex, which is kept.                                                   *)
StartRegister(w) ==
    /\ wpc[w] = "closed"
    /\ lock = NoOne
    /\ lock' = w
    /\ startSeq' = [startSeq EXCEPT ![w] = NextSeq]
    /\ activeStarts' = [activeStarts EXCEPT ![NextSeq] = @ + 1]
    /\ wpc' = [wpc EXCEPT ![w] = "registering"]
    /\ UNCHANGED <<buffer, frontSeq, recordingRefs, taken, rpc, event, owed>>

(* Mutant: start_recording forgets the counter.                            *)
StartReturnUncounted(w) ==
    /\ wpc[w] = "registering"
    /\ lock' = NoOne
    /\ wpc' = [wpc EXCEPT ![w] = "open"]
    /\ UNCHANGED <<buffer, frontSeq, activeStarts, recordingRefs, startSeq,
                   taken, rpc, event, owed>>

(* The rest of start_recording: the counter, the unlock, the return.       *)
StartReturn(w) ==
    /\ wpc[w] = "registering"
    /\ recordingRefs' = recordingRefs + 1
    /\ lock' = NoOne
    /\ wpc' = [wpc EXCEPT ![w] = "open"]
    /\ UNCHANGED <<buffer, frontSeq, activeStarts, startSeq, taken, rpc, event, owed>>

(* Mutant: take() clones the whole buffer.                                 *)
TakeWholeBuffer(w) ==
    /\ wpc[w] = "open"
    /\ lock = NoOne
    /\ taken' = [taken EXCEPT ![w] = buffer]
    /\ wpc' = [wpc EXCEPT ![w] = "taken"]
    /\ UNCHANGED <<buffer, frontSeq, activeStarts, recordingRefs, lock,
                   startSeq, rpc, event, owed>>

(* take(): the slots from the window's own start on.                       *)
Take(w) ==
    /\ wpc[w] = "open"
    /\ lock = NoOne
    /\ taken' = [taken EXCEPT ![w] = Skip(buffer, startSeq[w] - frontSeq)]
    /\ wpc' = [wpc EXCEPT ![w] = "taken"]
    /\ UNCHANGED <<buffer, frontSeq, activeStarts, recordingRefs, lock,
                   startSeq, rpc, event, owed>>

(* Mutants: Drop removes every equal start; Drop clears the buffer even    *)
(* though other windows are open.                                          *)
DeregisterEqual(s) == [activeStarts EXCEPT ![s] = 0]
TrimEverything(starts) == frontSeq' = NextSeq /\ buffer' = <<>>

(* Drop, up to the fetch_sub: one matching start is removed and the front  *)
(* of the buffer is trimmed to the oldest start that is left.  The fetch   *)
(* drops its window after take(), or without it when REST fails or the     *)
(* fetch is cancelled.                                                     *)
Deregister(s) == IF activeStarts[s] > 0 THEN [activeStarts EXCEPT ![s] = @ - 1]
                                        ELSE activeStarts

Trim(starts) ==
    IF Registered(starts) = {}
    THEN /\ frontSeq' = NextSeq
         /\ buffer' = <<>>
    ELSE /\ frontSeq' = Oldest(starts)
         /\ buffer' = Skip(buffer, Oldest(starts) - frontSeq)

DropTrim(w) ==
    /\ w \in OpenWindows
    /\ lock = NoOne
    /\ lock' = w
    /\ activeStarts' = Deregister(startSeq[w])
    /\ Trim(Deregister(startSeq[w]))
    /\ wpc' = [wpc EXCEPT ![w] = "dropping"]
    /\ taken' = [taken EXCEPT ![w] = <<>>]
    /\ owed' = [p \in Recorders |-> owed[p] \ {w}]
    /\ UNCHANGED <<recordingRefs, startSeq, rpc, event>>

DropReturn(w) ==
    /\ wpc[w] = "dropping"
    /\ recordingRefs' = recordingRefs - 1
    /\ lock' = NoOne
    /\ wpc' = [wpc EXCEPT ![w] = "closed"]
    /\ UNCHANGED <<buffer, frontSeq, activeStarts, startSeq, taken, rpc, event, owed>>

-----------------------------------------------------------------------------
(* The event handler calls maybe_record(e).                                *)
CallRecord(p, e) ==
    /\ rpc[p] = "idle"
    /\ rpc' = [rpc EXCEPT ![p] = "loading"]
    /\ event' = [event EXCEPT ![p] = e]
    /\ owed' = [owed EXCEPT ![p] = OpenWindows]
    /\ UNCHANGED <<buffer, frontSeq, activeStarts, recordingRefs, lock,
                   wpc, startSeq, taken>>

Return(p) ==
    /\ rpc' = [rpc EXCEPT ![p] = "idle"]
    /\ event' = [event EXCEPT ![p] = NoEvent]
    /\ owed' = [owed EXCEPT ![p] = {}]

(* The lock-free load: 0 means nobody records, and the event is dropped.   *)
LoadRefs(p) ==
    /\ rpc[p] = "loading"
    /\ \/ /\ recordingRefs = 0
          /\ Return(p)
       \/ /\ recordingRefs # 0
          /\ rpc' = [rpc EXCEPT ![p] = "pushing"]
          /\ UNCHANGED <<event, owed>>
    /\ UNCHANGED <<buffer, frontSeq, activeStarts, recordingRefs, lock,
                   wpc, startSeq, taken>>

(* Mutant: no re-check under the mutex.                                    *)
PushUnchecked(p) ==
    /\ rpc[p] = "pushing"
    /\ lock = NoOne
    /\ NextSeq < MaxSeq
    /\ buffer' = Append(buffer, event[p])
    /\ Return(p)
    /\ UNCHANGED <<frontSeq, activeStarts, recordingRefs, lock,
                   wpc, startSeq, taken>>

(* Under the mutex: push, if a window is still registered.                 *)
PushEvent(p) ==
    /\ rpc[p] = "pushing"
    /\ lock = NoOne
    /\ \/ /\ Registered(activeStarts) # {}
          /\ NextSeq < MaxSeq
          /\ buffer' = Append(buffer, event[p])
       \/ /\ Registered(activeStarts) = {}
          /\ UNCHANGED buffer
    /\ Return(p)
    /\ UNCHANGED <<frontSeq, activeStarts, recordingRefs, lock,
                   wpc, startSeq, taken>>

Next ==
    \/ \E w \in Windows : \/ StartRegister(w) \/ StartReturn(w)
                          \/ Take(w)
                          \/ DropTrim(w) \/ DropReturn(w)
    \/ \E p \in Recorders : \/ \E e \in Events : CallRecord(p, e)
                            \/ LoadRefs(p)
                            \/ PushEvent(p)

Spec == Init /\ [][Next]_vars

-----------------------------------------------------------------------------
TypeOK ==
    /\ buffer \in Seq(Events)
    /\ frontSeq \in Seqs
    /\ NextSeq \in Seqs
    /\ activeStarts \in [Seqs -> Nat]
    /\ recordingRefs \in Nat
    /\ lock \in Windows \cup {NoOne}
    /\ wpc \in [Windows -> WindowPC]
    /\ startSeq \in [Windows -> Seqs]
    /\ taken \in [Windows -> Seq(Events)]
    /\ rpc \in [Recorders -> RecorderPC]
    /\ event \in [Recorders -> Events \cup {NoEvent}]
    /\ owed \in [Recorders -> SUBSET Windows]

(* The windows whose start is in active_starts, and the windows counted in *)
(* recording_refs.  They differ while the mutex is held.                   *)
Listed == {w \in Windows : wpc[w] \in {"registering", "open", "taken"}}
Counted == {w \in Windows : wpc[w] \in {"open", "taken", "dropping"}}

(* No window ever points before the front of the buffer or past its end:   *)
(* `start_seq - front_seq` in take() and the drain range in Drop neither   *)
(* underflow nor run off the deque (recording.rs:84, 110-111), whatever    *)
(* windows were opened and dropped in between.                             *)
StartsInBuffer ==
    \A w \in Listed : frontSeq <= startSeq[w] /\ startSeq[w] <= NextSeq

(* "The buffer is kept trim": with no window the buffer is empty, and with *)
(* windows its front is the start of one of them, so no slot outlives the  *)
(* fetches it was recorded for (recording.rs:7-11, 103-113, and the        *)
(* re-check at 143-147).                                                   *)
BufferTrim ==
    IF Listed = {} THEN buffer = <<>>
                   ELSE \E w \in Listed : startSeq[w] = frontSeq

(* Every window sees exactly the events whose recording started while it   *)
(* was open, in one order common to all windows: the shared buffer is not  *)
(* distinguishable from a log per window.                                  *)
LogOf(w) == IF w \in OpenWindows
            THEN Skip(buffer, startSeq[w] - frontSeq)
            ELSE <<>>

WL == INSTANCE WindowLog WITH open <- OpenWindows,
                              log <- [w \in Windows |-> LogOf(w)],
                              inflight <- event

ImplementsWindowLog == WL!Spec

-----------------------------------------------------------------------------
(* The inductive invariant: who holds the mutex, what the two counters     *)
(* count, where the starts lie, and what a recorder is owed.               *)
MutexInv == \A w \in Windows : lock = w <=> wpc[w] \in {"registering", "dropping"}

StartsWith(s) == {w \in Listed : startSeq[w] = s}
StartsInv == \A s \in Seqs : activeStarts[s] = Cardinality(StartsWith(s))

RefsInv == recordingRefs = Cardinality(Counted)

(* A window that is being registered starts at the very end of the buffer. *)
RegisteringInv == \A w \in Windows : wpc[w] = "registering" => startSeq[w] = NextSeq

(* A recorder only owes its event to windows that are still open, and the  *)
(* event is known as long as the call lasts.                               *)
OwedInv == \A p \in Recorders : /\ owed[p] \subseteq OpenWindows
                                /\ rpc[p] = "idle" <=> event[p] = NoEvent

IInv == /\ TypeOK
        /\ MutexInv
        /\ StartsInv
        /\ RefsInv
        /\ StartsInBuffer
        /\ RegisteringInv
        /\ BufferTrim
        /\ OwedInv
=============================================================================
