------------------------------ MODULE ChatSync ------------------------------
(***************************************************************************)
(* The messages of one room: the server's history, the gateway events that *)
(* report its changes, the REST fetch that OpenChat fires, and the list    *)
(* the UI shows.                                                           *)
(*                                                                         *)
(*   gateway --> event handler --> text_events --> process_text_event      *)
(*                    |                                  |                 *)
(*              maybe_record                         room.messages         *)
(*                    v                                  ^                 *)
(*   REST -----> apply_to_messages ------> UpdateChat ---+                 *)
(*                                                                         *)
(* A message is the number of its current revision, so "stale" is "less    *)
(* than".  The recording windows are those of WindowLog, which Recording   *)
(* implements; their actions are conjuncts of the actions below.  The      *)
(* gateway stays connected, and get_messages asks for the whole history.   *)
(***************************************************************************)
EXTENDS Integers, Sequences, FiniteSets

CONSTANTS Msgs,       \* messages of the room
          Fetches,    \* get_messages calls that may be in flight together
          Poller,     \* the task that holds the receiver lock
          NoEvent,    \* "no event in hand"
          MaxRev,     \* bound: revisions of one message
          MaxChanges, \* bound: changes the server makes in one run
          QueueCap    \* EVENT_QUEUE_CAP

ASSUME ChatSyncAssumption ==
    /\ IsFiniteSet(Msgs) /\ IsFiniteSet(Fetches)
    /\ MaxRev \in Nat \ {0}
    /\ MaxChanges \in Nat
    /\ QueueCap \in Nat \ {0}

Absent == 0                 \* not posted yet; not in a list
Gone == MaxRev + 1          \* deleted, for good
Versions == Absent .. Gone

(* An event names a message and the version it brings: 1 is MESSAGE_CREATE,*)
(* Gone is MESSAGE_DELETE, anything between is MESSAGE_UPDATE.             *)
GatewayEvents == [msg : Msgs, rev : 1 .. Gone]
Lists == [Msgs -> Absent .. MaxRev]

ASSUME NoEventAssumption == NoEvent \notin GatewayEvents

VARIABLES
    server,     \* the version of each message on the server
    changes,    \* changes it has made
    wire,       \* dispatches the gateway has not delivered yet
    handling,   \* the event the handler has in hand
    hpc,        \* idle, recording, or about to emit
    queue,      \* InnerDiscord::text_events
    open, log, taken, inflight, owed,      \* the windows (WindowLog)
    fpc,        \* where each fetch is in get_messages
    list,       \* its list of messages
    fetched,    \* room.messages is Some
    view,       \* what is in it
    seen,       \* history: newest version the UI has processed
    emitted,    \* history: newest version put into text_events
    gap,        \* history: events consumed behind the back of each fetch
    missed,     \* history: messages that met one of the known gaps
    partial     \* history: messages became Some without a fetch

room == <<server, changes>>
windows == <<open, log, taken, inflight, owed>>
history == <<seen, emitted, gap, missed, partial>>
vars == <<room, wire, handling, hpc, queue, windows, fpc, list,
          fetched, view, history>>

Rec == INSTANCE WindowLog WITH Windows <- Fetches, Recorders <- {Poller},
                               Events <- GatewayEvents

Live(v) == IF v = Gone THEN Absent ELSE v
NewerOf(a, b) == IF a >= b THEN a ELSE b

Init ==
    /\ server \in [Msgs -> {Absent, 1}]
    /\ changes = 0
    /\ wire = <<>>
    /\ handling = NoEvent
    /\ hpc = "idle"
    /\ queue = <<>>
    /\ Rec!Init
    /\ fpc = [f \in Fetches |-> "idle"]
    /\ list = [f \in Fetches |-> [m \in Msgs |-> Absent]]
    /\ fetched = FALSE
    /\ view = [m \in Msgs |-> Absent]
    /\ seen = [m \in Msgs |-> Absent]
    /\ emitted = [m \in Msgs |-> Absent]
    /\ gap = [f \in Fetches |-> {}]
    /\ missed = {}
    /\ partial = FALSE

-----------------------------------------------------------------------------
(* The server: someone posts, edits or deletes a message, and the gateway  *)
(* dispatches the change.                                                  *)
Change(m, v) ==
    /\ changes < MaxChanges
    /\ server[m] # Gone
    /\ v = server[m] + 1 \/ (server[m] # Absent /\ v = Gone)
    /\ server' = [server EXCEPT ![m] = v]
    /\ changes' = changes + 1
    /\ wire' = Append(wire, [msg |-> m, rev |-> v])
    /\ UNCHANGED <<handling, hpc, queue, windows, fpc, list, fetched, view, history>>

-----------------------------------------------------------------------------
(* Mutant: the handler does not call maybe_record.                         *)
ReceiveUnrecorded ==
    /\ hpc = "idle"
    /\ wire # <<>>
    /\ handling' = Head(wire)
    /\ wire' = Tail(wire)
    /\ hpc' = "emit"
    /\ UNCHANGED <<room, queue, windows, fpc, list, fetched, view, history>>

(* The event handler.  Updates and deletes are recorded first; a create is *)
(* not recorded at all.                                                    *)
Receive ==
    /\ hpc = "idle"
    /\ wire # <<>>
    /\ handling' = Head(wire)
    /\ wire' = Tail(wire)
    /\ \/ /\ Head(wire).rev = 1
          /\ hpc' = "emit"
          /\ UNCHANGED windows
       \/ /\ Head(wire).rev # 1
          /\ hpc' = "record"
          /\ Rec!Begin(Poller, Head(wire))
    /\ UNCHANGED <<room, queue, fpc, list, fetched, view, history>>

Record ==
    /\ hpc = "record"
    /\ Rec!Finish(Poller)
    /\ hpc' = "emit"
    /\ UNCHANGED <<room, wire, handling, queue, fpc, list, fetched, view, history>>

(* Mutant: the queue grows without bound.                                  *)
PushAlways(e) == queue' = Append(queue, e) /\ UNCHANGED missed

(* text_events.force_push: a full queue loses its oldest event.            *)
ForcePush(e) ==
    IF Len(queue) < QueueCap
    THEN /\ queue' = Append(queue, e)
         /\ UNCHANGED missed
    ELSE /\ queue' = Append(Tail(queue), e)
         /\ missed' = missed \cup {Head(queue).msg}

Emit ==
    /\ hpc = "emit"
    /\ ForcePush(handling)
    /\ emitted' = [emitted EXCEPT ![handling.msg] = NewerOf(@, handling.rev)]
    /\ handling' = NoEvent
    /\ hpc' = "idle"
    /\ UNCHANGED <<room, wire, windows, fpc, list, fetched, view, seen, gap, partial>>

(* Creates and updates await the author's avatar before they emit, and     *)
(* poll_gateway_until drops the whole poll when its 500 ms are over.       *)
Cancel ==
    /\ hpc = "emit"
    /\ handling.rev # Gone
    /\ missed' = missed \cup {handling.msg}
    /\ handling' = NoEvent
    /\ hpc' = "idle"
    /\ UNCHANGED <<room, wire, queue, windows, fpc, list, fetched, view,
                   seen, emitted, gap, partial>>

-----------------------------------------------------------------------------
(* OpenChat fetches when room.messages is None; get_messages opens its     *)
(* window before it asks.                                                  *)
OpenChat(f) ==
    /\ fpc[f] = "idle"
    /\ ~fetched
    /\ Rec!Open(f)
    /\ fpc' = [fpc EXCEPT ![f] = "asked"]
    /\ UNCHANGED <<room, wire, handling, hpc, queue, list, fetched, view, history>>

(* The server answers with its history of this moment.                     *)
Answer(f) ==
    /\ fpc[f] = "asked"
    /\ list' = [list EXCEPT ![f] = [m \in Msgs |-> Live(server[m])]]
    /\ fpc' = [fpc EXCEPT ![f] = "answered"]
    /\ UNCHANGED <<room, wire, handling, hpc, queue, windows, fetched, view, history>>

(* The request fails or is given up: the error drops the window, and       *)
(* OpenChat only logs it.                                                  *)
Fail(f) ==
    /\ fpc[f] \in {"asked", "answered"}
    /\ Rec!Close(f)
    /\ fpc' = [fpc EXCEPT ![f] = "idle"]
    /\ list' = [list EXCEPT ![f] = [m \in Msgs |-> Absent]]
    /\ gap' = [gap EXCEPT ![f] = {}]
    /\ UNCHANGED <<room, wire, handling, hpc, queue, fetched, view,
                   seen, emitted, missed, partial>>

(* apply_to_messages: updates replace, deletes drop, in capture order;     *)
(* what the snapshot does not list stays out.  The loop in closed form: a  *)
(* deletion is for good, and of the updates the last one wins.             *)
ApplyToMessages(msgs, events) ==
    [m \in Msgs |->
        LET own  == {i \in DOMAIN events : events[i].msg = m}
            last == CHOOSE i \in own : \A j \in own : j <= i
        IN  IF msgs[m] = Absent \/ \E i \in own : events[i].rev = Gone THEN Absent
            ELSE IF own = {} THEN msgs[m]
            ELSE events[last].rev]

(* Mutant: what was recorded is thrown away.                               *)
MergeUnfolded(f) ==
    /\ fpc[f] = "answered"
    /\ Rec!Take(f)
    /\ fpc' = [fpc EXCEPT ![f] = "merged"]
    /\ UNCHANGED <<room, wire, handling, hpc, queue, list, fetched, view, history>>

(* take() and the fold.                                                    *)
Merge(f) ==
    /\ fpc[f] = "answered"
    /\ Rec!Take(f)
    /\ list' = [list EXCEPT ![f] = ApplyToMessages(list[f], log[f])]
    /\ fpc' = [fpc EXCEPT ![f] = "merged"]
    /\ UNCHANGED <<room, wire, handling, hpc, queue, fetched, view, history>>

(* The window goes out of scope; the avatars of the page are still to be   *)
(* fetched.                                                                *)
DropWindow(f) ==
    /\ fpc[f] = "merged"
    /\ Rec!Close(f)
    /\ fpc' = [fpc EXCEPT ![f] = "returning"]
    /\ UNCHANGED <<room, wire, handling, hpc, queue, list, fetched, view, history>>

(* UpdateChat: the list replaces whatever the room showed.                 *)
UpdateChat(f) ==
    /\ fpc[f] = "returning"
    /\ view' = list[f]
    /\ fetched' = TRUE
    /\ partial' = FALSE
    /\ missed' = missed \cup gap[f]
    /\ gap' = [gap EXCEPT ![f] = {}]
    /\ fpc' = [fpc EXCEPT ![f] = "idle"]
    /\ list' = [list EXCEPT ![f] = [m \in Msgs |-> Absent]]
    /\ UNCHANGED <<room, wire, handling, hpc, queue, windows, seen, emitted>>

-----------------------------------------------------------------------------
(* process_text_event.                                                     *)
Created(e) ==
    /\ e.rev = 1
    /\ view' = IF view[e.msg] = Absent THEN [view EXCEPT ![e.msg] = 1] ELSE view
    /\ fetched' = TRUE
    /\ partial' = (partial \/ ~fetched)

Updated(e) ==
    /\ e.rev \in 2 .. MaxRev
    /\ view' = IF fetched /\ view[e.msg] # Absent
               THEN [view EXCEPT ![e.msg] = e.rev] ELSE view
    /\ UNCHANGED <<fetched, partial>>

(* Mutant: only updates are applied to a list that is there.               *)
DeletedIgnored(e) ==
    /\ e.rev = Gone
    /\ UNCHANGED <<view, fetched, partial>>

Deleted(e) ==
    /\ e.rev = Gone
    /\ view' = IF fetched THEN [view EXCEPT ![e.msg] = Absent] ELSE view
    /\ UNCHANGED <<fetched, partial>>

(* The fetches that no longer can learn of an event: their log was taken,  *)
(* or it is a create and the server has already answered.                  *)
Past(f, e) == \/ fpc[f] \in {"merged", "returning"}
              \/ fpc[f] = "answered" /\ e.rev = 1

Consume ==
    /\ queue # <<>>
    /\ LET e == Head(queue) IN
       /\ Created(e) \/ Updated(e) \/ Deleted(e)
       /\ seen' = [seen EXCEPT ![e.msg] = NewerOf(@, e.rev)]
       /\ gap' = [f \in Fetches |-> IF Past(f, e) THEN gap[f] \cup {e.msg} ELSE gap[f]]
    /\ queue' = Tail(queue)
    /\ UNCHANGED <<room, wire, handling, hpc, windows, fpc, list, emitted, missed>>

-----------------------------------------------------------------------------
Next ==
    \/ \E m \in Msgs, v \in 1 .. Gone : Change(m, v)
    \/ Receive \/ Record \/ Emit \/ Cancel \/ Consume
    \/ \E f \in Fetches : \/ OpenChat(f) \/ Answer(f) \/ Fail(f)
                          \/ Merge(f) \/ DropWindow(f) \/ UpdateChat(f)

Spec == Init /\ [][Next]_vars

-----------------------------------------------------------------------------
TypeOK ==
    /\ server \in [Msgs -> Versions]
    /\ changes \in 0 .. MaxChanges
    /\ wire \in Seq(GatewayEvents)
    /\ handling \in GatewayEvents \cup {NoEvent}
    /\ hpc \in {"idle", "record", "emit"}
    /\ queue \in Seq(GatewayEvents) /\ Len(queue) <= QueueCap
    /\ open \subseteq Fetches
    /\ log \in [Fetches -> Seq(GatewayEvents)]
    /\ taken \in [Fetches -> Seq(GatewayEvents)]
    /\ inflight \in [{Poller} -> GatewayEvents \cup {NoEvent}]
    /\ owed \in [{Poller} -> SUBSET Fetches]
    /\ fpc \in [Fetches -> {"idle", "asked", "answered", "merged", "returning"}]
    /\ list \in [Fetches -> Lists]
    /\ fetched \in BOOLEAN
    /\ view \in Lists
    /\ seen \in [Msgs -> Versions]
    /\ emitted \in [Msgs -> Versions]
    /\ gap \in [Fetches -> SUBSET Msgs]
    /\ missed \subseteq Msgs
    /\ partial \in BOOLEAN

(* The merge is at least as new as anything the UI can have been told:     *)
(* whatever was put into text_events before take() is in the merged list,  *)
(* as an update or a removal (text.rs:45-68, events.rs:279-288, 327-341).  *)
FoldFresh ==
    [][\A f \in Fetches : fpc[f] = "answered" /\ fpc'[f] = "merged" =>
          \A m \in Msgs : list'[f][m] # Absent => list'[f][m] >= emitted[m]]_vars

(* The room never shows a revision older than one the UI has processed,    *)
(* and never a message it has processed the deletion of, except where an   *)
(* event fell into a known gap (messenger.rs:132-139, events.rs:85-135).   *)
Lagging(m) == view[m] # Absent /\ view[m] < seen[m]
NeverStale == \A m \in Msgs \ missed : ~Lagging(m)

(* Once everything in flight has arrived, a room that was fetched shows    *)
(* exactly what the server has, message for message, outside the gaps.     *)
Quiescent == /\ wire = <<>> /\ hpc = "idle" /\ queue = <<>>
             /\ \A f \in Fetches : fpc[f] = "idle"
Shows(m) == view[m] = Live(server[m])
Converged == Quiescent /\ fetched /\ ~partial => \A m \in Msgs \ missed : Shows(m)

(* "a concurrent rest_get_messages whose window is open must observe this  *)
(* delete so the UI doesn't see a resurrected message after consuming the  *)
(* TextEvent::MessageDeleted" (events.rs:327-332): a message whose         *)
(* deletion the UI has processed is not shown.                             *)
NoResurrection == \A m \in Msgs : seen[m] = Gone => view[m] = Absent
=============================================================================
