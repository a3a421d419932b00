---------------------------- MODULE PendingSends ----------------------------
(***************************************************************************)
(* Optimistic sends in one room (record_v2/src/pages/messenger.rs and      *)
(* events.rs).  Send puts a bubble with a made-up id into the list at      *)
(* once and posts the message; then three things race: the REST answer     *)
(* (ConfirmPending, RemovePending), the gateway echo of the message, which *)
(* looks a bubble up by ROOM and not by message, and the fetch that        *)
(* OpenChat fired, which replaces the whole list.                          *)
(*                                                                         *)
(* The message a send posts is called by the send; a bubble is the pair    *)
(* <<"pending", send>>, a message the pair <<"msg", message>>.  Edits,     *)
(* deletions and lost events are ChatSync's.                               *)
(***************************************************************************)
EXTENDS Integers, Sequences, FiniteSets, SequencesExt

CONSTANTS Sends,    \* messages the user sends
          Others    \* messages others post in the room

ASSUME PendingSendsAssumption == IsFiniteSet(Sends) /\ IsFiniteSet(Others) /\ Sends \cap Others = {}

Messages == Sends \cup Others
Bubble(s) == <<"pending", s>>
Msg(m) == <<"msg", m>>
Entries == {Bubble(s) : s \in Sends} \cup {Msg(m) : m \in Messages}

VARIABLES
    chatOpen,       \* Main::Chat shows the room
    view,           \* room.messages; empty while it is None
    fetched,        \* room.messages is Some
    pendingSends,   \* MessengerData::pending_sends
    spc,            \* where each send is
    server,         \* the messages the server has, oldest first
    wire,           \* MessageCreated events on their way to the UI
    fpc,            \* the fetch of OpenChat
    page,           \* its answer
    consumed,       \* history: messages whose MessageCreated was processed
    gap,            \* history: those processed after the answer of the fetch
    missed,         \* history: messages a fetch took away
    mixed           \* history: a send began while another, or some event,
                    \* was on its way, or a fetch hit a bubble

history == <<consumed, gap, missed, mixed>>
pvars == <<chatOpen, view, fetched, pendingSends, spc, server, wire, fpc, page, history>>

(* new: not sent.  posting: the bubble is up and the request is out.       *)
(* answered, failed: the server's answer, or an error, is on its way.      *)
InFlight(s) == spc[s] \in {"posting", "answered", "failed"}

PInit ==
    /\ chatOpen = FALSE
    /\ view = <<>>
    /\ fetched = FALSE
    /\ pendingSends = <<>>
    /\ spc = [s \in Sends |-> "new"]
    /\ server = <<>>
    /\ wire = <<>>
    /\ fpc = "idle"
    /\ page = <<>>
    /\ consumed = {}
    /\ gap = {}
    /\ missed = {}
    /\ mixed = FALSE

Shown(e) == e \in ToSet(view)
Substitute(s, old, new) == [i \in DOMAIN s |-> IF s[i] = old THEN new ELSE s[i]]

(* retain: the n-th element that stays is the one with n - 1 before it.    *)
Staying(s, e) == {i \in DOMAIN s : s[i] # e}
Without(s, e) ==
    [n \in 1 .. Cardinality(Staying(s, e)) |->
        s[CHOOSE i \in Staying(s, e) : Cardinality({j \in Staying(s, e) : j <= i}) = n]]

-----------------------------------------------------------------------------
(* The chat opens at once; the messages are fetched if they are None.      *)
OpenChat ==
    /\ ~chatOpen
    /\ chatOpen' = TRUE
    /\ fpc' = IF fetched THEN "idle" ELSE "asked"
    /\ UNCHANGED <<view, fetched, pendingSends, spc, server, wire, page, history>>

AnswerFetch ==
    /\ fpc = "asked"
    /\ page' = [i \in DOMAIN server |-> Msg(server[i])]
    /\ fpc' = "answered"
    /\ UNCHANGED <<chatOpen, view, fetched, pendingSends, spc, server, wire, history>>

FetchFails ==
    /\ fpc \in {"asked", "answered"}
    /\ fpc' = "idle"
    /\ page' = <<>>
    /\ gap' = {}
    /\ UNCHANGED <<chatOpen, view, fetched, pendingSends, spc, server, wire,
                   consumed, missed, mixed>>

UpdateChat ==
    /\ fpc = "answered"
    /\ view' = page
    /\ fetched' = TRUE
    /\ fpc' = "idle"
    /\ page' = <<>>
    /\ missed' = missed \cup gap
    /\ gap' = {}
    /\ mixed' = (mixed \/ \E s \in Sends : InFlight(s))
    /\ UNCHANGED <<chatOpen, pendingSends, spc, server, wire, consumed>>

-----------------------------------------------------------------------------
(* Send: the bubble and its entry in pending_sends; the request goes out.  *)
Send(s) ==
    /\ chatOpen
    /\ spc[s] = "new"
    /\ pendingSends' = Append(pendingSends, s)
    /\ view' = Append(view, Bubble(s))
    /\ fetched' = TRUE
    /\ spc' = [spc EXCEPT ![s] = "posting"]
    /\ mixed' = (mixed \/ wire # <<>> \/ \E t \in Sends : InFlight(t))
    /\ UNCHANGED <<chatOpen, server, wire, fpc, page, consumed, gap, missed>>

(* The server stores a message and dispatches MESSAGE_CREATE.              *)
Post(m) ==
    /\ server' = Append(server, m)
    /\ wire' = Append(wire, m)

Accept(s) ==
    /\ spc[s] = "posting"
    /\ Post(s)
    /\ \E answer \in {"answered", "failed"} : spc' = [spc EXCEPT ![s] = answer]
    /\ UNCHANGED <<chatOpen, view, fetched, pendingSends, fpc, page, history>>

Refuse(s) ==
    /\ spc[s] = "posting"
    /\ spc' = [spc EXCEPT ![s] = "failed"]
    /\ UNCHANGED <<chatOpen, view, fetched, pendingSends, server, wire, fpc, page, history>>

OtherPosts(m) ==
    /\ m \notin ToSet(server)
    /\ Post(m)
    /\ UNCHANGED <<chatOpen, view, fetched, pendingSends, spc, fpc, page, history>>

-----------------------------------------------------------------------------
(* Mutant: the bubble stays in pending_sends when its send is confirmed.   *)
ConfirmPendingKept(s) ==
    /\ spc[s] = "answered"
    /\ view' = Substitute(view, Bubble(s), Msg(s))
    /\ spc' = [spc EXCEPT ![s] = "settled"]
    /\ UNCHANGED <<chatOpen, fetched, pendingSends, server, wire, fpc, page, history>>

(* ConfirmPending: the bubble, if it is still there, becomes the message.  *)
ConfirmPending(s) ==
    /\ spc[s] = "answered"
    /\ pendingSends' = Without(pendingSends, s)
    /\ view' = Substitute(view, Bubble(s), Msg(s))
    /\ spc' = [spc EXCEPT ![s] = "settled"]
    /\ UNCHANGED <<chatOpen, fetched, server, wire, fpc, page, history>>

(* RemovePending: the send failed, or its answer was lost.                 *)
RemovePending(s) ==
    /\ spc[s] = "failed"
    /\ pendingSends' = Without(pendingSends, s)
    /\ view' = Without(view, Bubble(s))
    /\ spc' = [spc EXCEPT ![s] = "settled"]
    /\ UNCHANGED <<chatOpen, fetched, server, wire, fpc, page, history>>

(* Mutants: the message that replaces a bubble keeps a pending id; no      *)
(* duplicate check; a message that took a bubble's entry in pending_sends  *)
(* is shown only if the bubble is still there.                             *)
WithMessageStillPending(m) ==
    IF pendingSends # <<>>
    THEN Substitute(view, Bubble(Head(pendingSends)), Bubble(m))
    ELSE Append(view, Msg(m))
WithMessageUnchecked(m) ==
    IF pendingSends # <<>> /\ Shown(Bubble(Head(pendingSends)))
    THEN Substitute(view, Bubble(Head(pendingSends)), Msg(m))
    ELSE Append(view, Msg(m))
WithMessageInBubbleOnly(m) ==
    IF pendingSends # <<>>
    THEN Substitute(view, Bubble(Head(pendingSends)), Msg(m))
    ELSE IF Shown(Msg(m)) THEN view ELSE Append(view, Msg(m))

(* MessageCreated: the oldest pending send of the room is taken to be this *)
(* message, and its bubble becomes the message; if the bubble is gone the  *)
(* message is appended.  Only with no pending send are duplicates dropped. *)
WithMessage(m) ==
    IF pendingSends # <<>>
    THEN IF Shown(Bubble(Head(pendingSends)))
         THEN Substitute(view, Bubble(Head(pendingSends)), Msg(m))
         ELSE Append(view, Msg(m))
    ELSE IF Shown(Msg(m)) THEN view ELSE Append(view, Msg(m))

Consume ==
    /\ wire # <<>>
    /\ view' = WithMessage(Head(wire))
    /\ fetched' = TRUE
    /\ pendingSends' = IF pendingSends = <<>> THEN <<>> ELSE Tail(pendingSends)
    /\ wire' = Tail(wire)
    /\ consumed' = consumed \cup {Head(wire)}
    /\ gap' = IF fpc = "answered" THEN gap \cup {Head(wire)} ELSE gap
    /\ UNCHANGED <<chatOpen, spc, server, fpc, page, missed, mixed>>

PNext ==
    \/ OpenChat \/ AnswerFetch \/ FetchFails \/ UpdateChat \/ Consume
    \/ \E s \in Sends : \/ Send(s) \/ Accept(s) \/ Refuse(s)
                        \/ ConfirmPending(s) \/ RemovePending(s)
    \/ \E m \in Others : OtherPosts(m)

PSpec == PInit /\ [][PNext]_pvars

-----------------------------------------------------------------------------
PTypeOK ==
    /\ chatOpen \in BOOLEAN
    /\ view \in Seq(Entries)
    /\ fetched \in BOOLEAN
    /\ pendingSends \in Seq(Sends)
    /\ spc \in [Sends -> {"new", "posting", "answered", "failed", "settled"}]
    /\ server \in Seq(Messages)
    /\ wire \in Seq(Messages)
    /\ fpc \in {"idle", "asked", "answered"}
    /\ page \in Seq(Entries)
    /\ consumed \subseteq Messages
    /\ gap \subseteq Messages
    /\ missed \subseteq Messages
    /\ mixed \in BOOLEAN

(* A send that is over leaves nothing behind: no bubble in the list that   *)
(* nobody will ever replace, and no entry in pending_sends that a later    *)
(* message of somebody else would be matched with (messenger.rs:175-209).  *)
NoGhosts ==
    \A s \in Sends : ~InFlight(s) => ~Shown(Bubble(s)) /\ s \notin ToSet(pendingSends)

(* Whatever order echo and answer come in, every message whose event was   *)
(* processed stays in the list; only a fetch answered before the event     *)
(* takes one away (events.rs:91-118, messenger.rs:132-209).                *)
ConsumedShown == \A m \in consumed \ missed : Shown(Msg(m))

(* If every send begins with nothing else on its way, and no fetch lands   *)
(* on a bubble, a message is shown once, whosever message takes the        *)
(* bubble and whatever comes first, answer or echo (events.rs:103-113).    *)
OneAtATimeNoRepeats == ~mixed => IsInjective(view)
=============================================================================
