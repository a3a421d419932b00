----------------------------- MODULE VoiceRoster -----------------------------
(***************************************************************************)
(* Who is in which voice channel of one guild, from the gateway to the     *)
(* call view (gateways/general/voice_state.rs, the Ready handler,          *)
(* house_details, and process_voice_event of the application).             *)
(*                                                                         *)
(*   dispatch --> voice_states, voice_participants --> voice_events        *)
(*                            |                             |              *)
(*                   house_details (once)          process_voice_event     *)
(*                            v                             v              *)
(*                     GuildRoomsLoaded ------>  room.participants, calls  *)
(*                                                                         *)
(* The roster reaches the UI along two ways that are not ordered with each *)
(* other: the rooms of a guild are fetched when it is first opened, and    *)
(* events change them from then on.  A call shows a copy of its room.      *)
(* participants is a set: its order shows nothing but who came last.  The  *)
(* channels of the guild stay what they are.                               *)
(***************************************************************************)
EXTENDS Integers, Sequences, FiniteSets

CONSTANTS Users,      \* members of the guild
          Self,       \* the one who is logged in
          Channels,   \* its voice channels
          Nowhere,    \* channel_id of somebody in no channel
          Fetches,    \* house_details calls
          Calls,      \* calls placed from the sidebar
          QueueCap,   \* EVENT_QUEUE_CAP
          MaxChanges, \* bound: dispatches that concern voice
          MaxReady    \* bound: those of them that may be a Ready, the first ones

ASSUME VoiceRosterAssumption ==
    /\ IsFiniteSet(Users) /\ Self \in Users
    /\ IsFiniteSet(Channels) /\ Nowhere \notin Channels
    /\ IsFiniteSet(Fetches) /\ IsFiniteSet(Calls)
    /\ QueueCap \in Nat \ {0}
    /\ MaxChanges \in Nat /\ MaxReady \in 0 .. MaxChanges

Places == Channels \cup {Nowhere}
Futures == [user : Users, room : Channels]      \* suspended at the avatar
Events == [user : Users, room : Places]         \* Nowhere: ParticipantLeft
RoomLists == UNION {[C -> SUBSET Users] : C \in SUBSET Channels}
NoRooms == [c \in {} |-> {}]

VARIABLES
    where,      \* the server: the channel everybody is in
    changes,    \* dispatches so far
    states,     \* InnerDiscord::voice_states
    roster,     \* InnerDiscord::voice_participants
    handling,   \* emit_voice_state_participant futures in the handler
    queue,      \* InnerDiscord::voice_events
    fpc,        \* where each fetch is
    rooms,      \* the rooms it has put together
    opened,     \* guild.rooms is Some
    view,       \* what is in it: the participants of each room
    cpc,        \* where each call is
    croom,      \* the id of its room
    cusers,     \* the participants of its copy of the room
    cut,        \* history: users whose handler did not get to the roster
    missed,     \* history: users whose last event did not reach the rooms
    deaf,       \* history: users whose last event did not reach a call
    joined      \* history: calls that the user was last seen joining

server == <<where, changes>>
adapter == <<states, roster, handling, queue>>
fetching == <<fpc, rooms>>
calls == <<cpc, croom, cusers>>
history == <<cut, missed, deaf, joined>>
vars == <<server, adapter, fetching, opened, view, calls, history>>

Init ==
    /\ where = [u \in Users |-> Nowhere]
    /\ changes = 0
    /\ states = [u \in Users |-> Nowhere]
    /\ roster = [c \in Channels |-> {}]
    /\ handling = {}
    /\ queue = <<>>
    /\ fpc = [f \in Fetches |-> "idle"]
    /\ rooms = [f \in Fetches |-> NoRooms]
    /\ opened = FALSE
    /\ view = NoRooms
    /\ cpc = [k \in Calls |-> "idle"]
    /\ croom = [k \in Calls |-> Nowhere]
    /\ cusers = [k \in Calls |-> {}]
    /\ cut = {}
    /\ missed = {}
    /\ deaf = [k \in Calls |-> {}]
    /\ joined = {}

UsersOf(events) == {events[i].user : i \in DOMAIN events}
Without(list, u) == [c \in DOMAIN list |-> list[c] \ {u}]
With(list, u, r) == [c \in DOMAIN list |-> IF c = r THEN list[c] \cup {u} ELSE list[c]]

-----------------------------------------------------------------------------
(* Mutant: the queue grows without bound.                                  *)
PushAlways(e) ==
    /\ queue' = Append(queue, e)
    /\ missed' = missed \ {e.user}
    /\ deaf' = [k \in Calls |-> deaf[k] \ {e.user}]
    /\ cut' = cut \ {e.user}

(* voice_events.force_push: a full queue loses its oldest event, which     *)
(* matters unless a newer one of the same user is queued.                  *)
ForcePush(e) ==
    LET full == Len(queue) = QueueCap
        kept == Append(IF full THEN Tail(queue) ELSE queue, e)
        lost == IF full THEN {Head(queue).user} \ UsersOf(kept) ELSE {}
    IN /\ queue' = kept
       /\ missed' = (missed \cup lost) \ {e.user}
       /\ deaf' = [k \in Calls |-> deaf[k] \ {e.user}]
       /\ cut' = cut \ {e.user}

(* Mutant: somebody who moves stays in the roster of the old channel.      *)
EvictLeaversOnly(u, r) ==
    IF r = Nowhere THEN Without(roster, u) ELSE roster

(* evict_voice_participant: from the channel voice_states had for the      *)
(* user, if it is another one.                                             *)
Evict(u, r) ==
    IF states[u] \notin {r, Nowhere}
    THEN [roster EXCEPT ![states[u]] = @ \ {u}]
    ELSE roster

(* VOICE_STATE_UPDATE: the user is now in r, or says something new about   *)
(* the same channel.  Up to the avatar's await nothing is suspended.       *)
Leave(u) ==
    /\ states' = [states EXCEPT ![u] = Nowhere]
    /\ roster' = Evict(u, Nowhere)
    /\ ForcePush([user |-> u, room |-> Nowhere])
    /\ UNCHANGED <<handling, joined>>

Join(u, r) ==
    /\ states' = [states EXCEPT ![u] = r]
    /\ roster' = Evict(u, r)
    /\ \/ /\ handling' = {[user |-> u, room |-> r]}
          /\ UNCHANGED <<queue, history>>
       \/ /\ cut' = IF u \in roster[r] THEN cut ELSE cut \cup {u}  \* no member data
          /\ UNCHANGED <<handling, queue, missed, deaf, joined>>

VoiceStateUpdate(u, r) ==
    /\ handling = {}
    /\ changes < MaxChanges
    /\ changes' = changes + 1
    /\ where' = [where EXCEPT ![u] = r]
    /\ \/ r = Nowhere /\ where[u] # Nowhere /\ Leave(u)
       \/ r # Nowhere /\ Join(u, r)
    /\ UNCHANGED <<fetching, opened, view, calls>>

(* voice_participants.clear()                                              *)
Wiped == [c \in Channels |-> {}]

(* Ready, of the first connection or of a later one: both rosters are      *)
(* wiped and rebuilt, with one future for everybody who is in a channel    *)
(* (`known` has member data).  Those who are gone get no event.            *)
Ready(now, known) ==
    /\ handling = {}
    /\ changes < MaxReady
    /\ changes' = changes + 1
    /\ where' = now
    /\ states' = now
    /\ roster' = Wiped
    /\ handling' = {h \in Futures : h.user \in known /\ h.room = now[h.user]}
    /\ cut' = (cut \cup {u \in Users : now[u] # Nowhere})
                  \ {u \in Users : now[u] = Nowhere}
    /\ missed' = missed \cup {u \in Users : states[u] # Nowhere /\ now[u] = Nowhere}
    /\ UNCHANGED <<queue, fetching, opened, view, calls, deaf, joined>>

(* The rosters are wiped before the payload is parsed, and parsing fails.  *)
ReadyUnreadable(now) ==
    /\ handling = {}
    /\ changes < MaxReady
    /\ changes' = changes + 1
    /\ where' = now
    /\ states' = [u \in Users |-> Nowhere]
    /\ roster' = Wiped
    /\ cut' = {u \in Users : now[u] # Nowhere}
    /\ missed' = Users
    /\ UNCHANGED <<handling, queue, fetching, opened, view, calls, deaf, joined>>

(* The avatar is there, or could not be had.                               *)
Complete(h) ==
    /\ h \in handling
    /\ handling' = handling \ {h}
    /\ roster' = [roster EXCEPT ![h.room] = @ \cup {h.user}]
    /\ ForcePush(h)
    /\ UNCHANGED <<server, states, fetching, opened, view, calls, joined>>

(* The poll that runs the handler is dropped at the await.                 *)
Cancel ==
    /\ handling # {}
    /\ handling' = {}
    /\ cut' = cut \cup {h.user : h \in {h \in handling : h.user \notin roster[h.room]}}
    /\ UNCHANGED <<server, states, roster, queue, fetching, opened, view, calls,
                   missed, deaf, joined>>

-----------------------------------------------------------------------------
(* The guild is clicked and its rooms are not in the registry yet.         *)
GetGuild(f) ==
    /\ ~opened
    /\ fpc[f] = "idle"
    /\ fpc' = [fpc EXCEPT ![f] = "reading"]
    /\ UNCHANGED <<server, adapter, rooms, opened, view, calls, history>>

(* The house has no guild id: house_details fails, the click is forgotten. *)
GetGuildFails(f) ==
    /\ fpc[f] = "reading" /\ rooms[f] = NoRooms
    /\ fpc' = [fpc EXCEPT ![f] = "idle"]
    /\ UNCHANGED <<server, adapter, rooms, opened, view, calls, history>>

(* process_guild_channels looks up the roster channel by channel, while    *)
(* the handler may run on another thread.                                  *)
Seed(f, c) ==
    /\ fpc[f] = "reading"
    /\ c \notin DOMAIN rooms[f]
    /\ rooms' = [rooms EXCEPT ![f] =
                     [d \in DOMAIN @ \cup {c} |-> IF d = c THEN roster[c] ELSE @[d]]]
    /\ fpc' = [fpc EXCEPT ![f] = IF DOMAIN rooms'[f] = Channels THEN "read" ELSE @]
    /\ UNCHANGED <<server, adapter, opened, view, calls, history>>

(* The channels were not cached and REST failed: an empty list is returned *)
(* as if it were the guild's.                                              *)
RestFails(f) ==
    /\ fpc[f] = "reading" /\ rooms[f] = NoRooms
    /\ fpc' = [fpc EXCEPT ![f] = "read"]
    /\ UNCHANGED <<server, adapter, rooms, opened, view, calls, history>>

GuildRoomsLoaded(f) ==
    /\ fpc[f] = "read"
    /\ fpc' = [fpc EXCEPT ![f] = "idle"]
    /\ rooms' = [rooms EXCEPT ![f] = NoRooms]
    /\ opened' = TRUE
    /\ view' = rooms[f]
    /\ joined' = {k \in joined : \A c \in DOMAIN view' \ {croom[k]} : Self \notin view'[c]}
    /\ UNCHANGED <<server, adapter, calls, cut, missed, deaf>>

(* A fetch has looked at some channel and has not delivered yet.           *)
Reading == \E f \in Fetches : fpc[f] = "read" \/ rooms[f] # NoRooms

-----------------------------------------------------------------------------
(* The sidebar's call button: the room is copied, connect() is awaited,    *)
(* then the call is pushed, whatever connect() says.                       *)
Dial(k, c) ==
    /\ c \in DOMAIN view
    /\ cpc[k] = "idle"
    /\ cpc' = [cpc EXCEPT ![k] = "dialing"]
    /\ croom' = [croom EXCEPT ![k] = c]
    /\ cusers' = [cusers EXCEPT ![k] = view[c]]
    /\ UNCHANGED <<server, adapter, fetching, opened, view, history>>

PushCall(k) ==
    /\ cpc[k] = "dialing"
    /\ cpc' = [cpc EXCEPT ![k] = "open"]
    /\ UNCHANGED <<server, adapter, fetching, opened, view, croom, cusers, history>>

(* The calls of K are removed; the others have these participants.         *)
End(K, users) ==
    /\ cpc' = [k \in Calls |-> IF k \in K THEN "idle" ELSE cpc[k]]
    /\ croom' = [k \in Calls |-> IF k \in K THEN Nowhere ELSE croom[k]]
    /\ cusers' = [k \in Calls |-> IF k \in K THEN {} ELSE users[k]]

(* DisconnectFromCall: disconnect() is awaited, then the calls with the id *)
(* of the room are removed, those placed meanwhile included.               *)
HangUp(c) ==
    LET K == {k \in Calls : cpc[k] = "open" /\ croom[k] = c}
    IN /\ K # {}
       /\ End(K, cusers)
       /\ deaf' = [k \in Calls |-> IF k \in K THEN {} ELSE deaf[k]]
       /\ joined' = joined \ K
       /\ UNCHANGED <<server, adapter, fetching, opened, view, cut, missed>>

-----------------------------------------------------------------------------
Open == {k \in Calls : cpc[k] = "open"}
InCopy(u) == {k \in Open : u \in cusers[k]}

(* remove_voice_participant: the rooms and calls the user is taken from.   *)
LeftRooms(u) ==
    {c \in DOMAIN view : u \in view[c]} \cup {croom[k] : k \in InCopy(u)}

(* Mutant: a joining user is not taken out of the other rooms.             *)
JoinedOnly(u, r) ==
    /\ view' = With(view, u, r)
    /\ cusers' = [k \in Calls |->
                     IF k \in Open /\ croom[k] = r THEN cusers[k] \cup {u} ELSE cusers[k]]
    /\ joined' = IF u = Self THEN {k \in Calls : cpc[k] \in {"dialing", "open"} /\ croom[k] = r}
                            ELSE joined
    /\ UNCHANGED <<cpc, croom>>

(* Mutant: only the rooms are told, not the calls.                         *)
JoinedRoomsOnly(u, r) ==
    /\ view' = With(Without(view, u), u, r)
    /\ joined' = IF u = Self THEN {k \in Calls : cpc[k] \in {"dialing", "open"} /\ croom[k] = r}
                            ELSE joined
    /\ UNCHANGED calls

ParticipantJoined(u, r) ==
    /\ view' = With(Without(view, u), u, r)
    /\ cusers' = [k \in Calls |->
                     CASE cpc[k] # "open" -> cusers[k]
                       [] cpc[k] = "open" /\ croom[k] = r -> cusers[k] \cup {u}
                       [] OTHER -> cusers[k] \ {u}]
    /\ joined' = IF u = Self THEN {k \in Calls : cpc[k] \in {"dialing", "open"} /\ croom[k] = r}
                            ELSE joined
    /\ UNCHANGED <<cpc, croom>>

(* Mutant: a call ends only if its room was left.                          *)
EndedByRoom(left) == {k \in Open : croom[k] \in left}

(* The calls that end when the user leaves; a single call ends even if     *)
(* nobody knew the user was in it.                                         *)
Ended(left) ==
    IF left = {} /\ Cardinality(Open) = 1 THEN Open ELSE {k \in Open : croom[k] \in left}

ParticipantLeft(u) ==
    /\ view' = Without(view, u)
    /\ End(IF u = Self THEN Ended(LeftRooms(u)) ELSE {},
           [k \in Calls |-> IF k \in Open THEN cusers[k] \ {u} ELSE cusers[k]])
    /\ joined' = IF u = Self THEN {} ELSE joined

(* process_voice_event.  What it knows is lost on a fetch that has looked  *)
(* already and on a call not pushed yet, unless a newer event follows.     *)
Consume ==
    /\ queue # <<>>
    /\ queue' = Tail(queue)
    /\ LET u == Head(queue).user
           r == Head(queue).room
           last == {u} \ UsersOf(Tail(queue))
       IN /\ \/ r # Nowhere /\ ParticipantJoined(u, r)
             \/ r = Nowhere /\ ParticipantLeft(u)
          /\ missed' = IF Reading THEN missed \cup last ELSE missed
          /\ deaf' = [k \in Calls |->
                         CASE cpc[k] = "dialing" -> deaf[k] \cup last
                           [] cpc'[k] = "idle" -> {}
                           [] OTHER -> deaf[k]]
    /\ UNCHANGED <<server, states, roster, handling, fetching, opened, cut>>

-----------------------------------------------------------------------------
Dispatch ==
    \/ \E u \in Users, r \in Places : VoiceStateUpdate(u, r)
    \/ \E now \in [Users -> Places] :
          \/ \E known \in SUBSET {u \in Users : now[u] # Nowhere} : Ready(now, known)
          \/ ReadyUnreadable(now)
    \/ \E h \in handling : Complete(h)
    \/ Cancel

Fetch ==
    \E f \in Fetches :
        \/ GetGuild(f) \/ GetGuildFails(f) \/ RestFails(f) \/ GuildRoomsLoaded(f)
        \/ \E c \in Channels : Seed(f, c)

Call ==
    \/ \E k \in Calls : PushCall(k) \/ (\E c \in Channels : Dial(k, c))
    \/ \E c \in Channels : HangUp(c)

Next == Dispatch \/ Fetch \/ Call \/ Consume

Spec == Init /\ [][Next]_vars

-----------------------------------------------------------------------------
TypeOK ==
    /\ where \in [Users -> Places]
    /\ changes \in 0 .. MaxChanges
    /\ states \in [Users -> Places]
    /\ roster \in [Channels -> SUBSET Users]
    /\ handling \subseteq Futures
    /\ queue \in Seq(Events) /\ Len(queue) <= QueueCap
    /\ fpc \in [Fetches -> {"idle", "reading", "read"}]
    /\ rooms \in [Fetches -> RoomLists]
    /\ opened \in BOOLEAN
    /\ view \in RoomLists
    /\ cpc \in [Calls -> {"idle", "dialing", "open"}]
    /\ croom \in [Calls -> Places]
    /\ cusers \in [Calls -> SUBSET Users]
    /\ cut \subseteq Users /\ missed \subseteq Users
    /\ deaf \in [Calls -> SUBSET Users]
    /\ joined \subseteq Calls

(* The roster is "the authoritative source of who is in which VC"          *)
(* (lib.rs:238-244).  It never shows anybody where voice_states does not   *)
(* have them, and between two dispatches it shows everybody where they are *)
(* except those whose handler was dropped or had no member data.           *)
RosterFollows ==
    /\ \A c \in Channels : \A u \in roster[c] : states[u] = c
    /\ handling = {} =>
          \A u \in Users \ cut : \A c \in Channels : u \in roster[c] <=> where[u] = c

Quiet == handling = {} /\ queue = <<>> /\ ~Reading

RoomsConverged ==
    \A c \in DOMAIN view, u \in Users \ (cut \cup missed) :
        u \in view[c] <=> where[u] = c

CallsConverged ==
    \A k \in Open : \A u \in Users \ (cut \cup missed \cup deaf[k]) :
        u \in cusers[k] <=> where[u] = croom[k]

(* When everything is delivered the rooms of an opened guild show who is   *)
(* there, however the fetch, the handler and the events were interleaved;  *)
(* except for those whose last event met a gap: it was lost by a full      *)
(* queue, was never sent (Ready), or was consumed while a fetch that had   *)
(* looked already was under way (events.rs:221-265, messenger.rs:140-154). *)
(* So does a call, although it copied its room at the click and never      *)
(* looks at it again; except for events between the click and the push of  *)
(* the call (main.rs:301-332).                                             *)
Converged == Quiet => RoomsConverged /\ CallsConverged

(* Leaving ends the call the user was last seen joining, even if the event *)
(* of the join came before the call was there, or a fetch has taken the    *)
(* user out of the rooms since.  With both, so that the call's copy does   *)
(* not show the user either, and a second call open, nobody knows which    *)
(* call to end (record_v2/events.rs:247-265).                              *)
OwnLeaveEndsCall ==
    [][Consume /\ Head(queue) = [user |-> Self, room |-> Nowhere]
         => \A k \in joined \cap Open \cap Open' :
                Cardinality(Open) > 1 /\ Self \notin cusers[k]]_vars
=============================================================================
