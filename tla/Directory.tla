----------------------------- MODULE Directory -----------------------------
(***************************************************************************)
(* The conversations and the rooms of a guild, from the server to the      *)
(* sidebar (interface/discord/src/query.rs, gateways/general/events.rs,    *)
(* lib.rs; record_v2/src/main.rs, events.rs, pages/messenger.rs).          *)
(*                                                                         *)
(* Ready fills the caches, CHANNEL_CREATE extends them and goes on to the  *)
(* app through query_events.  At start-up the app asks for the             *)
(* conversations, from the cache or by REST, stores the answer and then    *)
(* starts the stream.  The rooms of a guild are fetched when the user      *)
(* clicks it while the app has none.  Participants of the rooms are        *)
(* VoiceRoster's, the questions at start-up StartUp's.                     *)
(*                                                                         *)
(* A list of channels is how often each channel is in it: its order is     *)
(* layout, but nothing here takes it for granted that a list has no        *)
(* repeats, since the cache is pushed to without a look.                   *)
(***************************************************************************)
EXTENDS Integers, Sequences, SequencesExt

CONSTANTS Dms, Rooms,    \* channels: conversations, and rooms of the guild
          Hidden,        \* rooms that someone may not view
          Unplaced,      \* conversations of a type that has no ChannelLocation
          Existing,      \* channels that exist at first
          Fetches,       \* clicks on the guild
          QueueCap,      \* EVENT_QUEUE_CAP
          Null

ASSUME DirectoryAssumption ==
    /\ Dms \cap Rooms = {} /\ Hidden \subseteq Rooms /\ Unplaced \subseteq Dms
    /\ Existing \subseteq Dms \cup Rooms
    /\ QueueCap \in Nat \ {0}

Channels == Dms \cup Rooms

Lists == [Channels -> Nat]
Once(S) == [c \in Channels |-> IF c \in S THEN 1 ELSE 0]
In(list) == {c \in Channels : list[c] > 0}
Push(list, c) == [list EXCEPT ![c] = @ + 1]

VARIABLES
    exists,          \* the server's channels
    wire,            \* what the gateway has yet to hand over, Null without one
    dm_channels,     \* InnerDiscord::dm_channels, Null until Ready
    guild_channels,  \* the guild's entry in guild_channels, Null for none
    mapped,          \* channel_id_mappings
    query_events,    \* rooms announced and not yet streamed
    lost,            \* history: those pushed out of the full queue
    step,            \* how far the start-up has come
    answer,          \* the conversations it has been given
    stream,          \* the query stream: where next() is
    conversations,   \* MessengerData::conversations
    rooms,           \* the guild's House::rooms, Null for None
    fetch            \* each fetch of the guild's rooms

backend == <<wire, dm_channels, guild_channels, mapped, query_events, lost>>
ui == <<step, answer, stream, conversations, rooms, fetch>>
dvars == <<exists, backend, ui>>

(* on       at the top of next()'s loop                                    *)
(* polling  it has popped nothing                                          *)
(* pulling  poll_for_events has loaded a connection and yields             *)
Running == {"on", "polling", "pulling"}

Idle == [pc |-> "idle", result |-> Once({})]

DInit ==
    /\ exists = Existing
    /\ wire = Null /\ dm_channels = Null /\ guild_channels = Null
    /\ mapped = {} /\ query_events = <<>> /\ lost = {}
    /\ step = "ask" /\ answer = Once({}) /\ stream = "off"
    /\ conversations = Once({}) /\ rooms = Null
    /\ fetch = [f \in Fetches |-> Idle]

-----------------------------------------------------------------------------
(* The server.                                                             *)
Create(c) ==
    /\ c \notin exists
    /\ exists' = exists \cup {c}
    /\ wire' = IF wire = Null THEN Null ELSE Append(wire, [ready |-> FALSE, channels |-> {c}])
    /\ UNCHANGED <<dm_channels, guild_channels, mapped, query_events, lost, ui>>

(* ensure_gateway: a fresh connection begins with Ready.  A query may open *)
(* it before listen does.                                                  *)
Connected == [ready |-> TRUE, channels |-> exists]

EnsureGateway ==
    /\ wire = Null /\ step = "ask"
    /\ wire' = <<Connected>>
    /\ UNCHANGED <<exists, dm_channels, guild_channels, mapped, query_events, lost, ui>>

(* Closed, or the server asks for a reconnect: a pass of another stream or *)
(* of a query notices.                                                     *)
GatewayGone ==
    /\ wire # Null
    /\ wire' = Null
    /\ UNCHANGED <<exists, dm_channels, guild_channels, mapped, query_events, lost, ui>>

(* Somebody pulls events: the stream, or a query waiting for Ready.        *)
Pulled == stream \in Running \/ step = "ask"
Next1 == wire # Null /\ wire # <<>> /\ Pulled
Received(ready) == Next1 /\ Head(wire).ready = ready /\ wire' = Tail(wire)

(* Mutant: the channels of a guild are added to those that are cached.     *)
ReadyExtends ==
    /\ Received(TRUE)
    /\ dm_channels' = Once(Head(wire).channels \cap Dms)
    /\ LET new == Once(Head(wire).channels \cap Rooms)
       IN  guild_channels' \in {guild_channels,
                               IF guild_channels = Null THEN new
                               ELSE [c \in Channels |-> guild_channels[c] + new[c]]}
    /\ UNCHANGED <<exists, mapped, query_events, lost, ui>>

(* Ready: a guild that is unavailable comes without its channels.          *)
Ready ==
    /\ Received(TRUE)
    /\ dm_channels' = Once(Head(wire).channels \cap Dms)
    /\ guild_channels' \in {guild_channels, Once(Head(wire).channels \cap Rooms)}
    /\ UNCHANGED <<exists, mapped, query_events, lost, ui>>

(* Mutant: the queue is not bounded.                                       *)
PushUnbounded(c) == query_events' = Append(query_events, c) /\ UNCHANGED lost

ForcePush(c) ==
    IF Len(query_events) = QueueCap
      THEN /\ query_events' = Append(Tail(query_events), c)
           /\ lost' = lost \cup {Head(query_events)}
      ELSE query_events' = Append(query_events, c) /\ UNCHANGED lost

(* CHANNEL_CREATE.  Conversations are not added to their cache.  A channel *)
(* without a location is announced like any other.                         *)
ChannelCreate ==
    /\ Received(FALSE)
    /\ \E c \in Head(wire).channels :
          /\ mapped' = mapped \cup ({c} \ Unplaced)
          /\ guild_channels' = IF c \notin Rooms THEN guild_channels
                               ELSE IF guild_channels = Null THEN Once({c})
                               ELSE Push(guild_channels, c)
          /\ ForcePush(c)
    /\ UNCHANGED <<exists, dm_channels, ui>>

(* A query's poll times out while the icons of a room are fetched.         *)
Dropped ==
    /\ step = "ask" /\ Received(FALSE)
    /\ UNCHANGED <<exists, dm_channels, guild_channels, mapped, query_events, lost, ui>>

-----------------------------------------------------------------------------
(* rooms(): from the cache, else by REST, else nothing.                    *)
AskRooms ==
    /\ step = "ask"
    /\ answer' \in IF dm_channels # Null THEN {dm_channels} ELSE {Once(exists \cap Dms), Once({})}
    /\ mapped' = mapped \cup (In(answer') \ Unplaced)
    /\ step' = "listen"
    /\ UNCHANGED <<exists, wire, dm_channels, guild_channels, query_events, lost, stream,
                   conversations, rooms, fetch>>

(* listen(): there is a stream only if the gateway opens.                  *)
StartStream ==
    /\ step = "listen"
    /\ \/ wire' = (IF wire = Null THEN <<Connected>> ELSE wire) /\ step' = "data"
       \/ wire = Null /\ step' = "mute" /\ UNCHANGED wire
    /\ UNCHANGED <<exists, dm_channels, guild_channels, mapped, query_events, lost, answer, stream,
                   conversations, rooms, fetch>>

(* Mutant: the streams are started beside modify_data and not after it.    *)
StoreBeside ==
    /\ step \in {"data", "mute"}
    /\ IF stream = "off" /\ step = "data"
         THEN stream' = "on" /\ UNCHANGED <<conversations, answer, step>>
         ELSE /\ conversations' = answer /\ answer' = Once({}) /\ step' = "done"
              /\ UNCHANGED stream
    /\ UNCHANGED <<exists, backend, rooms, fetch>>

(* modify_data, and then the stream.                                       *)
Store ==
    /\ step \in {"data", "mute"}
    /\ conversations' = answer /\ answer' = Once({})
    /\ stream' = IF step = "data" THEN "on" ELSE "off"
    /\ step' = "done"
    /\ UNCHANGED <<exists, backend, rooms, fetch>>

(* Mutant: what the list has is not looked at.                             *)
AddedAgain(list, c) == Push(list, c)

(* process_query_event.                                                    *)
Added(list, c) == IF list[c] > 0 THEN list ELSE Push(list, c)

ProcessQueryEvent ==
    /\ stream = "on" /\ query_events # <<>>
    /\ query_events' = Tail(query_events)
    /\ LET c == Head(query_events)
       IN  IF c \in Dms
             THEN conversations' = Added(conversations, c) /\ UNCHANGED rooms
             ELSE /\ rooms' = IF rooms = Null THEN Null ELSE Added(rooms, c)
                  /\ UNCHANGED conversations
    /\ UNCHANGED <<exists, wire, dm_channels, guild_channels, mapped, lost, step, answer,
                   stream, fetch>>

(* Mutant: the queue is left to the next turn.                             *)
PopNothingEver ==
    /\ stream = "on" /\ stream' = "polling"
    /\ UNCHANGED <<exists, backend, step, answer, conversations, rooms, fetch>>

(* pop() finds nothing.  From here on other passes can fill the queue.     *)
PopNothing ==
    /\ stream = "on" /\ query_events = <<>> /\ stream' = "polling"
    /\ UNCHANGED <<exists, backend, step, answer, conversations, rooms, fetch>>

(* poll_for_events: without a gateway the stream ends for good.            *)
PollForEvents ==
    /\ stream = "polling" /\ stream' = IF wire = Null THEN "ended" ELSE "pulling"
    /\ UNCHANGED <<exists, backend, step, answer, conversations, rooms, fetch>>

(* The pass is over, or the one waited for is: an event, or a heartbeat.   *)
PollReturns ==
    /\ stream = "pulling" /\ stream' = "on"
    /\ UNCHANGED <<exists, backend, step, answer, conversations, rooms, fetch>>

(* This pass reads the close of its connection, whatever has been queued   *)
(* since it popped nothing.                                                *)
StreamEnds ==
    /\ stream = "pulling" /\ stream' = "ended"
    /\ wire' = Null
    /\ UNCHANGED <<exists, dm_channels, guild_channels, mapped, query_events, lost, step, answer,
                   conversations, rooms, fetch>>

-----------------------------------------------------------------------------
(* The rooms of the guild.                                                 *)
GotoFetch(f, pc) == fetch' = [fetch EXCEPT ![f].pc = pc]
Result(f, pc, list) == fetch' = [fetch EXCEPT ![f] = [pc |-> pc, result |-> list]]

(* NavbarAction::GetGuild.                                                 *)
GetGuild(f) ==
    /\ step = "done" /\ fetch[f].pc = "idle" /\ rooms = Null
    /\ GotoFetch(f, "details")
    /\ UNCHANGED <<exists, backend, step, answer, stream, conversations, rooms>>

(* process_guild_channels leaves the hidden rooms out, and nothing else.   *)
Visible(list) == [c \in Channels |-> IF c \in Hidden THEN 0 ELSE list[c]]
ProcessGuildChannels(list) == mapped' = mapped \cup In(Visible(list))

(* house_details.                                                          *)
HouseDetails(f) ==
    /\ fetch[f].pc = "details"
    /\ IF guild_channels # Null
         THEN /\ Result(f, "answered", Visible(guild_channels))
              /\ ProcessGuildChannels(guild_channels)
         ELSE GotoFetch(f, "rest") /\ UNCHANGED mapped
    /\ UNCHANGED <<exists, wire, dm_channels, guild_channels, query_events, lost, step, answer,
                   stream, conversations, rooms>>

(* rest_get_guild_channels: what exists then, or nothing if it fails.      *)
RestReply(f) ==
    /\ fetch[f].pc = "rest"
    /\ \E S \in {exists \cap Rooms, {}} : Result(f, "reply", Once(S))
    /\ UNCHANGED <<exists, backend, step, answer, stream, conversations, rooms>>

RestDone(f) ==
    /\ fetch[f].pc = "reply"
    /\ Result(f, "answered", Visible(fetch[f].result))
    /\ ProcessGuildChannels(fetch[f].result)
    /\ UNCHANGED <<exists, wire, dm_channels, guild_channels, query_events, lost, step, answer,
                   stream, conversations, rooms>>

GuildRoomsLoaded(f) ==
    /\ fetch[f].pc = "answered"
    /\ rooms' = fetch[f].result
    /\ Result(f, "done", Once({}))
    /\ UNCHANGED <<exists, backend, step, answer, stream, conversations>>

-----------------------------------------------------------------------------
FetchStep(f) == HouseDetails(f) \/ RestReply(f) \/ RestDone(f) \/ GuildRoomsLoaded(f)

DNext ==
    \/ \E c \in Channels : Create(c)
    \/ EnsureGateway \/ GatewayGone \/ Ready \/ ChannelCreate \/ Dropped
    \/ AskRooms \/ StartStream \/ Store \/ ProcessQueryEvent
    \/ PopNothing \/ PollForEvents \/ PollReturns \/ StreamEnds
    \/ \E f \in Fetches : GetGuild(f) \/ FetchStep(f)

(* Tasks run, requests end, and a pass ends with the next heartbeat, which *)
(* wakes those who wait for it; the gateway need not hand anything over.   *)
DSpec ==
    /\ DInit /\ [][DNext]_dvars
    /\ WF_dvars(AskRooms) /\ WF_dvars(StartStream) /\ WF_dvars(Store)
    /\ WF_dvars(ProcessQueryEvent) /\ WF_dvars(PopNothing) /\ WF_dvars(PollForEvents)
    /\ WF_dvars(PollReturns)
    /\ \A f \in Fetches : WF_dvars(FetchStep(f))

-----------------------------------------------------------------------------
DTypeOK ==
    /\ exists \subseteq Channels /\ mapped \subseteq exists /\ lost \subseteq exists
    /\ wire = Null \/ \A i \in 1 .. Len(wire) : wire[i].channels \subseteq exists
    /\ dm_channels = Null \/ (dm_channels \in Lists /\ In(dm_channels) \subseteq exists \cap Dms)
    /\ \A list \in {guild_channels, rooms} :
          list = Null \/ (list \in Lists /\ In(list) \subseteq exists \cap Rooms)
    /\ Len(query_events) <= QueueCap /\ ToSet(query_events) \subseteq exists
    /\ step \in {"ask", "listen", "data", "mute", "done"}
    /\ stream \in Running \cup {"off", "ended"}
    /\ \A list \in {answer, conversations} : list \in Lists /\ In(list) \subseteq exists \cap Dms
    /\ fetch \in [Fetches -> [pc : {"idle", "details", "rest", "reply", "answered", "done"},
                              result : Lists]]

(* A channel in the sidebar is there once, although it can reach it        *)
(* through the cache, which is pushed to without a look, through REST and  *)
(* through an event; and it has its location, without which it could be    *)
(* neither read nor called, unless its type has none.                      *)
Listed ==
    /\ \A c \in Channels : conversations[c] <= 1 /\ (rooms # Null => rooms[c] <= 1)
    /\ In(conversations) \ Unplaced \subseteq mapped
    /\ rooms # Null => In(rooms) \subseteq mapped

(* A conversation that is announced is heard and stays in the sidebar for  *)
(* good, also when it is announced while the app starts up, unless it was  *)
(* pushed out of a full queue.  One announced while the stream is in its   *)
(* poll may be left in the queue, but only because the stream ends.        *)
Heard(d) == d \in In(conversations) \cup lost
Announced ==
    \A d \in Dms :
        /\ (d \in ToSet(query_events) /\ stream = "on") ~> []Heard(d)
        /\ (d \in ToSet(query_events) /\ stream \in Running)
              ~> ([]Heard(d) \/ [](stream = "ended"))
=============================================================================
