--------------------------- MODULE VoiceHandshake ---------------------------
(***************************************************************************)
(* Joining and leaving a voice channel (interface/discord/src/voice.rs,    *)
(* gateways/voice.rs, general/events.rs, polling.rs).                      *)
(*                                                                         *)
(* connect() asks for a channel over the main gateway; the server answers  *)
(* with VOICE_STATE_UPDATE (a session id) and VOICE_SERVER_UPDATE (an      *)
(* endpoint), in either order.  Each handler puts its half into the status *)
(* and tries to open the voice gateway.  The app's calls run beside the    *)
(* pump; the status mutex is taken for each change of the status and kept  *)
(* while the voice gateway is opened.                                      *)
(*                                                                         *)
(* An endpoint is the channel it was made for.  Sessions are numbers.      *)
(***************************************************************************)
EXTENDS Integers, Sequences, FiniteSets

CONSTANTS Channels,   \* voice channels
          Calls,      \* calls of connect() and disconnect() by the app
          Nil,        \* nothing
          MaxSession  \* bound: sessions the server hands out

Sessions == 1 .. MaxSession
Halves == [channel : Channels, endpoint : Channels \cup {Nil},
           session : Sessions \cup {Nil}]

ASSUME VoiceHandshakeAssumption ==
    /\ IsFiniteSet(Channels) /\ IsFiniteSet(Calls)
    /\ Nil \notin Channels \cup Sessions \cup Halves
    /\ MaxSession \in Nat \ {0}

Gateways == [channel : Channels, endpoint : Channels, session : Sessions]
Requests == Channels \cup {Nil}          \* opcode 4; Nil leaves
Updates == [type : {"state"}, channel : Channels \cup {Nil}, session : Sessions]
               \cup [type : {"server"}, endpoint : Channels]

VARIABLES
    status,     \* VoiceGatewayStatus: Nil is Closed, a record the rest
    voice,      \* VoiceGateway::voice_gateway
    opening,    \* the handler holds the status mutex in connect()
    passGw,     \* the voice gateway the current pass listens to
    hpc,        \* where the pass is
    update,     \* the event its handler has in hand
    upc,        \* where each call of the app is
    target,     \* its channel; Nil for disconnect()
    requests,   \* opcode 4 payloads on their way to the server
    updates,    \* dispatches on their way to the client
    place,      \* the server's view: the channel the user is in
    session,    \* the session it last gave out
    raced,      \* history: a call began with something else under way
    failed      \* history: something broke and was reported

hvars == <<status, voice, opening, passGw, hpc, update, upc, target,
           requests, updates, place, session, raced, failed>>
app == <<upc, target>>
server == <<place, session>>
history == <<raced, failed>>

(* Awaiting data is both halves missing, Ready is none missing.            *)
Ready == status # Nil /\ status.endpoint # Nil /\ status.session # Nil

HInit ==
    /\ status = Nil
    /\ voice = Nil
    /\ opening = FALSE
    /\ passGw = Nil
    /\ hpc = "idle"
    /\ update = Nil
    /\ upc = [u \in Calls |-> "new"]
    /\ target = [u \in Calls |-> Nil]
    /\ requests = <<>>
    /\ updates = <<>>
    /\ place = Nil
    /\ session = 0
    /\ raced = FALSE
    /\ failed = FALSE

Quiet == /\ requests = <<>> /\ updates = <<>>
         /\ hpc \in {"idle", "waiting"}
         /\ \A u \in Calls : upc[u] \in {"new", "done"}

-----------------------------------------------------------------------------
(* connect(): the status first, then the request.                          *)
Initiate(u, c) ==
    /\ upc[u] = "new"
    /\ ~opening
    /\ status' = [channel |-> c, endpoint |-> Nil, session |-> Nil]
    /\ upc' = [upc EXCEPT ![u] = "sending"]
    /\ target' = [target EXCEPT ![u] = c]
    /\ raced' = (raced \/ ~Quiet \/ voice # Nil \/ passGw # Nil)
    /\ UNCHANGED <<voice, opening, passGw, hpc, update, requests, updates, server, failed>>

(* disconnect(): the status and the voice gateway, then the request.       *)
ClearVoice ==
    /\ ~opening
    /\ status' = Nil
    /\ voice' = Nil

Disconnect(u) ==
    /\ upc[u] = "new"
    /\ ClearVoice
    /\ upc' = [upc EXCEPT ![u] = "sending"]
    /\ raced' = (raced \/ ~Quiet)
    /\ UNCHANGED <<opening, passGw, hpc, update, target, requests, updates, server, failed>>

SendRequest(u) ==
    /\ upc[u] = "sending"
    /\ requests' = Append(requests, target[u])
    /\ upc' = [upc EXCEPT ![u] = "done"]
    /\ UNCHANGED <<status, voice, opening, passGw, hpc, update, target, updates, server, history>>

(* The send fails: connect() takes everything back, disconnect() does not. *)
SendFails(u) ==
    /\ upc[u] = "sending"
    /\ \/ target[u] # Nil /\ ClearVoice
       \/ target[u] = Nil /\ UNCHANGED <<status, voice>>
    /\ upc' = [upc EXCEPT ![u] = "done"]
    /\ failed' = TRUE
    /\ UNCHANGED <<opening, passGw, hpc, update, target, requests, updates, server, raced>>

-----------------------------------------------------------------------------
(* The server moves the user.  A join brings both updates, in some order,  *)
(* with a new session unless the user only changes the channel; leaving    *)
(* brings the state of the old session without a channel.                  *)
StateUpdate(c, s) == [type |-> "state", channel |-> c, session |-> s]
ServerUpdate(c) == [type |-> "server", endpoint |-> c]

ServerJoins ==
    /\ requests # <<>>
    /\ Head(requests) # Nil
    /\ \E s \in {session, session + 1} \cap Sessions, first \in {"state", "server"} :
          /\ place # Nil \/ s = session + 1
          /\ session' = s
          /\ updates' = updates \o
                (IF first = "state"
                 THEN <<StateUpdate(Head(requests), s), ServerUpdate(Head(requests))>>
                 ELSE <<ServerUpdate(Head(requests)), StateUpdate(Head(requests), s)>>)
    /\ place' = Head(requests)
    /\ requests' = Tail(requests)
    /\ UNCHANGED <<status, voice, opening, passGw, hpc, update, app, history>>

ServerLeaves ==
    /\ requests # <<>>
    /\ Head(requests) = Nil
    /\ updates' = IF place = Nil THEN updates
                  ELSE Append(updates, StateUpdate(Nil, session))
    /\ place' = Nil
    /\ requests' = Tail(requests)
    /\ UNCHANGED <<status, voice, opening, passGw, hpc, update, app, session, history>>

-----------------------------------------------------------------------------
(* A pass of the pump loads the voice gateway once.                        *)
StartPass ==
    /\ hpc = "idle"
    /\ passGw' = voice
    /\ hpc' = "waiting"
    /\ UNCHANGED <<status, voice, opening, update, app, requests, updates, server, history>>

EndPass ==
    /\ hpc' = "idle"
    /\ update' = Nil
    /\ passGw' = Nil

(* Another event, or the heartbeat.                                        *)
OtherEvent ==
    /\ hpc = "waiting"
    /\ EndPass
    /\ UNCHANGED <<status, voice, opening, app, requests, updates, server, history>>

Receive ==
    /\ hpc = "waiting"
    /\ updates # <<>>
    /\ update' = Head(updates)
    /\ updates' = Tail(updates)
    /\ hpc' = "insert"
    /\ UNCHANGED <<status, voice, opening, passGw, app, requests, server, history>>

(* Mutant: a session id that comes second is not taken.                    *)
InsertSessionFirst(st, s) ==
    IF st = Nil \/ st.endpoint # Nil THEN st ELSE [st EXCEPT !.session = s]

(* insert_session_id: kept if there is one and the endpoint is missing.    *)
InsertSession(st, s) ==
    IF st = Nil \/ (st.endpoint = Nil /\ st.session # Nil)
    THEN st
    ELSE [st EXCEPT !.session = s]

(* insert_endpoint.                                                        *)
InsertEndpoint(st, e) == IF st = Nil THEN st ELSE [st EXCEPT !.endpoint = e]

(* Both handlers: first their half of the data.                            *)
Insert ==
    /\ hpc = "insert"
    /\ ~opening
    /\ status' = IF update.type = "state" THEN InsertSession(status, update.session)
                                          ELSE InsertEndpoint(status, update.endpoint)
    /\ hpc' = "try"
    /\ UNCHANGED <<voice, opening, passGw, update, app, requests, updates, server, history>>

(* Mutant: the status mutex is released before the handshake.              *)
TryConnectUnlocked ==
    /\ hpc = "try"
    /\ update.type = "state" => voice = Nil
    /\ Ready
    /\ hpc' = "opening"
    /\ update' = status
    /\ UNCHANGED <<status, voice, opening, passGw, app, requests, updates, server, history>>

(* Mutant: connect() does not wait for both halves.                        *)
TryConnectEarly ==
    /\ hpc = "try"
    /\ update.type = "state" => voice = Nil
    /\ ~opening
    /\ status # Nil
    /\ opening' = TRUE
    /\ hpc' = "opening"
    /\ update' = status
    /\ UNCHANGED <<status, voice, passGw, app, requests, updates, server, history>>

(* connect() of VoiceGateway.  VOICE_STATE_UPDATE tries only while there   *)
(* is no voice gateway, VOICE_SERVER_UPDATE always.                        *)
TryConnect ==
    /\ hpc = "try"
    /\ update.type = "state" => voice = Nil
    /\ ~opening
    /\ Ready
    /\ opening' = TRUE
    /\ hpc' = "opening"
    /\ update' = status
    /\ UNCHANGED <<status, voice, passGw, app, requests, updates, server, history>>

NotYet ==
    /\ hpc = "try"
    /\ \/ update.type = "state" /\ voice # Nil
       \/ ~Ready
    /\ EndPass
    /\ UNCHANGED <<status, voice, opening, app, requests, updates, server, history>>

Opened ==
    /\ hpc = "opening"
    /\ voice' = update
    /\ opening' = FALSE
    /\ EndPass
    /\ UNCHANGED <<status, app, requests, updates, server, history>>

OpenFails ==
    /\ hpc = "opening"
    /\ opening' = FALSE
    /\ failed' = TRUE
    /\ EndPass
    /\ UNCHANGED <<status, voice, app, requests, updates, server, raced>>

(* The voice gateway of the pass closes: whatever the status is by now is  *)
(* cleared.                                                                *)
VoiceCloses ==
    /\ hpc = "waiting"
    /\ passGw # Nil
    /\ ClearVoice
    /\ failed' = TRUE
    /\ EndPass
    /\ UNCHANGED <<opening, app, requests, updates, server, raced>>

-----------------------------------------------------------------------------
HNext ==
    \/ \E u \in Calls : \/ \E c \in Channels : Initiate(u, c)
                        \/ Disconnect(u) \/ SendRequest(u) \/ SendFails(u)
    \/ ServerJoins \/ ServerLeaves
    \/ StartPass \/ OtherEvent \/ Receive \/ Insert
    \/ TryConnect \/ NotYet \/ Opened \/ OpenFails \/ VoiceCloses

HSpec == HInit /\ [][HNext]_hvars

-----------------------------------------------------------------------------
HTypeOK ==
    /\ status \in Halves \cup {Nil}
    /\ voice \in Gateways \cup {Nil}
    /\ opening \in BOOLEAN
    /\ passGw \in Gateways \cup {Nil}
    /\ hpc \in {"idle", "waiting", "insert", "try", "opening"}
    /\ update \in Updates \cup Gateways \cup {Nil}
    /\ upc \in [Calls -> {"new", "sending", "done"}]
    /\ target \in [Calls -> Requests]
    /\ requests \in Seq(Requests)
    /\ updates \in Seq(Updates)
    /\ place \in Requests
    /\ session \in 0 .. MaxSession
    /\ raced \in BOOLEAN
    /\ failed \in BOOLEAN

(* A disconnect() that falls into a handshake leaves no voice gateway      *)
(* behind: with the status closed there is none (voice.rs:229-264).        *)
ClosedMeansDown == status = Nil => voice = Nil

(* A call made with nothing else under way gets its voice gateway, with    *)
(* the channel, endpoint and session of one join, in whichever order the   *)
(* two updates come (events.rs:149-222, voice.rs:229-257).                 *)
LoneCallOpens ==
    Quiet /\ ~raced /\ ~failed =>
        voice = IF place = Nil THEN Nil
                ELSE [channel |-> place, endpoint |-> place, session |-> session]
=============================================================================
