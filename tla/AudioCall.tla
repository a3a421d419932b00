----------------------------- MODULE AudioCall -----------------------------
(***************************************************************************)
(* The media of a Discord call (interface/discord/src/gateways/voice/      *)
(* audio.rs, events.rs, gateway.rs, connection.rs).                        *)
(*                                                                         *)
(* Ready gives a voice gateway its UDP connection, the first session       *)
(* description its keys and the app an audio stream.  A stream locks the   *)
(* audio manager, gets the microphone from the app and runs a session:     *)
(* pull re-checks the call and waits for a packet, a frame or a timer,     *)
(* process checks again, announces, takes a nonce and sends, with an await *)
(* before each.  The app sees the events a stream yields only when the     *)
(* session has returned.  Gateways are numbered; one has one connection.   *)
(***************************************************************************)
EXTENDS Integers, Sequences, FiniteSets, SequencesExt

CONSTANTS Streams,       \* audio streams
          Nobody,
          Speakers,      \* the others in the call, by SSRC
          MaxCalls,      \* bound: voice gateways opened
          MaxKeys,       \* bound: session descriptions
          MaxFrames,     \* bound: frames the microphone yields
          MaxDrops,      \* bound: senders the app drops unused
          MaxRetries,    \* MAX_MICROPHONE_RETRIES
          NonceSpace     \* 2^32

(* 2^32 frames of 20 ms are 2.7 years under one key.                       *)
ASSUME AudioCallAssumption ==
    /\ Nobody \notin Streams
    /\ {MaxCalls, MaxKeys, MaxRetries, NonceSpace} \subseteq Nat \ {0}
    /\ {MaxFrames, MaxDrops} \subseteq Nat
    /\ MaxFrames <= NonceSpace

Calls == 1 .. MaxCalls

VARIABLES
    call,      \* the voice gateway in the cell, 0 for none
    opened,    \* gateways opened so far
    linked,    \* those whose connection Ready has stored
    key,       \* Connection::description of each, 0 for None
    nonce,     \* Connection::send_state of each
    keys,      \* session descriptions so far
    speaking,  \* Voice::is_speaking of the gateway in the cell
    named,     \* its ssrc_to_user_id
    channel,   \* its ssrc_to_audio_channel
    manager,   \* who holds the audio_manager, its microphone, receiver, retries
    events,    \* audio_events
    inbox,     \* events a stream has yielded and the app has not processed
    stream,    \* each audio stream
    frames,    \* bound: frames sent so far
    drops,     \* bound: senders dropped so far
    used,      \* history: the (key, nonce) pairs sent with
    reused,    \* history: a pair was used twice
    late       \* history: frames each stream's session sent after its call

media == <<opened, linked, key, keys>>
sent == <<nonce, used, reused, frames>>
vars == <<call, media, sent, speaking, named, channel, manager, events, inbox, stream,
          drops, late>>

(* next      at the top of the loop of next()                              *)
(* lock      waiting for the audio manager                                 *)
(* prepare   in prepare_session, which may await the microphone            *)
(* pull, wait     at the top of pull's loop; in its select                 *)
(* speak, frame   process has verified the call; send_frame has a nonce    *)
(* stop      the stop-speaking timer fired                                 *)
PC == {"off", "next", "lock", "prepare", "pull", "wait", "speak", "frame",
       "stop", "ended"}
Idle == [pc |-> "off", ident |-> 0, timer |-> FALSE]

(* A playback channel: the app has not answered, has sent the producer,    *)
(* has dropped the sender; or it plays.                                    *)
Channel == {"none", "asked", "sent", "dropped", "playing"}
NoChannels == [u \in Speakers |-> "none"]
Source(u) == [call |-> call, speaker |-> u]
MicRequest == [call |-> 0, speaker |-> Nobody]
Event == [call : 1 .. MaxCalls, speaker : Speakers] \cup {MicRequest}

Init ==
    /\ call = 0 /\ opened = 0 /\ linked = {}
    /\ key = [c \in Calls |-> 0] /\ nonce = [c \in Calls |-> 0] /\ keys = 0
    /\ speaking = FALSE /\ named = {} /\ channel = NoChannels
    /\ manager = [holder |-> Nobody, mic |-> FALSE, recv |-> "none", retries |-> 0]
    /\ events = <<>> /\ inbox = <<>>
    /\ stream = [s \in Streams |-> Idle]
    /\ frames = 0 /\ drops = 0 /\ used = {} /\ reused = FALSE
    /\ late = [s \in Streams |-> 0]

At(s, pc) == stream[s].pc = pc
Becomes(s, r) == stream' = [stream EXCEPT ![s] = r]
Goto(s, pc) == Becomes(s, [stream[s] EXCEPT !.pc = pc])
Released == [manager EXCEPT !.holder = Nobody]

-----------------------------------------------------------------------------
(* The voice gateway (its handshake is VoiceHandshake's).                  *)
Open ==
    /\ call = 0 /\ opened < MaxCalls
    /\ opened' = opened + 1 /\ call' = opened + 1
    /\ speaking' = FALSE /\ named' = {} /\ channel' = NoChannels
    /\ UNCHANGED <<linked, key, keys, sent, manager, events, inbox, stream, drops, late>>

(* Disconnected, or closed by the server: the gateway leaves the cell, its *)
(* state goes with it.                                                     *)
Close ==
    /\ call # 0
    /\ call' = 0
    /\ speaking' = FALSE /\ named' = {} /\ channel' = NoChannels
    /\ UNCHANGED <<media, sent, manager, events, inbox, stream, drops, late>>

(* Ready, once: the UDP socket finds its address and the connection is     *)
(* stored.  If the handler is dropped or fails before, there is none.      *)
Ready ==
    /\ call # 0 /\ call \notin linked
    /\ linked' = linked \cup {call}
    /\ UNCHANGED <<call, opened, key, keys, sent, speaking, named, channel, manager,
                   events, inbox, stream, drops, late>>

(* SessionDescription: the server sends one after the protocol is          *)
(* selected, and new keys later.  The first one starts an audio stream.    *)
SessionDescription ==
    /\ call \in linked /\ keys < MaxKeys
    /\ keys' = keys + 1
    /\ key' = [key EXCEPT ![call] = keys + 1]
    /\ IF key[call] = 0
         THEN \E s \in Streams : At(s, "off") /\ Goto(s, "next")
         ELSE UNCHANGED stream
    /\ UNCHANGED <<call, opened, linked, sent, speaking, named, channel, manager,
                   events, inbox, drops, late>>

Speaking(u) ==
    /\ call # 0 /\ u \notin named
    /\ named' = named \cup {u}
    /\ UNCHANGED <<call, media, sent, speaking, channel, manager, events, inbox, stream,
                   drops, late>>

-----------------------------------------------------------------------------
(* next(): queued events first, else poll_audio.                           *)
Yield(s) ==
    /\ At(s, "next") /\ events # <<>>
    /\ events' = Tail(events)
    /\ inbox' = Append(inbox, Head(events))
    /\ UNCHANGED <<call, media, sent, speaking, named, channel, manager, stream, drops, late>>

Poll(s) ==
    /\ At(s, "next") /\ events = <<>>
    /\ Goto(s, "lock")
    /\ UNCHANGED <<call, media, sent, speaking, named, channel, manager, events, inbox,
                   drops, late>>

Lock(s) ==
    /\ At(s, "lock") /\ manager.holder = Nobody
    /\ manager' = [manager EXCEPT !.holder = s]
    /\ Goto(s, "prepare")
    /\ UNCHANGED <<call, media, sent, speaking, named, channel, events, inbox, drops, late>>

(* Mutant: lost senders are not counted.                                   *)
WantsMicForever == ~manager.mic

(* prepare_session.                                                        *)
WantsMic == ~manager.mic /\ manager.retries < MaxRetries

RequestMic(s) ==
    /\ At(s, "prepare") /\ WantsMic /\ manager.recv = "none"
    /\ events' = Append(events, MicRequest)
    /\ manager' = [manager EXCEPT !.holder = Nobody, !.recv = "asked"]
    /\ Goto(s, "next")
    /\ UNCHANGED <<call, media, sent, speaking, named, channel, inbox, drops, late>>

GotMic(s) ==
    /\ At(s, "prepare") /\ WantsMic /\ manager.recv = "sent"
    /\ manager' = [manager EXCEPT !.mic = TRUE, !.recv = "none", !.retries = 0]
    /\ UNCHANGED <<call, media, sent, speaking, named, channel, events, inbox, stream,
                   drops, late>>

LostMic(s) ==
    /\ At(s, "prepare") /\ WantsMic /\ manager.recv = "dropped"
    /\ manager' = [manager EXCEPT !.holder = Nobody, !.recv = "none", !.retries = @ + 1]
    /\ Goto(s, "next")
    /\ UNCHANGED <<call, media, sent, speaking, named, channel, events, inbox, drops, late>>

(* Mutant: nonce, sequence and timestamp live in the session.              *)
AttachAnew(s) ==
    /\ At(s, "prepare") /\ ~WantsMic
    /\ IF call \in linked
         THEN /\ Becomes(s, [Idle EXCEPT !.pc = "pull", !.ident = call])
              /\ nonce' = [nonce EXCEPT ![call] = 0]
              /\ UNCHANGED manager
         ELSE manager' = Released /\ Goto(s, "ended") /\ UNCHANGED nonce
    /\ UNCHANGED <<call, media, used, reused, frames, speaking, named, channel, events, inbox, drops, late>>

(* The session attaches to whatever call is there now.                     *)
Attach(s) ==
    /\ At(s, "prepare") /\ ~WantsMic
    /\ IF call \in linked
         THEN Becomes(s, [Idle EXCEPT !.pc = "pull", !.ident = call]) /\ UNCHANGED manager
         ELSE manager' = Released /\ Goto(s, "ended")
    /\ UNCHANGED <<call, media, sent, speaking, named, channel, events, inbox, drops, late>>

-----------------------------------------------------------------------------
(* Mutant: the call is loaded once per session.                            *)
LoadedOnce(s) == TRUE

(* load_live_call.                                                         *)
LoadLiveCall(s) == call = stream[s].ident

(* The session is over: the codecs and the timer go with it.               *)
Leave(s, pc) == manager' = Released /\ Becomes(s, [Idle EXCEPT !.pc = pc])

Pull(s) ==
    /\ At(s, "pull")
    /\ IF LoadLiveCall(s) THEN Goto(s, "wait") /\ UNCHANGED manager ELSE Leave(s, "ended")
    /\ UNCHANGED <<call, media, sent, speaking, named, channel, events, inbox, drops, late>>

(* The heartbeat, an unusable packet, RTCP: once more.                     *)
Again(s) ==
    /\ At(s, "wait")
    /\ Goto(s, "pull")
    /\ UNCHANGED <<call, media, sent, speaking, named, channel, manager, events, inbox,
                   drops, late>>

(* recv: a packet is decoded with the keys and, under DAVE, for a user.    *)
Decodes(u) == key[call] # 0 /\ u \in named

(* Mutant: a channel whose sender is gone is asked for no more.            *)
DispatchNoRetry(c) ==
    CASE c = "none" -> "asked" [] c = "sent" -> "playing" [] OTHER -> c

(* dispatch_incoming_audio.                                                *)
Dispatch(c) ==
    CASE c = "none" -> "asked" [] c = "sent" -> "playing" [] c = "dropped" -> "none" [] OTHER -> c

(* A new channel ends the session, so that the app gets the request.       *)
Packet(s, u) ==
    /\ At(s, "wait") /\ call = stream[s].ident /\ Decodes(u)
    /\ channel' = [channel EXCEPT ![u] = Dispatch(@)]
    /\ IF channel[u] = "none"
         THEN events' = Append(events, Source(u)) /\ Leave(s, "next")
         ELSE Goto(s, "pull") /\ UNCHANGED <<manager, events>>
    /\ UNCHANGED <<call, media, sent, speaking, named, inbox, drops, late>>

(* A frame of the microphone, or its silence.                              *)
Due(s, pc) ==
    \/ pc = "speak" /\ manager.mic /\ frames < MaxFrames
    \/ pc = "stop" /\ stream[s].timer

Work(s, pc) ==
    /\ At(s, "wait") /\ Due(s, pc)
    /\ IF LoadLiveCall(s) THEN Goto(s, pc) /\ UNCHANGED manager ELSE Leave(s, "ended")
    /\ UNCHANGED <<call, media, sent, speaking, named, channel, events, inbox, drops, late>>

Announce(s, b) == speaking' = IF call = stream[s].ident THEN b ELSE speaking

(* send_frame: keys and nonce are taken in one go.                         *)
TakeNonce(s) ==
    LET c == stream[s].ident
        pair == <<key[c], nonce[c]>>
    IN  /\ At(s, "speak")
        /\ Announce(s, TRUE)
        /\ frames' = frames + 1
        /\ IF key[c] = 0
             THEN /\ Becomes(s, [stream[s] EXCEPT !.pc = "pull", !.timer = TRUE])
                  /\ UNCHANGED <<nonce, used, reused>>
             ELSE /\ Goto(s, "frame")
                  /\ nonce' = [nonce EXCEPT ![c] = (@ + 1) % NonceSpace]
                  /\ reused' = (reused \/ pair \in used)
                  /\ used' = used \cup {pair}
        /\ UNCHANGED <<call, media, named, channel, manager, events, inbox, drops, late>>

Sent(s) ==
    /\ At(s, "frame")
    /\ late' = [late EXCEPT ![s] = IF call = stream[s].ident THEN 0 ELSE @ + 1]
    /\ Becomes(s, [stream[s] EXCEPT !.pc = "pull", !.timer = TRUE])
    /\ UNCHANGED <<call, media, sent, speaking, named, channel, manager, events, inbox, drops>>

StopSpeaking(s) ==
    /\ At(s, "stop")
    /\ Announce(s, FALSE)
    /\ Becomes(s, [stream[s] EXCEPT !.pc = "pull", !.timer = FALSE])
    /\ UNCHANGED <<call, media, sent, named, channel, manager, events, inbox, drops, late>>

-----------------------------------------------------------------------------
(* The app: it creates a channel and sends its end, or drops the sender.   *)
Process ==
    /\ inbox # <<>>
    /\ inbox' = Tail(inbox)
    /\ \E answer \in {"sent", "dropped"} :
           /\ answer = "dropped" => drops < MaxDrops
           /\ drops' = drops + (IF answer = "dropped" THEN 1 ELSE 0)
           /\ IF Head(inbox) = MicRequest
                THEN manager' = [manager EXCEPT !.recv = answer] /\ UNCHANGED channel
                ELSE /\ channel' = IF Head(inbox).call = call
                                     THEN [channel EXCEPT ![Head(inbox).speaker] = answer]
                                     ELSE channel
                     /\ UNCHANGED manager
    /\ UNCHANGED <<call, media, sent, speaking, named, events, stream, late>>

StreamStep(s) ==
    \/ Yield(s) \/ Poll(s) \/ Lock(s) \/ RequestMic(s) \/ GotMic(s) \/ LostMic(s)
    \/ Attach(s) \/ Pull(s) \/ TakeNonce(s) \/ Sent(s) \/ StopSpeaking(s)

Next ==
    \/ Open \/ Close \/ Ready \/ SessionDescription
    \/ \E u \in Speakers : Speaking(u)
    \/ Process
    \/ \E s \in Streams :
          \/ StreamStep(s) \/ Again(s)
          \/ \E u \in Speakers : Packet(s, u)
          \/ \E pc \in {"speak", "stop"} : Work(s, pc)

(* The streams are polled, the app processes messages, the heartbeat comes *)
(* every second, and somebody who talks keeps talking.                     *)
Spec ==
    /\ Init /\ [][Next]_vars
    /\ WF_vars(Process)
    /\ \A s \in Streams :
          /\ WF_vars(StreamStep(s)) /\ WF_vars(Again(s))
          /\ \A u \in Speakers : SF_vars(Packet(s, u))

-----------------------------------------------------------------------------
TypeOK ==
    /\ call \in 0 .. MaxCalls /\ opened \in 0 .. MaxCalls /\ linked \subseteq 1 .. opened
    /\ key \in [Calls -> 0 .. MaxKeys] /\ keys \in 0 .. MaxKeys
    /\ nonce \in [Calls -> 0 .. NonceSpace - 1]
    /\ speaking \in BOOLEAN /\ named \subseteq Speakers
    /\ channel \in [Speakers -> Channel]
    /\ manager \in [holder : Streams \cup {Nobody}, mic : BOOLEAN,
                    recv : {"none", "asked", "sent", "dropped"}, retries : 0 .. MaxRetries]
    /\ events \in Seq(Event) /\ inbox \in Seq(Event)
    /\ stream \in [Streams -> [pc : PC, ident : 0 .. MaxCalls, timer : BOOLEAN]]
    /\ frames \in 0 .. MaxFrames /\ drops \in 0 .. MaxDrops
    /\ used \subseteq (1 .. MaxKeys) \X (0 .. NonceSpace - 1)
    /\ reused \in BOOLEAN /\ late \in [Streams -> Nat]

(* No nonce is used twice under one key, however often the session is      *)
(* rebuilt and the keys are rotated.                                       *)
NonceFresh == ~reused

(* The check of the call and the send are apart: a session may send one    *)
(* frame after its call has ended, never a second.                         *)
OneLateFrame == \A s \in Streams : late[s] <= 1

(* Whoever talks in a call with keys gets a playback channel, although     *)
(* sessions end for it, streams wait for each other and senders are lost;  *)
(* and no session of an earlier call keeps the manager from the call.      *)
SpeakersHeard ==
    \A c \in Calls, u \in Speakers :
        (call = c /\ key[c] # 0 /\ u \in named) ~> (channel[u] = "playing" \/ call # c)
=============================================================================
