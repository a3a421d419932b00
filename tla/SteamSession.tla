---------------------------- MODULE SteamSession ----------------------------
(***************************************************************************)
(* The Steam backend's session (interface/steam/src/lib.rs, session.rs,    *)
(* query.rs).                                                              *)
(*                                                                         *)
(* One session serves the event stream and every query.  connected() hands *)
(* it out under an async mutex and replaces it once it was seen dead.  No  *)
(* task reads the session's updates: whoever needs one locks the streams   *)
(* and polls them with a timeout, and the timeout drops the update it is   *)
(* in the middle of.  A query that meets a text hands it to the stream     *)
(* through `pending`.  Names, avatars and history are not state here, and  *)
(* there is one group, with one room.                                      *)
(***************************************************************************)
EXTENDS Integers, Sequences, FiniteSets, SequencesExt

CONSTANTS Queries,       \* calls of the app, each made at most once
          Wants,         \* bound: the kinds of call each may be
          Stream,        \* the event stream's next()
          Nobody,        \* no holder of a lock
          NoText,
          Texts,         \* texts Steam pushes
          GroupTexts,    \* those of the group room
          MaxSessions,   \* bound: sessions established
          MaxPolls,      \* the 100 polls of wait_for_friend_list
          MaxIdle,       \* its 10 idle polls
          MaxAttempts    \* MAX_RECONNECT_ATTEMPTS

ASSUME SteamSessionAssumption ==
    /\ GroupTexts \subseteq Texts /\ NoText \notin Texts
    /\ Stream \notin Queries /\ Nobody \notin Queries \cup {Stream}
    /\ {MaxSessions, MaxPolls, MaxIdle} \subseteq Nat \ {0}
    /\ MaxAttempts \in Nat
    /\ Wants \in [Queries -> SUBSET {"contacts", "houses", "house", "room"}]

Callers == Queries \cup {Stream}
Sessions == 1 .. MaxSessions

VARIABLES
    cached,      \* SteamMessenger::connected, 0 for None
    connecting,  \* who holds its mutex
    secret,      \* SteamMessenger::secret
    made,        \* sessions established so far
    conn,        \* each session's Connected, and what Steam has queued for it
    call,        \* the future of each caller
    attempts,    \* reconnects next() has counted
    held,        \* the app holds an Arc<dyn Messenger>
    listed,      \* the app shows the group
    shown,       \* the sessions whose house_details() showed the app its room
    delivered,   \* history: the texts next() resolved to
    dropped,     \* history: the texts a timeout dropped half-processed
    misrouted    \* history: the calls that took the room for a friend's chat:
                 \* their session, and the `shown` of that moment

app == <<held, listed, shown, misrouted>>
vars == <<cached, connecting, secret, made, conn, call, attempts, app, delivered,
          dropped>>

Kinds == {"none", "listen", "contacts", "houses", "house", "room", "next"}

(* off         not called                                                  *)
(* top         next() is at the top of its loop                            *)
(* connect, establish   in connected(), before and after it has the mutex  *)
(* ready       connected() returned a session to next()                    *)
(* polling     in poll_update_once, before it has the streams' lock        *)
(* taking, processing   it has the lock, and no update or one              *)
(* handing     a query has a text and no lock                              *)
(* asking      a request to Steam is under way                             *)
(* answering   its answer waits for icons or for profiles                  *)
(* backoff     sleep_unless_dropped                                        *)
PC == {"off", "top", "connect", "establish", "ready", "polling", "taking",
       "processing", "handing", "asking", "answering", "backoff", "ended"}

NoConn == [alive |-> FALSE, direct |-> <<>>, group |-> <<>>, off |-> FALSE,
           lock |-> Nobody, pending |-> <<>>, friends |-> FALSE, known |-> FALSE, located |-> FALSE]
NoCall == [pc |-> "off", kind |-> "none", sess |-> 0, hand |-> NoText,
           polls |-> 0, idle |-> 0]

Init ==
    /\ cached = 0 /\ connecting = Nobody /\ secret = "password" /\ made = 0
    /\ conn = [s \in Sessions |-> NoConn]
    /\ call = [c \in Callers |-> NoCall]
    /\ attempts = 0 /\ held = TRUE /\ listed = FALSE /\ shown = {}
    /\ delivered = <<>> /\ dropped = {} /\ misrouted = {}

At(c, pc) == call[c].pc = pc
Becomes(c, r) == call' = [call EXCEPT ![c] = r]
Goto(c, pc) == Becomes(c, [call[c] EXCEPT !.pc = pc])
End(c) == Becomes(c, [NoCall EXCEPT !.pc = "ended"])
Conn(c) == conn[call[c].sess]
SetConn(c, r) == conn' = [conn EXCEPT ![call[c].sess] = r]

-----------------------------------------------------------------------------
(* Steam.  It serves the newest session until it logs it off.              *)
Serving == made > 0 /\ conn[made].alive /\ ~conn[made].off

Somewhere ==
    (UNION {ToSet(conn[s].direct) \cup ToSet(conn[s].group) \cup ToSet(conn[s].pending)
              : s \in Sessions})
      \cup {call[c].hand : c \in Callers} \cup ToSet(delivered) \cup dropped

SteamStep(r) ==
    /\ Serving
    /\ conn' = [conn EXCEPT ![made] = r]
    /\ UNCHANGED <<cached, connecting, secret, made, call, attempts, app, delivered, dropped>>

PushText ==
    \E m \in Texts \ Somewhere :
        SteamStep(IF m \in GroupTexts
                    THEN [conn[made] EXCEPT !.group = Append(@, m)]
                    ELSE [conn[made] EXCEPT !.direct = Append(@, m)])

LogOff == SteamStep([conn[made] EXCEPT !.off = TRUE])

(* The app makes a call: it listens once, clicks a group it shows, and     *)
(* reads, writes or calls in a room it shows.  At last it drops its        *)
(* handle.                                                                 *)
Start(c, k) ==
    /\ held /\ At(c, "off")
    /\ IF c = Stream THEN k = "listen" ELSE k \in Wants[c]
    /\ k = "house" => listed
    /\ k = "room" => shown # {}
    /\ Becomes(c, [call[c] EXCEPT !.pc = "connect", !.kind = k])
    /\ UNCHANGED <<cached, connecting, secret, made, conn, attempts, app, delivered,
                   dropped>>

DropHandle ==
    /\ held /\ held' = FALSE
    /\ UNCHANGED <<cached, connecting, secret, made, conn, call, attempts, listed, shown,
                   misrouted, delivered, dropped>>

-----------------------------------------------------------------------------
(* connected().  What a caller does with the session it gets: listen() is  *)
(* satisfied, contacts() and rooms() wait for the friends list, the other  *)
(* calls send their request.                                               *)
Waits(c, s, polls, idle) ==
    ~conn'[s].friends /\ polls < MaxPolls /\ idle < MaxIdle

Got(c, s) ==
    Becomes(c, CASE call[c].kind = "listen" -> [NoCall EXCEPT !.pc = "top", !.kind = "next"]
                 [] call[c].kind = "next" -> [call[c] EXCEPT !.pc = "ready", !.sess = s]
                 [] call[c].kind = "contacts" ->
                      IF Waits(c, s, 0, 0) THEN [call[c] EXCEPT !.pc = "polling", !.sess = s]
                                           ELSE [NoCall EXCEPT !.pc = "ended"]
                 [] OTHER -> [call[c] EXCEPT !.pc = "asking", !.sess = s])

Live == cached # 0 /\ conn[cached].alive

Reuse(c) ==
    /\ At(c, "connect") /\ connecting = Nobody /\ Live
    /\ UNCHANGED conn
    /\ Got(c, cached)
    /\ UNCHANGED <<cached, connecting, secret, made, attempts, app, delivered,
                   dropped>>

(* Mutant: the mutex is not held while a session is established.           *)
RebuildUnlocked(c) ==
    /\ At(c, "connect") /\ ~Live
    /\ connecting' = c
    /\ Goto(c, "establish")
    /\ UNCHANGED <<cached, secret, made, conn, attempts, app, delivered, dropped>>

Rebuild(c) ==
    /\ At(c, "connect") /\ connecting = Nobody /\ ~Live
    /\ connecting' = c
    /\ Goto(c, "establish")
    /\ UNCHANGED <<cached, secret, made, conn, attempts, app, delivered, dropped>>

(* The friends list pushed during the logon may be drained already.        *)
Establish(c) ==
    /\ At(c, "establish") /\ made < MaxSessions
    /\ made' = made + 1
    /\ cached' = made + 1
    /\ secret' = "token"
    /\ connecting' = Nobody
    /\ \E early \in BOOLEAN :
           conn' = [conn EXCEPT ![made + 1] = [NoConn EXCEPT !.alive = TRUE, !.friends = early]]
    /\ Got(c, made + 1)
    /\ UNCHANGED <<attempts, app, delivered, dropped>>

(* Mutant: the budget is never spent.                                      *)
CountFailureForever ==
    \E stable \in BOOLEAN :
        /\ attempts' = IF stable THEN 1 ELSE attempts + 1
        /\ Becomes(Stream, [NoCall EXCEPT !.pc = "backoff", !.kind = "next"])

(* note_reconnect: a failure long after the last starts the count anew.    *)
CountFailure ==
    \E stable \in BOOLEAN :
        /\ attempts' = IF stable THEN 1 ELSE attempts + 1
        /\ IF attempts' > MaxAttempts THEN End(Stream)
             ELSE Becomes(Stream, [NoCall EXCEPT !.pc = "backoff", !.kind = "next"])

Refused(c) ==
    /\ At(c, "establish")
    /\ connecting' = Nobody
    /\ IF call[c].kind = "next" THEN CountFailure ELSE End(c) /\ UNCHANGED attempts
    /\ UNCHANGED <<cached, secret, made, conn, app, delivered, dropped>>

-----------------------------------------------------------------------------
(* poll_update_once.                                                       *)
Lock(c) ==
    /\ At(c, "polling") /\ Conn(c).lock = Nobody
    /\ SetConn(c, [Conn(c) EXCEPT !.lock = c])
    /\ Goto(c, "taking")
    /\ UNCHANGED <<cached, connecting, secret, made, attempts, app, delivered, dropped>>

Queued(c) == Conn(c).direct # <<>> \/ Conn(c).group # <<>> \/ Conn(c).off

(* SelectAll polls its streams in turn: no order between them.             *)
TakeText(c) ==
    \E k \in {"direct", "group"} :
        /\ At(c, "taking") /\ Conn(c)[k] # <<>>
        /\ SetConn(c, [Conn(c) EXCEPT ![k] = Tail(@)])
        /\ Becomes(c, [call[c] EXCEPT !.pc = "processing", !.hand = Head(Conn(c)[k])])
        /\ UNCHANGED <<cached, connecting, secret, made, attempts, app, delivered,
                       dropped>>

(* A poll is over: the next turn of next() or of wait_for_friend_list.     *)
Polled(c, useful) ==
    LET polls == call[c].polls + 1
        idle == IF useful THEN 0 ELSE call[c].idle + 1
    IN  Becomes(c, IF c = Stream THEN [NoCall EXCEPT !.pc = "top", !.kind = "next"]
                   ELSE IF Waits(c, call[c].sess, polls, idle)
                   THEN [call[c] EXCEPT !.pc = "polling", !.hand = NoText,
                                        !.polls = polls, !.idle = idle]
                   ELSE [NoCall EXCEPT !.pc = "ended"])

(* A friends list, persona states, a stream's report that it lagged, a     *)
(* typing notification: Steam may push them at any time.                   *)
Pushed(c, known) == [Conn(c) EXCEPT !.lock = Nobody, !.friends = @ \/ known]

TakePush(c) ==
    /\ At(c, "taking")
    /\ \E known \in BOOLEAN : SetConn(c, Pushed(c, known))
    /\ Polled(c, TRUE)
    /\ UNCHANGED <<cached, connecting, secret, made, attempts, app, delivered, dropped>>

TakeLogOff(c) ==
    /\ At(c, "taking") /\ Conn(c).off
    /\ SetConn(c, [Conn(c) EXCEPT !.off = FALSE, !.lock = Nobody, !.alive = FALSE])
    /\ IF c = Stream THEN CountFailure ELSE Polled(c, FALSE) /\ UNCHANGED attempts
    /\ UNCHANGED <<cached, connecting, secret, made, app, delivered, dropped>>

(* The poll's timeout.  A ready update is always taken first, but taking   *)
(* it awaits: images of a text are downloaded.                             *)
Timeout(c) ==
    /\ At(c, "processing") \/ (At(c, "taking") /\ ~Queued(c))
    /\ \E known \in BOOLEAN :
           /\ known => call[c].hand \in GroupTexts
           /\ SetConn(c, [Conn(c) EXCEPT !.lock = Nobody, !.located = @ \/ known])
    /\ dropped' = dropped \cup ({call[c].hand} \ {NoText})
    /\ Polled(c, FALSE)
    /\ UNCHANGED <<cached, connecting, secret, made, attempts, app, delivered>>

(* The text is ready; a text of the group tells where the room is.         *)
Processed(c) ==
    /\ At(c, "processing")
    /\ SetConn(c, [Conn(c) EXCEPT !.lock = Nobody,
                                  !.located = @ \/ call[c].hand \in GroupTexts])
    /\ IF c = Stream
         THEN /\ delivered' = Append(delivered, call[c].hand)
              /\ attempts' = 0
              /\ Polled(c, TRUE)
         ELSE Goto(c, "handing") /\ UNCHANGED <<delivered, attempts>>
    /\ UNCHANGED <<cached, connecting, secret, made, app, dropped>>

(* Mutant: a query keeps no text it meets.                                 *)
HandOverNothing(c) ==
    /\ At(c, "handing")
    /\ UNCHANGED conn
    /\ Polled(c, TRUE)
    /\ UNCHANGED <<cached, connecting, secret, made, attempts, app, delivered, dropped>>

(* drive_update_for_cache: push_back.                                      *)
HandOver(c) ==
    /\ At(c, "handing")
    /\ SetConn(c, [Conn(c) EXCEPT !.pending = Append(@, call[c].hand)])
    /\ Polled(c, TRUE)
    /\ UNCHANGED <<cached, connecting, secret, made, attempts, app, delivered, dropped>>

-----------------------------------------------------------------------------
(* next().                                                                 *)
Gone == ~held /\ \A c \in Queries : call[c].pc \in {"off", "ended"}

(* Mutant: next() does not look whether anybody is left.                   *)
TopUnchecked ==
    /\ At(Stream, "top")
    /\ Goto(Stream, "connect")
    /\ UNCHANGED <<cached, connecting, secret, made, conn, attempts, app, delivered, dropped>>

Top ==
    /\ At(Stream, "top")
    /\ IF Gone THEN End(Stream) ELSE Goto(Stream, "connect")
    /\ UNCHANGED <<cached, connecting, secret, made, conn, attempts, app, delivered,
                   dropped>>

(* Mutant: the text handed over is read but not popped.                    *)
NextTextKept ==
    /\ At(Stream, "ready")
    /\ IF Conn(Stream).pending # <<>>
         THEN /\ delivered' = Append(delivered, Head(Conn(Stream).pending))
              /\ attempts' = 0
              /\ UNCHANGED conn
              /\ Polled(Stream, TRUE)
         ELSE Goto(Stream, "polling") /\ UNCHANGED <<conn, attempts, delivered>>
    /\ UNCHANGED <<cached, connecting, secret, made, app, dropped>>

(* next_text_event: what queries have handed over comes first.  Resolving  *)
(* to a text, next() is called again and counts from 0.                    *)
NextText ==
    /\ At(Stream, "ready")
    /\ IF Conn(Stream).pending # <<>>
         THEN /\ delivered' = Append(delivered, Head(Conn(Stream).pending))
              /\ SetConn(Stream, [Conn(Stream) EXCEPT !.pending = Tail(@)])
              /\ attempts' = 0
              /\ Polled(Stream, TRUE)
         ELSE Goto(Stream, "polling") /\ UNCHANGED <<conn, attempts, delivered>>
    /\ UNCHANGED <<cached, connecting, secret, made, app, dropped>>

(* sleep_unless_dropped, then the top of the loop.                         *)
Wake ==
    /\ At(Stream, "backoff")
    /\ IF Gone THEN End(Stream) ELSE Goto(Stream, "connect")
    /\ UNCHANGED <<cached, connecting, secret, made, conn, attempts, app, delivered,
                   dropped>>

-----------------------------------------------------------------------------
(* An error or a timeout: houses() answers with no groups, house_details() *)
(* with no rooms if chat_groups does not have the group.                   *)
NoAnswer(c) ==
    /\ At(c, "asking")
    /\ call[c].kind = "houses" \/ (call[c].kind = "house" /\ ~Conn(c).known)
    /\ End(c)
    /\ UNCHANGED <<cached, connecting, secret, made, conn, attempts, app, delivered, dropped>>

(* Mutant: only chat_groups is filled.                                     *)
HousesUnlocated(c) ==
    /\ At(c, "asking") /\ call[c].kind = "houses"
    /\ SetConn(c, [Conn(c) EXCEPT !.known = TRUE])
    /\ Goto(c, "answering")
    /\ UNCHANGED <<cached, connecting, secret, made, attempts, app, delivered, dropped>>

(* load_chat_groups: the session gets the group and where its room is.     *)
Houses(c) ==
    /\ At(c, "asking") /\ call[c].kind = "houses"
    /\ SetConn(c, [Conn(c) EXCEPT !.known = TRUE, !.located = TRUE])
    /\ Goto(c, "answering")
    /\ UNCHANGED <<cached, connecting, secret, made, attempts, app, delivered, dropped>>

(* load_chat_group_details.                                                *)
HouseDetails(c) ==
    /\ At(c, "asking") /\ call[c].kind = "house"
    /\ SetConn(c, [Conn(c) EXCEPT !.known = TRUE, !.located = TRUE])
    /\ Goto(c, "answering")
    /\ UNCHANGED <<cached, connecting, secret, made, attempts, app, delivered, dropped>>

(* It failed: the group is taken as chat_groups has it.                    *)
HouseKnown(c) ==
    /\ At(c, "asking") /\ call[c].kind = "house" /\ Conn(c).known
    /\ Goto(c, "answering")
    /\ UNCHANGED <<cached, connecting, secret, made, conn, attempts, app, delivered, dropped>>

(* The app gets the group of houses(), the room of house_details().        *)
Answered(c) ==
    /\ At(c, "answering")
    /\ listed' = (listed \/ call[c].kind = "houses")
    /\ shown' = shown \cup (IF call[c].kind = "house" THEN {call[c].sess} ELSE {})
    /\ End(c)
    /\ UNCHANGED <<cached, connecting, secret, made, conn, attempts, held, misrouted,
                   delivered, dropped>>

(* get_messages, send_message and Voice::connect look the room up in the   *)
(* session they got, and one they do not find is taken for a friend's: his *)
(* history is read, the message goes to him, the call fails.               *)
Routed(c) ==
    /\ At(c, "asking") /\ call[c].kind = "room"
    /\ misrouted' = misrouted \cup
          (IF Conn(c).located THEN {} ELSE {[sess |-> call[c].sess, shown |-> shown]})
    /\ End(c)
    /\ UNCHANGED <<cached, connecting, secret, made, conn, attempts, held, listed,
                   shown, delivered, dropped>>

-----------------------------------------------------------------------------
CallerStep(c) ==
    \/ Reuse(c) \/ Rebuild(c) \/ Establish(c) \/ Refused(c)
    \/ Lock(c) \/ TakeText(c) \/ TakePush(c) \/ TakeLogOff(c) \/ Timeout(c)
    \/ Processed(c)

QueryStep(c) ==
    \/ CallerStep(c) \/ HandOver(c)
    \/ NoAnswer(c) \/ Houses(c) \/ HouseDetails(c) \/ HouseKnown(c) \/ Answered(c)
    \/ Routed(c)

StreamStep == CallerStep(Stream) \/ Top \/ NextText \/ Wake

Next ==
    \/ PushText \/ LogOff \/ DropHandle
    \/ \E c \in Callers, k \in Kinds \ {"none", "next"} : Start(c, k)
    \/ \E c \in Queries : QueryStep(c)
    \/ StreamStep

(* Futures that can run do: every await is answered or timed out.  The     *)
(* streams take turns, so pushes cannot keep a text waiting forever.       *)
Spec ==
    /\ Init /\ [][Next]_vars
    /\ WF_vars(StreamStep) /\ SF_vars(TakeText(Stream)) /\ \A c \in Queries : WF_vars(QueryStep(c))

-----------------------------------------------------------------------------
TypeOK ==
    /\ cached \in 0 .. MaxSessions /\ made \in 0 .. MaxSessions /\ cached = made
    /\ connecting \in Callers \cup {Nobody}
    /\ secret \in {"password", "token"}
    /\ conn \in [Sessions -> [alive : BOOLEAN, direct : Seq(Texts), group : Seq(Texts),
                              off : BOOLEAN,
                              lock : Callers \cup {Nobody}, pending : Seq(Texts),
                              friends : BOOLEAN, known : BOOLEAN, located : BOOLEAN]]
    /\ call \in [Callers -> [pc : PC, kind : Kinds, sess : 0 .. MaxSessions,
                             hand : Texts \cup {NoText}, polls : 0 .. MaxPolls,
                             idle : 0 .. MaxIdle]]
    /\ attempts \in 0 .. MaxAttempts + 1
    /\ held \in BOOLEAN /\ listed \in BOOLEAN
    /\ shown \subseteq Sessions
    /\ delivered \in Seq(Texts) /\ dropped \subseteq Texts
    /\ misrouted \subseteq [sess : Sessions, shown : SUBSET Sessions]

(* However callers overlap, at most one session is alive, only one caller  *)
(* logs in at a time, and the one-time Steam Guard code is not submitted   *)
(* again once it has bought a token.                                       *)
OneSession ==
    /\ Cardinality({s \in Sessions : conn[s].alive}) <= 1
    /\ \A c \in Callers : At(c, "establish") =>
          connecting = c /\ (made > 0 => secret = "token")

(* A text is in one place: queued, in one caller's hand, pending, shown or *)
(* dropped.  The hand-over between a query and the stream neither doubles  *)
(* it nor shows it twice.                                                  *)
Places(m) ==
    {<<"queue", s>> : s \in {t \in Sessions : m \in ToSet(conn[t].direct) \cup ToSet(conn[t].group)}}
      \cup {<<"pending", s>> : s \in {t \in Sessions : m \in ToSet(conn[t].pending)}}
      \cup {<<"hand", c>> : c \in {d \in Callers : call[d].hand = m}}
      \cup {<<"shown", i>> : i \in {j \in DOMAIN delivered : delivered[j] = m}}
      \cup {<<"dropped", i>> : i \in {j \in {0} : m \in dropped}}

NeverTwice == \A m \in Texts : Cardinality(Places(m)) <= 1

(* The room of a group is read, written to and called in the group, in     *)
(* every session that has shown it to the app, the first or a later one,   *)
(* also while other calls fail or find the session replaced.  Only a       *)
(* session made since, whose own answers have not shown the room yet,      *)
(* takes it for a friend's chat.                                           *)
RoutedWithinSession ==
    \A m \in misrouted : m.sess \notin m.shown /\ \E s \in m.shown : s < m.sess

(* A text Steam pushed is shown, or a timeout dropped it, or its session   *)
(* or the stream ended first: no interleaving of queries and the stream    *)
(* leaves it lying in `pending` or in a hand.                              *)
Missed(m) ==
    \/ m \in dropped
    \/ call[Stream].pc \in {"off", "ended"}
    \/ \E s \in Sessions : <<"queue", s>> \in Places(m) /\ ~conn[s].alive
    \/ \E s \in Sessions : <<"pending", s>> \in Places(m) /\ ~conn[s].alive
Heard == \A m \in Texts : m \in Somewhere ~> m \in ToSet(delivered) \/ Missed(m)

(* Once nobody else holds the messenger, the stream ends: next() notices   *)
(* it at the top of its loop and while it backs off.                       *)
StreamEnds == Gone ~> call[Stream].pc \in {"off", "ended"}
=============================================================================
