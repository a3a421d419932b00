---------------------------- MODULE GatewayProofs ----------------------------
(***************************************************************************)
(* Proofs about the gateways, for any sets of pollers, listeners,          *)
(* connections, channels and calls.                                        *)
(*                                                                         *)
(* GatewayPolling.tla, the pump of the main gateway: the receiver lock is  *)
(* held by the pass that runs, and a connection in the cell is never       *)
(* replaced. VoiceHandshake.tla, what the handlers of a pass do to join    *)
(* and to leave a voice channel: no voice gateway outlives a closed        *)
(* status, and a call made by itself gets the gateway it asked for.        *)
(***************************************************************************)
EXTENDS GatewayPolling, VoiceHandshake, TLAPS

-----------------------------------------------------------------------------
(* THE PUMP                                                                *)

(* The init lock of the LazyArc is held by the listener that connects, and *)
(* by nobody while there is a connection.                                  *)
InitLockInv ==
    /\ \A l \in Listeners : lpc[l] = "connecting" <=> init = l
    /\ init # None => gateway = None

IInv == TypeOK /\ LockHeldByPass /\ InitLockInv

LEMMA InitInv == Init => IInv
<1> SUFFICES ASSUME Init PROVE IInv
  OBVIOUS
<1>1. TypeOK
  BY DEF Init, TypeOK, PollerPC
<1>2. LockHeldByPass
  BY GatewayPollingAssumption DEF Init, LockHeldByPass, Holding
<1>3. InitLockInv
  BY GatewayPollingAssumption DEF Init, InitLockInv
<1>4. QED
  BY <1>1, <1>2, <1>3 DEF IInv

(* listen().                                                               *)
LEMMA ListenInv ==
    ASSUME IInv, NEW l \in Listeners, Listen(l)
    PROVE  IInv'
<1> USE GatewayPollingAssumption DEF IInv, TypeOK, LockHeldByPass, InitLockInv
<1>1. CASE LoadFull(l)
  BY <1>1 DEF LoadFull
<1>2. CASE LockInit(l)
  BY <1>2 DEF LockInit
<1>3. CASE Connect(l)
  BY <1>3 DEF Connect
<1>4. CASE ConnectFails(l)
  BY <1>4 DEF ConnectFails
<1>5. QED
  BY <1>1, <1>2, <1>3, <1>4 DEF Listen

(* Steps of poll_for_events that neither take nor give back the lock, nor  *)
(* touch the cell.                                                         *)
LEMMA SameLockInv ==
    ASSUME IInv, NEW p \in Pollers, NEW to \in PollerPC, NEW c \in Conns \cup {None},
           ppc' = [ppc EXCEPT ![p] = to],
           conn' = [conn EXCEPT ![p] = c],
           ppc[p] \in Holding <=> to \in Holding,
           to \in Holding => c = conn[p],
           c = None => to \in {"looping", "ended"},
           gateway' \in {gateway, None},
           UNCHANGED <<fresh, closed, holder, lpc, init, killed>>
    PROVE  IInv'
BY GatewayPollingAssumption DEF IInv, TypeOK, LockHeldByPass, InitLockInv

LEMMA NotifyInv ==
    ASSUME IInv, NEW p \in Pollers, Notify(p)
    PROVE  IInv'
BY GatewayPollingAssumption
DEF Notify, IInv, TypeOK, PollerPC, LockHeldByPass, Holding, InitLockInv

LEMMA TryLockInv ==
    ASSUME IInv, NEW p \in Pollers, TryLock(p)
    PROVE  IInv'
<1> USE GatewayPollingAssumption
        DEF TryLock, IInv, TypeOK, PollerPC, LockHeldByPass, Holding, InitLockInv
<1>1. conn[p] \in Conns
  OBVIOUS
<1>2. CASE holder[conn[p]] = None
  BY <1>1, <1>2
<1>3. CASE holder[conn[p]] # None
  BY <1>1, <1>3
<1>4. QED
  BY <1>2, <1>3

LEMMA UnlockInv ==
    ASSUME IInv, NEW p \in Pollers, Unlock(p)
    PROVE  IInv'
<1> USE GatewayPollingAssumption
        DEF Unlock, IInv, TypeOK, PollerPC, LockHeldByPass, Holding, InitLockInv
<1>1. conn[p] \in Conns /\ holder[conn[p]] = p
  OBVIOUS
<1>2. QED
  BY <1>1

(* poll_for_events, dropped or not.                                        *)
LEMMA PollInv ==
    ASSUME IInv, NEW p \in Pollers, Poll(p) \/ Cancel(p) \/ GiveUp(p)
    PROVE  IInv'
<1>1. /\ gateway \in Conns \cup {None}
      /\ conn \in [Pollers -> Conns \cup {None}]
      /\ conn[p] = None => ppc[p] \in {"looping", "ended"}
  BY DEF IInv, TypeOK
<1>2. conn = [conn EXCEPT ![p] = conn[p]]
  BY <1>1
<1> USE SameLockInv DEF PollerPC, Holding
<1>3. CASE Load(p)
  BY <1>1, <1>3 DEF Load
<1>4. CASE Park(p)
  BY <1>1, <1>2, <1>4 DEF Park
<1>5. CASE ReceiveEvent(p)
  BY <1>1, <1>2, <1>5 DEF ReceiveEvent
<1>6. CASE HandleEvent(p)
  BY <1>1, <1>2, <1>6 DEF HandleEvent
<1>7. CASE Reconnect(p)
  BY <1>1, <1>2, <1>7 DEF Reconnect
<1>8. CASE Beat(p)
  BY <1>1, <1>2, <1>8 DEF Beat
<1>9. CASE TearDown(p)
  BY <1>1, <1>2, <1>9 DEF TearDown
<1>10. CASE Cancel(p)
  BY <1>1, <1>2, <1>10 DEF Cancel
<1>11. CASE GiveUp(p)
  BY <1>1, <1>11 DEF GiveUp
<1>12. QED
  BY <1>3, <1>4, <1>5, <1>6, <1>7, <1>8, <1>9, <1>10, <1>11,
     TryLockInv, NotifyInv, UnlockInv DEF Poll

LEMMA NextInv == IInv /\ [Next]_vars => IInv'
<1> SUFFICES ASSUME IInv, [Next]_vars PROVE IInv'
  OBVIOUS
<1>1. ASSUME NEW l \in Listeners, NEW p \in Pollers, StartPolling(l, p) PROVE IInv'
  BY <1>1, GatewayPollingAssumption
  DEF StartPolling, IInv, TypeOK, PollerPC, LockHeldByPass, Holding, InitLockInv
<1>2. ASSUME NEW c \in Conns, ServerCloses(c) PROVE IInv'
  BY <1>2 DEF ServerCloses, IInv, TypeOK, LockHeldByPass, InitLockInv
<1>3. CASE Kill
  BY <1>3, GatewayPollingAssumption
  DEF Kill, IInv, TypeOK, PollerPC, LockHeldByPass, Holding, InitLockInv
<1>4. CASE UNCHANGED vars
  BY <1>4 DEF vars, IInv, TypeOK, LockHeldByPass, InitLockInv
<1>5. QED
  BY <1>1, <1>2, <1>3, <1>4, ListenInv, PollInv DEF Next

(* The invariant holds of every behaviour of the pump.                     *)
THEOREM GatewayPollingInvariant == Spec => []IInv
<1>1. QED
  BY InitInv, NextInv, PTL DEF Spec

(* Every variable keeps its type; a poller past Load works on a connection *)
(* (polling.rs:76-85).                                                     *)
THEOREM GatewayPollingTypeOK == Spec => []TypeOK
<1>1. IInv => TypeOK
  BY DEF IInv
<1>2. QED
  BY <1>1, GatewayPollingInvariant, PTL

(* One pass at a time on a connection, whoever pumps, is dropped or is     *)
(* killed (polling.rs:86-98).                                              *)
THEOREM GatewayPollingLockHeldByPass == Spec => []LockHeldByPass
<1>1. IInv => LockHeldByPass
  BY DEF IInv
<1>2. QED
  BY <1>1, GatewayPollingInvariant, PTL

-----------------------------------------------------------------------------
(* Only Connect fills the cell, and it holds the init lock.                *)
LEMMA NextKeepsConnection ==
    ASSUME IInv, [Next]_vars, gateway # None
    PROVE  gateway' \in {gateway, None}
<1>1. ASSUME NEW l \in Listeners, Listen(l) PROVE gateway' = gateway
  BY <1>1, GatewayPollingAssumption
  DEF Listen, LoadFull, LockInit, Connect, ConnectFails, IInv, InitLockInv
<1>2. ASSUME NEW p \in Pollers, Poll(p) \/ Cancel(p) \/ GiveUp(p)
      PROVE  gateway' \in {gateway, None}
  BY <1>2 DEF Poll, Load, TryLock, Park, ReceiveEvent, HandleEvent, Reconnect,
              Beat, TearDown, Notify, Unlock, Cancel, GiveUp
<1>3. QED
  BY <1>1, <1>2 DEF Next, StartPolling, ServerCloses, Kill, vars

(* However many listeners start together, a connection in the cell is      *)
(* cleared or kept, never replaced by another one (lazy_arc.rs:6-8).       *)
THEOREM GatewayPollingNeverReplaced == Spec => NeverReplaced
<1>1. IInv /\ [Next]_vars => [gateway # None => gateway' \in {gateway, None}]_vars
  BY NextKeepsConnection
<1>2. QED
  BY <1>1, GatewayPollingInvariant, PTL DEF Spec, NeverReplaced

-----------------------------------------------------------------------------
(* THE VOICE HANDSHAKE                                                     *)

(* connect() runs under the status mutex and opens what the status says;   *)
(* the handlers before it have an update in hand.                          *)
OpeningInv ==
    /\ opening <=> hpc = "opening"
    /\ opening => update = status /\ Ready
    /\ hpc \in {"insert", "try"} => update \in Updates
    /\ place # Nil => session \in Sessions
    /\ \A u \in Calls : upc[u] = "new" => target[u] = Nil

(* The status of a join, by the update that has come: none, the one of     *)
(* type t, both.                                                           *)
Blank(c) == [channel |-> c, endpoint |-> Nil, session |-> Nil]
Half(c, t) == [channel |-> c, endpoint |-> IF t = "server" THEN c ELSE Nil,
                              session |-> IF t = "state" THEN session ELSE Nil]
Full(c) == [channel |-> c, endpoint |-> c, session |-> session]
(* The two updates of a join.                                              *)
Answer(c, t) == IF t = "state" THEN StateUpdate(c, session) ELSE ServerUpdate(c)
Other(t) == IF t = "state" THEN "server" ELSE "state"

(* Where the requests and the pass stand between two steps of a handshake. *)
Sending(u, c) == /\ upc[u] = "sending" /\ target[u] = c
                 /\ \A v \in Calls \ {u} : upc[v] # "sending"
NoneSending == \A u \in Calls : upc[u] # "sending"
Resting == hpc \in {"idle", "waiting"}

(* Nothing is under way.                                                   *)
Settled == /\ Quiet
           /\ voice = status
           /\ status = IF place = Nil THEN Nil ELSE Full(place)

(* The request for c is on its way.                                        *)
Asking(c) == /\ Resting /\ updates = <<>> /\ place = Nil
             /\ status = Blank(c)
             /\ \/ requests = <<>> /\ \E u \in Calls : Sending(u, c)
                \/ requests = <<c>> /\ NoneSending

(* The updates for c are, that of type t first.                            *)
Answered(c, t) ==
    /\ requests = <<>> /\ NoneSending /\ place = c
    /\ \/ /\ updates = <<Answer(c, t), Answer(c, Other(t))>>
          /\ Resting /\ status = Blank(c)
       \/ /\ updates = <<Answer(c, Other(t))>>
          /\ \/ hpc = "insert" /\ update = Answer(c, t) /\ status = Blank(c)
             \/ hpc = "try" /\ update = Answer(c, t) /\ status = Half(c, t)
             \/ Resting /\ status = Half(c, t)
       \/ /\ updates = <<>>
          /\ \/ hpc = "insert" /\ update = Answer(c, Other(t)) /\ status = Half(c, t)
             \/ hpc \in {"try", "opening"} /\ status = Full(c)

(* The user leaves.                                                        *)
Leaving ==
    /\ status = Nil
    /\ \/ /\ Resting /\ updates = <<>>
          /\ \/ requests = <<>> /\ \E u \in Calls : Sending(u, Nil)
             \/ requests = <<Nil>> /\ NoneSending
       \/ /\ requests = <<>> /\ NoneSending /\ place = Nil
          /\ \/ Resting /\ \E s \in Sessions : updates = <<StateUpdate(Nil, s)>>
             \/ hpc \in {"insert", "try"} /\ updates = <<>>

(* The user joins.                                                         *)
Joining == \E c \in Channels : /\ voice = Nil
                               /\ Asking(c) \/ \E t \in {"state", "server"} : Answered(c, t)

(* While no call meets another and nothing breaks, a handshake is at rest, *)
(* on its way in or on its way out: nothing in between.                    *)
LoneInv == ~raced /\ ~failed => Settled \/ Joining \/ Leaving

(* The inductive invariant of the handshake.                               *)
HandshakeInv == HTypeOK /\ ClosedMeansDown /\ OpeningInv /\ LoneInv

(* What the constants give.                                                *)
LEMMA HandshakeFacts ==
           /\ Nil \notin Channels /\ Nil \notin Sessions /\ Nil \notin Halves
           /\ Nil \notin Gateways /\ Gateways \subseteq Halves
           /\ \A s \in Sessions : s \in 1 .. MaxSession
           /\ MaxSession \in Nat
           /\ \A c \in Requests, s \in Sessions : StateUpdate(c, s) \in Updates
           /\ \A c \in Channels : ServerUpdate(c) \in Updates
BY VoiceHandshakeAssumption
DEF VoiceHandshakeAssumption, Gateways, Halves, Sessions, Requests, Updates, StateUpdate,
    ServerUpdate

(* It holds at first.                                                      *)
LEMMA HandshakeInit ==
    ASSUME HInit
    PROVE  HandshakeInv
<1>1. HTypeOK
  <2>1. upc \in [Calls -> {"new", "sending", "done"}] /\ target \in [Calls -> Requests]
    BY DEF HInit, Requests
  <2>2. requests \in Seq(Requests) /\ updates \in Seq(Updates)
    BY DEF HInit
  <2>3. place \in Requests /\ session \in 0 .. MaxSession
    BY HandshakeFacts DEF HInit, Requests
  <2>4. QED
    BY <2>1, <2>2, <2>3 DEF HInit, HTypeOK
<1>2. ClosedMeansDown /\ OpeningInv
  BY DEF HInit, ClosedMeansDown, OpeningInv
<1>3. Settled
  BY DEF HInit, Settled, Quiet
<1>4. QED
  BY <1>1, <1>2, <1>3 DEF HandshakeInv, LoneInv

(* Every step keeps the types.                                             *)
LEMMA HandshakeTypes ==
    ASSUME HTypeOK, OpeningInv, [HNext]_hvars
    PROVE  HTypeOK'
<1> USE HandshakeFacts DEF HTypeOK
<1>1. CASE UNCHANGED hvars
  BY <1>1 DEF hvars, app, server, history
<1>2. ASSUME NEW u \in Calls, NEW c \in Channels, Initiate(u, c) PROVE HTypeOK'
  <2>1. [channel |-> c, endpoint |-> Nil, session |-> Nil] \in Halves
    BY DEF Halves
  <2>2. QED
    BY <1>2, <2>1 DEF Initiate, server, Requests
<1>3. ASSUME NEW u \in Calls, Disconnect(u) PROVE HTypeOK'
  BY <1>3 DEF Disconnect, ClearVoice, server
<1>4. ASSUME NEW u \in Calls, SendRequest(u) PROVE HTypeOK'
  BY <1>4 DEF SendRequest, server, history
<1>5. ASSUME NEW u \in Calls, SendFails(u) PROVE HTypeOK'
  BY <1>5 DEF SendFails, ClearVoice, server
<1>6. CASE ServerJoins
  <2>1. PICK s \in {session, session + 1} \cap Sessions, t \in {"state", "server"} :
            /\ session' = s
            /\ updates' = updates \o
                (IF t = "state"
                 THEN <<StateUpdate(Head(requests), s), ServerUpdate(Head(requests))>>
                 ELSE <<ServerUpdate(Head(requests)), StateUpdate(Head(requests), s)>>)
    BY <1>6 DEF ServerJoins
  <2>2. /\ requests # <<>> /\ Head(requests) # Nil /\ place' = Head(requests)
        /\ requests' = Tail(requests)
        /\ UNCHANGED <<status, voice, opening, passGw, hpc, update, upc, target, raced, failed>>
    BY <1>6 DEF ServerJoins, app, history
  <2> DEFINE c == Head(requests)
             x == StateUpdate(c, s)
             y == ServerUpdate(c)
  <2>3. c \in Requests /\ c \in Channels /\ Tail(requests) \in Seq(Requests)
    BY <2>2 DEF Requests
  <2>4. x \in Updates /\ y \in Updates
    BY <2>1, <2>3
  <2>5. updates' = updates \o (IF t = "state" THEN <<x, y>> ELSE <<y, x>>)
    BY <2>1
  <2> HIDE DEF c, x, y
  <2>6. updates' \in Seq(Updates)
    BY <2>4, <2>5
  <2>7. session' \in 0 .. MaxSession
    BY <2>1
  <2>8. QED
    BY <2>2, <2>3, <2>6, <2>7 DEF c
<1>7. CASE ServerLeaves
  <2>1. updates' \in Seq(Updates)
    <3>1. CASE place = Nil
      BY <1>7, <3>1 DEF ServerLeaves
    <3>2. CASE place # Nil
      <4>1. StateUpdate(Nil, session) \in Updates
        BY <3>2 DEF OpeningInv, Requests
      <4>2. QED
        BY <1>7, <3>2, <4>1 DEF ServerLeaves
    <3>3. QED
      BY <3>1, <3>2
  <2>2. QED
    BY <1>7, <2>1 DEF ServerLeaves, app, history, Requests
<1>8. CASE StartPass
  BY <1>8 DEF StartPass, app, server, history
<1>9. CASE OtherEvent
  BY <1>9 DEF OtherEvent, EndPass, app, server, history
<1>10. CASE Receive
  BY <1>10 DEF Receive, app, server, history
<1>11. CASE Insert
  <2>1. update \in Updates
    BY <1>11 DEF Insert, OpeningInv
  <2>2. status' \in Halves \cup {Nil}
    <3>1. CASE status = Nil
      BY <1>11, <3>1 DEF Insert, InsertSession, InsertEndpoint
    <3>2. CASE status # Nil /\ update.type = "state"
      <4>1. update.session \in Sessions
        BY <2>1, <3>2 DEF Updates
      <4>2. [status EXCEPT !.session = update.session] \in Halves
        BY <3>2, <4>1 DEF Halves
      <4>3. QED
        BY <1>11, <3>2, <4>2 DEF Insert, InsertSession
    <3>3. CASE status # Nil /\ update.type # "state"
      <4>1. update.endpoint \in Channels
        BY <2>1, <3>3 DEF Updates
      <4>2. [status EXCEPT !.endpoint = update.endpoint] \in Halves
        BY <3>3, <4>1 DEF Halves
      <4>3. QED
        BY <1>11, <3>3, <4>2 DEF Insert, InsertEndpoint
    <3>4. QED
      BY <3>1, <3>2, <3>3
  <2>3. QED
    BY <1>11, <2>2 DEF Insert, app, server, history
<1>12. CASE TryConnect
  <2>1. status \in Gateways
    BY <1>12 DEF TryConnect, Ready, Halves, Gateways
  <2>2. QED
    BY <1>12, <2>1 DEF TryConnect, app, server, history
<1>13. CASE NotYet
  BY <1>13 DEF NotYet, EndPass, app, server, history
<1>14. CASE Opened
  <2>1. update \in Gateways
    BY <1>14 DEF Opened, OpeningInv, Ready, Halves, Gateways
  <2>2. QED
    BY <1>14, <2>1 DEF Opened, EndPass, app, server, history
<1>15. CASE OpenFails
  BY <1>15 DEF OpenFails, EndPass, app, server
<1>16. CASE VoiceCloses
  BY <1>16 DEF VoiceCloses, ClearVoice, EndPass, app, server
<1>17. QED
  BY <1>1, <1>2, <1>3, <1>4, <1>5, <1>6, <1>7, <1>8, <1>9, <1>10, <1>11, <1>12, <1>13,
     <1>14, <1>15, <1>16 DEF HNext

(* The status mutex is kept while the voice gateway opens, so it still     *)
(* says what is opened.                                                    *)
LEMMA HandshakeOpening ==
    ASSUME HTypeOK, OpeningInv, ClosedMeansDown, [HNext]_hvars
    PROVE  OpeningInv' /\ ClosedMeansDown'
<1> USE HandshakeFacts DEF OpeningInv, ClosedMeansDown, Ready
<1>1. CASE UNCHANGED hvars
  BY <1>1 DEF hvars, app, server, history
<1>2. ASSUME NEW u \in Calls, NEW c \in Channels, Initiate(u, c)
      PROVE  OpeningInv' /\ ClosedMeansDown'
  <2>1. [channel |-> c, endpoint |-> Nil, session |-> Nil] \in Halves
    BY DEF Halves
  <2>2. QED
    BY <1>2, <2>1 DEF HTypeOK, Initiate, server
<1>3. ASSUME NEW u \in Calls, Disconnect(u) PROVE OpeningInv' /\ ClosedMeansDown'
  BY <1>3 DEF HTypeOK, Disconnect, ClearVoice, server
<1>4. ASSUME NEW u \in Calls, SendRequest(u) PROVE OpeningInv' /\ ClosedMeansDown'
  BY <1>4 DEF HTypeOK, SendRequest, server, history
<1>5. ASSUME NEW u \in Calls, SendFails(u) PROVE OpeningInv' /\ ClosedMeansDown'
  BY <1>5 DEF HTypeOK, SendFails, ClearVoice, server
<1>6. CASE ServerJoins
  <2>1. session' \in Sessions
    BY <1>6 DEF ServerJoins
  <2>2. QED
    BY <1>6, <2>1 DEF ServerJoins, app, history
<1>7. CASE ServerLeaves
  BY <1>7 DEF ServerLeaves, app, history
<1>8. CASE StartPass
  BY <1>8 DEF StartPass, app, server, history
<1>9. CASE OtherEvent
  BY <1>9 DEF OtherEvent, EndPass, app, server, history
<1>10. CASE Receive
  BY <1>10 DEF HTypeOK, Receive, app, server, history
<1>11. CASE Insert
  <2>1. status' = Nil => status = Nil
    <3>1. CASE status = Nil
      BY <3>1
    <3>2. CASE status # Nil
      <4>1. status \in Halves /\ update \in Updates
        BY <1>11, <3>2 DEF HTypeOK, Insert
      <4>2. \A s \in Sessions : [status EXCEPT !.session = s] \in Halves
        BY <4>1 DEF Halves
      <4>3. \A e \in Channels : [status EXCEPT !.endpoint = e] \in Halves
        BY <4>1 DEF Halves
      <4>4. CASE update.type = "state"
        <5>1. update.session \in Sessions
          BY <4>1, <4>4 DEF Updates
        <5>2. status' \in Halves
          BY <1>11, <4>1, <4>2, <4>4, <5>1 DEF Insert, InsertSession
        <5>3. QED
          BY <5>2
      <4>5. CASE update.type # "state"
        <5>1. update.endpoint \in Channels
          BY <4>1, <4>5 DEF Updates
        <5>2. status' \in Halves
          BY <1>11, <4>1, <4>3, <4>5, <5>1, <3>2 DEF Insert, InsertEndpoint
        <5>3. QED
          BY <5>2
      <4>6. QED
        BY <4>4, <4>5
    <3>3. QED
      BY <3>1, <3>2
  <2>2. QED
    BY <1>11, <2>1 DEF Insert, app, server, history
<1>12. CASE TryConnect
  BY <1>12 DEF TryConnect, app, server, history
<1>13. CASE NotYet
  BY <1>13 DEF NotYet, EndPass, app, server, history
<1>14. CASE Opened
  BY <1>14 DEF Opened, EndPass, app, server, history
<1>15. CASE OpenFails
  BY <1>15 DEF OpenFails, EndPass, app, server
<1>16. CASE VoiceCloses
  BY <1>16 DEF VoiceCloses, ClearVoice, EndPass, app, server
<1>17. QED
  BY <1>1, <1>2, <1>3, <1>4, <1>5, <1>6, <1>7, <1>8, <1>9, <1>10, <1>11, <1>12, <1>13,
     <1>14, <1>15, <1>16 DEF HNext

(* From rest only a call of the app goes anywhere.                         *)
LEMMA FromSettled ==
    ASSUME HandshakeInv, Settled, [HNext]_hvars, ~raced', ~failed'
    PROVE  Settled' \/ Joining' \/ Leaving'
<1>1. /\ HTypeOK /\ OpeningInv /\ requests = <<>> /\ updates = <<>> /\ hpc \in {"idle", "waiting"}
      /\ \A u \in Calls : upc[u] \in {"new", "done"}
      /\ voice = status /\ status = IF place = Nil THEN Nil ELSE Full(place)
  BY DEF HandshakeInv, Settled, Quiet
<1>2. CASE UNCHANGED hvars
  <2>1. Settled'
    BY <1>1, <1>2 DEF hvars, app, server, history, Settled, Quiet, Full
  <2>2. QED
    BY <2>1
<1>3. ASSUME NEW u \in Calls, NEW c \in Channels, Initiate(u, c)
      PROVE  Joining'
  <2>1. /\ voice = Nil /\ status' = Blank(c) /\ upc' = [upc EXCEPT ![u] = "sending"]
        /\ target' = [target EXCEPT ![u] = c]
        /\ UNCHANGED <<voice, hpc, requests, updates, place, session>>
    BY <1>3 DEF Initiate, server, Blank
  <2>2. place = Nil
    <3>1. SUFFICES ASSUME place # Nil PROVE FALSE
      OBVIOUS
    <3>2. Full(place) \in Halves
      BY <1>1, <3>1 DEF HTypeOK, OpeningInv, Requests, Full, Halves
    <3>3. QED
      BY <1>1, <2>1, <3>1, <3>2, HandshakeFacts
  <2>3. Sending(u, c)'
    BY <1>1, <2>1 DEF HTypeOK, Sending
  <2>4. Asking(c)'
    BY <1>1, <2>1, <2>2, <2>3 DEF Asking, Resting, Blank
  <2>5. QED
    BY <2>1, <2>4 DEF Joining
<1>4. ASSUME NEW u \in Calls, Disconnect(u)
      PROVE  Leaving'
  <2>1. /\ status' = Nil /\ upc[u] = "new" /\ upc' = [upc EXCEPT ![u] = "sending"]
        /\ UNCHANGED <<target, hpc, requests, updates>>
    BY <1>4 DEF Disconnect, ClearVoice
  <2>2. Sending(u, Nil)'
    BY <1>1, <2>1 DEF HTypeOK, OpeningInv, Sending
  <2>3. QED
    BY <1>1, <2>1, <2>2 DEF Leaving, Resting
<1>5. CASE StartPass \/ OtherEvent
  <2>1. /\ hpc' \in {"idle", "waiting"}
        /\ UNCHANGED <<status, voice, upc, requests, updates, place, session>>
    BY <1>5 DEF StartPass, OtherEvent, EndPass, app, server
  <2>2. Settled'
    BY <1>1, <2>1 DEF Settled, Quiet, Full
  <2>3. QED
    BY <2>2
<1>6. ASSUME NEW u \in Calls, SendRequest(u) \/ SendFails(u) PROVE FALSE
  BY <1>1, <1>6 DEF SendRequest, SendFails
<1>7. CASE VoiceCloses
  BY <1>7 DEF VoiceCloses
<1>8. CASE ServerJoins \/ ServerLeaves \/ Receive \/ Insert \/ TryConnect \/ NotYet
          \/ Opened \/ OpenFails
  BY <1>1, <1>8 DEF ServerJoins, ServerLeaves, Receive, Insert, TryConnect, NotYet, Opened,
                    OpenFails
<1>9. QED
  BY <1>2, <1>3, <1>4, <1>5, <1>6, <1>7, <1>8 DEF HNext

(* connect(): its request, and the server's two answers to it.             *)
LEMMA FromAsking ==
    ASSUME HandshakeInv, NEW c \in Channels, Asking(c), voice = Nil,
           [HNext]_hvars, ~raced', ~failed'
    PROVE  Joining'
<1>1. /\ HTypeOK /\ OpeningInv /\ Resting /\ updates = <<>> /\ place = Nil /\ status = Blank(c)
      /\ \/ requests = <<>> /\ \E u \in Calls : Sending(u, c)
         \/ requests = <<c>> /\ NoneSending
  BY DEF HandshakeInv, Asking
<1>2. ~Quiet
  BY <1>1 DEF Quiet, Sending
<1>3. CASE UNCHANGED <<status, voice, upc, target, requests, updates, place>> /\ Resting'
  <2>1. Asking(c)'
    BY <1>1, <1>3 DEF Asking, Sending, NoneSending, Blank
  <2>2. QED
    BY <1>3, <2>1 DEF Joining
<1>4. CASE UNCHANGED hvars
  BY <1>1, <1>3, <1>4 DEF hvars, app, server, Resting
<1>5. CASE StartPass \/ OtherEvent
  BY <1>3, <1>5 DEF StartPass, OtherEvent, EndPass, app, server, Resting
<1>6. ASSUME NEW u \in Calls, SendRequest(u) PROVE Joining'
  <2>1. /\ upc[u] = "sending" /\ requests' = Append(requests, target[u])
        /\ upc' = [upc EXCEPT ![u] = "done"]
        /\ UNCHANGED <<status, voice, hpc, updates, place>>
    BY <1>6 DEF SendRequest, server
  <2>2. requests = <<>> /\ Sending(u, c)
    BY <1>1, <2>1 DEF Sending, NoneSending
  <2>3. requests' = <<c>> /\ NoneSending'
    BY <1>1, <2>1, <2>2 DEF HTypeOK, Sending, NoneSending
  <2>4. Asking(c)'
    BY <1>1, <2>1, <2>3 DEF Asking, Resting, Blank
  <2>5. QED
    BY <2>1, <2>4 DEF Joining
<1>7. CASE ServerJoins
  <2>1. PICK s \in {session, session + 1} \cap Sessions, t \in {"state", "server"} :
            /\ session' = s
            /\ updates' = updates \o
                (IF t = "state"
                 THEN <<StateUpdate(Head(requests), s), ServerUpdate(Head(requests))>>
                 ELSE <<ServerUpdate(Head(requests)), StateUpdate(Head(requests), s)>>)
    BY <1>7 DEF ServerJoins
  <2>2. /\ requests # <<>> /\ place' = Head(requests) /\ requests' = Tail(requests)
        /\ UNCHANGED <<status, voice, hpc, upc>>
    BY <1>7 DEF ServerJoins, app
  <2>3. requests = <<c>> /\ NoneSending
    BY <1>1, <2>2
  <2>4. Head(requests) = c /\ Tail(requests) = <<>>
    BY <2>3
  <2>5. updates' = IF t = "state" THEN <<StateUpdate(c, s), ServerUpdate(c)>>
                                  ELSE <<ServerUpdate(c), StateUpdate(c, s)>>
    <3> DEFINE x == StateUpdate(c, s)
               y == ServerUpdate(c)
    <3>1. updates' = <<>> \o (IF t = "state" THEN <<x, y>> ELSE <<y, x>>)
      BY <1>1, <2>1, <2>4
    <3> HIDE DEF x, y
    <3>2. updates' = IF t = "state" THEN <<x, y>> ELSE <<y, x>>
      BY <3>1
    <3>3. QED
      BY <3>2 DEF x, y
  <2>6. updates' = <<Answer(c, t)', Answer(c, Other(t))'>>
    BY <2>1, <2>5 DEF Answer, Other, StateUpdate
  <2>7. Answered(c, t)'
    BY <1>1, <2>2, <2>3, <2>4, <2>6 DEF Answered, NoneSending, Resting, Blank
  <2>8. QED
    BY <2>2, <2>7 DEF Joining
<1>8. CASE ServerLeaves
  BY <1>1, <1>8, HandshakeFacts DEF ServerLeaves
<1>9. ASSUME NEW u \in Calls, Disconnect(u) \/ \E d \in Channels : Initiate(u, d) PROVE FALSE
  BY <1>2, <1>9 DEF Disconnect, Initiate
<1>10. ASSUME NEW u \in Calls, SendFails(u) PROVE FALSE
  BY <1>10 DEF SendFails
<1>11. CASE VoiceCloses
  BY <1>11 DEF VoiceCloses
<1>12. CASE Receive \/ Insert \/ TryConnect \/ NotYet \/ Opened \/ OpenFails
  BY <1>1, <1>12 DEF Receive, Insert, TryConnect, NotYet, Opened, OpenFails, Resting
<1>13. QED
  BY <1>4, <1>5, <1>6, <1>7, <1>8, <1>9, <1>10, <1>11, <1>12 DEF HNext

(* disconnect(): its request, and the server's answer to it.               *)
LEMMA FromLeaving ==
    ASSUME HandshakeInv, Leaving, [HNext]_hvars, ~raced', ~failed'
    PROVE  Settled' \/ Leaving'
<1>1. HTypeOK /\ OpeningInv /\ status = Nil /\ voice = Nil
  BY DEF HandshakeInv, ClosedMeansDown, Leaving
<1>2. ~Quiet
  BY DEF Leaving, Quiet, Sending
<1>3. CASE UNCHANGED <<status, upc, target, requests, updates, place, session>>
              /\ ((Resting' /\ Resting) \/ hpc' = hpc)
  BY <1>3 DEF Leaving, Sending, NoneSending, Resting
<1>4. CASE UNCHANGED hvars
  BY <1>3, <1>4 DEF hvars, app, server
<1>5. CASE StartPass \/ OtherEvent
  BY <1>3, <1>5 DEF StartPass, OtherEvent, EndPass, app, server, Resting
<1>6. ASSUME NEW u \in Calls, SendRequest(u) PROVE Leaving'
  <2>1. /\ upc[u] = "sending" /\ requests' = Append(requests, target[u])
        /\ upc' = [upc EXCEPT ![u] = "done"]
        /\ UNCHANGED <<status, hpc, updates, place>>
    BY <1>6 DEF SendRequest, server
  <2>2. requests = <<>> /\ Sending(u, Nil) /\ Resting /\ updates = <<>>
    BY <2>1 DEF Leaving, Sending, NoneSending
  <2>3. requests' = <<Nil>> /\ NoneSending'
    BY <1>1, <2>1, <2>2 DEF HTypeOK, Sending, NoneSending
  <2>4. QED
    BY <1>1, <2>1, <2>2, <2>3 DEF Leaving, Resting
<1>7. CASE ServerLeaves
  <2>1. /\ requests # <<>> /\ place' = Nil /\ requests' = Tail(requests)
        /\ updates' = IF place = Nil THEN updates ELSE Append(updates, StateUpdate(Nil, session))
        /\ UNCHANGED <<status, voice, hpc, upc>>
    BY <1>7 DEF ServerLeaves, app
  <2>2. requests = <<Nil>> /\ Resting /\ updates = <<>> /\ NoneSending
    BY <2>1 DEF Leaving
  <2>3. requests' = <<>> /\ NoneSending' /\ Resting'
    BY <2>1, <2>2 DEF NoneSending, Resting
  <2>4. CASE place = Nil
    <3>1. Quiet'
      BY <1>1, <2>1, <2>2, <2>3, <2>4 DEF HTypeOK, NoneSending, Resting, Quiet
    <3>2. QED
      BY <1>1, <2>1, <3>1 DEF Settled
  <2>5. CASE place # Nil
    <3>1. session \in Sessions /\ updates' = <<StateUpdate(Nil, session)>>
      BY <1>1, <2>1, <2>2, <2>5 DEF OpeningInv
    <3>2. QED
      BY <1>1, <2>1, <2>3, <3>1 DEF Leaving, StateUpdate
  <2>6. QED
    BY <2>4, <2>5
<1>8. CASE ServerJoins
  BY <1>8, HandshakeFacts DEF ServerJoins, Leaving
<1>9. CASE Receive
  <2>1. /\ hpc' = "insert" /\ updates # <<>> /\ updates' = Tail(updates) /\ hpc = "waiting"
        /\ UNCHANGED <<status, upc, target, requests, place, session>>
    BY <1>9 DEF Receive, app, server
  <2>2. requests = <<>> /\ NoneSending /\ place = Nil /\ Tail(updates) = <<>>
    BY <2>1 DEF Leaving
  <2>3. QED
    BY <1>1, <2>1, <2>2 DEF Leaving, NoneSending
<1>10. CASE Insert
  <2>1. /\ hpc = "insert" /\ hpc' = "try" /\ status' = Nil
        /\ UNCHANGED <<upc, requests, updates, place>>
    BY <1>1, <1>10 DEF Insert, InsertSession, InsertEndpoint, app, server
  <2>2. QED
    BY <2>1 DEF Leaving, NoneSending, Resting
<1>11. CASE NotYet
  <2>1. hpc = "try" /\ hpc' = "idle" /\ UNCHANGED <<status, voice, upc, requests, updates, place>>
    BY <1>11 DEF NotYet, EndPass, app, server
  <2>2. requests = <<>> /\ updates = <<>> /\ NoneSending /\ place = Nil
    BY <2>1 DEF Leaving, Resting
  <2>3. Quiet'
    BY <1>1, <2>1, <2>2 DEF HTypeOK, Quiet, NoneSending
  <2>4. QED
    BY <1>1, <2>1, <2>2, <2>3 DEF Settled
<1>12. ASSUME NEW u \in Calls, Disconnect(u) \/ \E d \in Channels : Initiate(u, d) PROVE FALSE
  BY <1>2, <1>12 DEF Disconnect, Initiate
<1>13. ASSUME NEW u \in Calls, SendFails(u) PROVE FALSE
  BY <1>13 DEF SendFails
<1>14. CASE VoiceCloses
  BY <1>14 DEF VoiceCloses
<1>15. CASE TryConnect \/ Opened \/ OpenFails
  BY <1>1, <1>15 DEF TryConnect, Opened, OpenFails, Leaving, Resting, Ready
<1>16. QED
  BY <1>4, <1>5, <1>6, <1>7, <1>8, <1>9, <1>10, <1>11, <1>12, <1>13, <1>14, <1>15 DEF HNext

(* What is taken off a queue of one or two.                                *)
LEMMA HeadOfAnswers ==
    ASSUME NEW x, NEW y
    PROVE  /\ Head(<<x, y>>) = x /\ Tail(<<x, y>>) = <<y>>
           /\ Head(<<y>>) = y /\ Tail(<<y>>) = <<>>
OBVIOUS

(* The two updates, in either order, one at a time through the handlers;   *)
(* the second opens the voice gateway.                                     *)
LEMMA FromAnswered ==
    ASSUME HandshakeInv, NEW c \in Channels, NEW t \in {"state", "server"},
           Answered(c, t), voice = Nil, [HNext]_hvars, ~raced', ~failed'
    PROVE  Settled' \/ Joining'
<1>1. /\ HTypeOK /\ OpeningInv /\ requests = <<>> /\ NoneSending /\ place = c
      /\ session \in Sessions
  BY HandshakeFacts DEF HandshakeInv, OpeningInv, Answered
<1>2. ~Quiet
  BY DEF Answered, Quiet, Resting
<1>3. Blank(c) # Nil /\ Half(c, t) # Nil /\ Full(c) # Nil
  BY <1>1, HandshakeFacts DEF Halves, Blank, Half, Full
<1>4. ASSUME UNCHANGED <<status, voice, upc, requests, updates, place, session>>,
             \/ hpc' = hpc /\ update' = update
             \/ Resting /\ Resting'
      PROVE  Joining'
  <2>1. Answered(c, t)'
    BY <1>4 DEF Answered, NoneSending, Resting, Blank, Half, Full, Answer, StateUpdate
  <2>2. QED
    BY <1>4, <2>1 DEF Joining
<1>5. CASE UNCHANGED hvars
  BY <1>4, <1>5 DEF hvars, app, server
<1>6. CASE StartPass \/ OtherEvent
  BY <1>4, <1>6 DEF StartPass, OtherEvent, EndPass, app, server, Resting
<1>7. CASE Receive
  <2>1. /\ hpc = "waiting" /\ updates # <<>> /\ hpc' = "insert"
        /\ update' = Head(updates) /\ updates' = Tail(updates)
        /\ UNCHANGED <<status, voice, upc, requests, place, session>>
    BY <1>7 DEF Receive, app, server
  <2>2. \/ updates = <<Answer(c, t), Answer(c, Other(t))>> /\ status = Blank(c)
        \/ updates = <<Answer(c, Other(t))>> /\ status = Half(c, t)
    BY <2>1 DEF Answered
  <2>3. \/ /\ updates' = <<Answer(c, Other(t))>> /\ update' = Answer(c, t) /\ status = Blank(c)
        \/ /\ updates' = <<>> /\ update' = Answer(c, Other(t)) /\ status = Half(c, t)
    <3> DEFINE x == Answer(c, t)
               y == Answer(c, Other(t))
    <3>1. \/ updates = <<x, y>> /\ status = Blank(c)
          \/ updates = <<y>> /\ status = Half(c, t)
      BY <2>2
    <3> HIDE DEF x, y
    <3>2. CASE updates = <<x, y>> /\ status = Blank(c)
      BY <2>1, <3>2, HeadOfAnswers DEF x, y
    <3>3. CASE updates = <<y>> /\ status = Half(c, t)
      BY <2>1, <3>3, HeadOfAnswers DEF x, y
    <3>4. QED
      BY <3>1, <3>2, <3>3
  <2>4. Answered(c, t)'
    BY <1>1, <2>1, <2>3 DEF Answered, NoneSending, Blank, Half, Answer, StateUpdate
  <2>5. QED
    BY <2>1, <2>4 DEF Joining
<1>8. CASE Insert
  <2>1. /\ hpc = "insert" /\ hpc' = "try"
        /\ status' = IF update.type = "state" THEN InsertSession(status, update.session)
                                              ELSE InsertEndpoint(status, update.endpoint)
        /\ UNCHANGED <<voice, update, upc, requests, updates, place, session>>
    BY <1>8 DEF Insert, app, server
  <2>2. CASE updates # <<>>
    <3>1. updates = <<Answer(c, Other(t))>> /\ update = Answer(c, t) /\ status = Blank(c)
      BY <2>1, <2>2 DEF Answered, Resting
    <3>2. status' = Half(c, t)
      BY <1>3, <2>1, <3>1
      DEF InsertSession, InsertEndpoint, Answer, StateUpdate, ServerUpdate, Blank, Half
    <3>3. Answered(c, t)'
      BY <1>1, <2>1, <3>1, <3>2 DEF Answered, NoneSending, Half, Answer, StateUpdate
    <3>4. QED
      BY <2>1, <3>3 DEF Joining
  <2>3. CASE updates = <<>>
    <3>1. update = Answer(c, Other(t)) /\ status = Half(c, t)
      BY <2>1, <2>3 DEF Answered, Resting
    <3>2. c # Nil
      BY HandshakeFacts
    <3>3. status' = Full(c)
      BY <1>3, <2>1, <3>1, <3>2
      DEF InsertSession, InsertEndpoint, Answer, Other, StateUpdate, ServerUpdate, Half, Full
    <3>4. Answered(c, t)'
      BY <1>1, <2>1, <2>3, <3>3 DEF Answered, NoneSending, Full
    <3>5. QED
      BY <2>1, <3>4 DEF Joining
  <2>4. QED
    BY <2>2, <2>3
<1>9. CASE TryConnect
  <2>1. /\ hpc = "try" /\ hpc' = "opening" /\ Ready
        /\ UNCHANGED <<status, voice, upc, requests, updates, place, session>>
    BY <1>9 DEF TryConnect, app, server
  <2>2. updates = <<>> /\ status = Full(c)
    BY <2>1 DEF Answered, Resting, Ready, Half
  <2>3. Answered(c, t)'
    BY <1>1, <2>1, <2>2 DEF Answered, NoneSending, Full
  <2>4. QED
    BY <2>1, <2>3 DEF Joining
<1>10. CASE NotYet
  <2>1. /\ hpc = "try" /\ hpc' = "idle" /\ ~Ready
        /\ UNCHANGED <<status, voice, upc, requests, updates, place, session>>
    BY <1>10 DEF NotYet, EndPass, app, server
  <2>2. c # Nil /\ session # Nil
    BY <1>1, HandshakeFacts
  <2>3. updates = <<Answer(c, Other(t))>> /\ status = Half(c, t)
    BY <1>3, <2>1, <2>2 DEF Answered, Resting, Ready, Full
  <2>4. Answered(c, t)'
    BY <1>1, <2>1, <2>3 DEF Answered, NoneSending, Resting, Half, Answer, StateUpdate
  <2>5. QED
    BY <2>1, <2>4 DEF Joining
<1>11. CASE Opened
  <2>1. /\ hpc = "opening" /\ hpc' = "idle" /\ voice' = update
        /\ UNCHANGED <<status, upc, requests, updates, place, session>>
    BY <1>11 DEF Opened, EndPass, app, server
  <2>2. updates = <<>> /\ status = Full(c) /\ update = status
    BY <1>1, <2>1 DEF Answered, Resting, OpeningInv
  <2>3. Quiet'
    BY <1>1, <2>1, <2>2 DEF HTypeOK, Quiet, NoneSending
  <2>4. place # Nil
    BY <1>1, HandshakeFacts
  <2>5. QED
    BY <1>1, <2>1, <2>2, <2>3, <2>4 DEF Settled, Full
<1>12. ASSUME NEW u \in Calls, Disconnect(u) \/ \E d \in Channels : Initiate(u, d) PROVE FALSE
  BY <1>2, <1>12 DEF Disconnect, Initiate
<1>13. ASSUME NEW u \in Calls, SendRequest(u) \/ SendFails(u) PROVE FALSE
  BY <1>1, <1>13 DEF SendRequest, SendFails, NoneSending
<1>14. CASE ServerJoins \/ ServerLeaves \/ OpenFails \/ VoiceCloses
  BY <1>1, <1>14 DEF ServerJoins, ServerLeaves, OpenFails, VoiceCloses
<1>15. QED
  BY <1>5, <1>6, <1>7, <1>8, <1>9, <1>10, <1>11, <1>12, <1>13, <1>14 DEF HNext

(* Once raced or failed, always so.                                        *)
LEMMA HistoryGrows ==
    ASSUME HTypeOK, [HNext]_hvars, ~raced', ~failed'
    PROVE  ~raced /\ ~failed
BY DEF HTypeOK, HNext, hvars, app, server, history, Initiate, Disconnect, SendRequest, SendFails,
       ServerJoins, ServerLeaves, StartPass, OtherEvent, Receive, Insert, TryConnect, NotYet,
       Opened, OpenFails, VoiceCloses

(* Every step of a call, of the server and of a pass keeps it.             *)
LEMMA HandshakeNext ==
    ASSUME HandshakeInv, [HNext]_hvars
    PROVE  HandshakeInv'
<1>1. HTypeOK' /\ OpeningInv' /\ ClosedMeansDown'
  BY HandshakeTypes, HandshakeOpening DEF HandshakeInv
<1>2. LoneInv'
  <2>1. SUFFICES ASSUME ~raced', ~failed' PROVE Settled' \/ Joining' \/ Leaving'
    BY DEF LoneInv
  <2>2. Settled \/ Joining \/ Leaving
    BY <2>1, HistoryGrows DEF HandshakeInv, LoneInv
  <2>3. CASE Settled
    BY <2>1, <2>3, FromSettled
  <2>4. CASE Leaving
    BY <2>1, <2>4, FromLeaving
  <2>5. CASE Joining
    <3>1. PICK c \in Channels : /\ voice = Nil
                                /\ Asking(c) \/ \E t \in {"state", "server"} : Answered(c, t)
      BY <2>5 DEF Joining
    <3>2. CASE Asking(c)
      BY <2>1, <3>1, <3>2, FromAsking
    <3>3. ASSUME NEW t \in {"state", "server"}, Answered(c, t)
          PROVE  Settled' \/ Joining'
      BY <2>1, <3>1, <3>3, FromAnswered
    <3>4. QED
      BY <3>1, <3>2, <3>3
  <2>6. QED
    BY <2>2, <2>3, <2>4, <2>5
<1>3. QED
  BY <1>1, <1>2 DEF HandshakeInv

(* The invariant holds of every behaviour of the handshake.                *)
THEOREM VoiceHandshakeInvariant == HSpec => []HandshakeInv
<1>1. HInit => HandshakeInv
  BY HandshakeInit
<1>2. HandshakeInv /\ [HNext]_hvars => HandshakeInv'
  BY HandshakeNext
<1>3. QED
  BY <1>1, <1>2, PTL DEF HSpec

(* Every variable keeps its type.                                          *)
THEOREM VoiceHandshakeTypeOK == HSpec => []HTypeOK
<1>1. HandshakeInv => HTypeOK
  BY DEF HandshakeInv
<1>2. QED
  BY <1>1, VoiceHandshakeInvariant, PTL

(* However calls, updates and connects interleave, there is no voice       *)
(* gateway once the status is closed (voice.rs:229-264).                   *)
THEOREM VoiceHandshakeClosedMeansDown == HSpec => []ClosedMeansDown
<1>1. HandshakeInv => ClosedMeansDown
  BY DEF HandshakeInv
<1>2. QED
  BY <1>1, VoiceHandshakeInvariant, PTL

(* At rest, neither a join nor a leave is half done.                       *)
LEMMA QuietIsSettled ==
    ASSUME HandshakeInv
    PROVE  LoneCallOpens
<1>1. SUFFICES ASSUME Quiet, ~raced, ~failed
               PROVE  voice = IF place = Nil THEN Nil ELSE Full(place)
  BY DEF LoneCallOpens, Full
<1>2. ~Joining
  BY <1>1 DEF Quiet, Joining, Asking, Answered, Sending, Resting
<1>3. ~Leaving
  BY <1>1 DEF Quiet, Leaving, Sending
<1>4. QED
  BY <1>1, <1>2, <1>3 DEF HandshakeInv, LoneInv, Settled

(* A call made by itself gets the gateway it asked for, with the endpoint  *)
(* and the session of one join, whichever update comes first               *)
(* (events.rs:149-222, voice.rs:229-257).                                  *)
THEOREM VoiceHandshakeLoneCallOpens == HSpec => []LoneCallOpens
<1>1. QED
  BY QuietIsSettled, VoiceHandshakeInvariant, PTL
=============================================================================
