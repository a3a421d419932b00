-------------------------- MODULE AudioCallProofs --------------------------
(***************************************************************************)
(* Proofs about AudioCall, for any streams, speakers, calls, keys, frames  *)
(* and space of nonces.                                                    *)
(***************************************************************************)
EXTENDS AudioCall, TLAPS

Session == [pc : PC, ident : Nat, timer : BOOLEAN]
Manager == [holder : Streams \cup {Nobody}, mic : BOOLEAN,
            recv : {"none", "asked", "sent", "dropped"}, retries : Nat]

(* The part of TypeOK the arguments below need.                            *)
MediaOK ==
    /\ opened \in Nat /\ opened <= MaxCalls /\ linked \subseteq Calls
    /\ call \in Nat /\ call <= opened
    /\ key \in [Calls -> Nat] /\ keys \in Nat
    /\ nonce \in [Calls -> 0 .. NonceSpace - 1]
    /\ frames \in Nat /\ used \subseteq Nat \X Nat
    /\ manager \in Manager
    /\ stream \in [Streams -> Session]
    /\ late \in [Streams -> Nat]

(* The program counters of a session, and those after it is attached.      *)
InCall == {"pull", "wait", "speak", "frame", "stop"}
Held == InCall \cup {"prepare"}

(* Whoever prepares or runs a session holds the audio manager.             *)
HolderInv == \A s \in Streams : stream[s].pc \in Held => manager.holder = s

(* A frame is about to be sent only while there are nonces left.           *)
SpeakInv ==
    /\ \A s \in Streams : At(s, "speak") => frames < MaxFrames
    /\ \A s \in Streams : stream[s].pc \in InCall => stream[s].ident \in Calls

(* Keys are handed out once.                                               *)
KeyInv ==
    /\ \A c \in Calls : key[c] <= keys
    /\ \A c, d \in Calls : key[c] = key[d] /\ key[c] # 0 => c = d

(* A nonce used under a key that is still in use lies behind the counter,  *)
(* and a counter moves only with a frame.                                  *)
UsedInv ==
    /\ ~reused
    /\ \A c \in Calls : nonce[c] <= frames
    /\ \A p \in used : p[1] # 0 /\ p[1] <= keys
    /\ \A p \in used, c \in Calls :
          p[1] = key[c] => p[2] < nonce[c] \/ frames = MaxFrames

(* A stream that has sent a late frame only has its session left to leave: *)
(* calls are numbered, so its call does not come back.                     *)
LateInv ==
    \A s \in Streams :
        /\ stream[s].ident <= opened
        /\ \/ late[s] = 0
           \/ /\ late[s] = 1
              /\ stream[s].pc \in {"pull", "wait", "ended"}
              /\ stream[s].pc # "ended" => stream[s].ident # call

IInv == MediaOK /\ HolderInv /\ SpeakInv /\ KeyInv /\ UsedInv /\ LateInv

-----------------------------------------------------------------------------
(* A step of one stream leaves the others where they are.                  *)
Moved(s, pc, ident) ==
    /\ stream' \in [Streams -> Session]
    /\ stream'[s].pc = pc /\ stream'[s].ident = ident
    /\ \A t \in Streams : t # s => stream'[t] = stream[t]

(* Becoming a session is a move to its pc and call.                        *)
LEMMA BecomesMoves ==
    ASSUME MediaOK, NEW s \in Streams, NEW r \in Session, Becomes(s, r)
    PROVE  Moved(s, r.pc, r.ident)
BY DEF MediaOK, Becomes, Moved

(* Goto moves the pc alone.                                                *)
LEMMA GotoMoves ==
    ASSUME MediaOK, NEW s \in Streams, NEW pc \in PC, Goto(s, pc)
    PROVE  Moved(s, pc, stream[s].ident)
<1> DEFINE r == [stream[s] EXCEPT !.pc = pc]
<1>1. stream[s] \in Session
      BY DEF MediaOK
<1>2. r \in Session /\ r.pc = pc /\ r.ident = stream[s].ident
      BY <1>1 DEF Session
<1>3. Becomes(s, r)
      BY DEF Goto
<1> QED
    BY <1>2, <1>3, BecomesMoves

(* Setting the stop-speaking timer on the way keeps the call.              *)
LEMMA SetTimerMoves ==
    ASSUME MediaOK, NEW s \in Streams, NEW pc \in PC, NEW b \in BOOLEAN,
           Becomes(s, [stream[s] EXCEPT !.pc = pc, !.timer = b])
    PROVE  Moved(s, pc, stream[s].ident)
<1> DEFINE r == [stream[s] EXCEPT !.pc = pc, !.timer = b]
<1>1. stream[s] \in Session
      BY DEF MediaOK
<1>2. r \in Session /\ r.pc = pc /\ r.ident = stream[s].ident
      BY <1>1 DEF Session
<1> QED
    BY <1>2, BecomesMoves

(* A fresh session is Idle with a pc and a call.                           *)
LEMMA IdleMoves ==
    ASSUME NEW pc \in PC, NEW ident \in Nat
    PROVE  LET r == [Idle EXCEPT !.pc = pc, !.ident = ident]
           IN  r \in Session /\ r.pc = pc /\ r.ident = ident
<1>1. Idle \in Session
      BY DEF Idle, Session, PC
<1> QED
    BY <1>1 DEF Session

(* Leaving a session gives up its call and the manager.                    *)
LEMMA LeaveMoves ==
    ASSUME MediaOK, NEW s \in Streams, NEW pc \in PC, Leave(s, pc)
    PROVE  Moved(s, pc, 0) /\ manager' \in Manager /\ manager'.holder = Nobody
<1>1. Idle \in Session /\ Idle.ident = 0
      BY DEF Idle, Session, PC
<1>2. /\ [Idle EXCEPT !.pc = pc] \in Session
      /\ [Idle EXCEPT !.pc = pc].pc = pc
      /\ [Idle EXCEPT !.pc = pc].ident = 0
      BY <1>1 DEF Session
<1>3. Released \in Manager /\ Released.holder = Nobody
      BY DEF MediaOK, Released, Manager
<1>4. Becomes(s, [Idle EXCEPT !.pc = pc])
      BY DEF Leave
<1>5. Moved(s, pc, 0)
      BY <1>2, <1>4, BecomesMoves
<1> QED
    BY <1>3, <1>5 DEF Leave

(* Attaching a session gives it the call that is there.                    *)
LEMMA AttachMoves ==
    ASSUME MediaOK, NEW s \in Streams, Becomes(s, [Idle EXCEPT !.pc = "pull", !.ident = call])
    PROVE  Moved(s, "pull", call)
<1> DEFINE r == [Idle EXCEPT !.pc = "pull", !.ident = call]
<1>1. "pull" \in PC /\ call \in Nat /\ Becomes(s, r)
      BY DEF PC, MediaOK
<1>2. r \in Session /\ r.pc = "pull" /\ r.ident = call
      BY <1>1, IdleMoves
<1> HIDE DEF r
<1> QED
    BY <1>1, <1>2, BecomesMoves

-----------------------------------------------------------------------------
(* The kinds of steps there are.  Elsewhere: the gateway, the app, and what*)
(* a stream does without moving.                                           *)
Quiet == UNCHANGED <<call, media, sent>>

Elsewhere ==
    /\ UNCHANGED <<stream, late, sent, key, keys>>
    /\ manager'.holder = manager.holder
    /\ opened' >= opened
    /\ call' = call \/ call' = 0 \/ call' > opened

Enters(s) ==
    \/ /\ At(s, "next") /\ Moved(s, "lock", stream[s].ident)
       /\ manager'.holder = manager.holder
    \/ /\ At(s, "lock") /\ Moved(s, "prepare", stream[s].ident)
       /\ manager.holder = Nobody /\ manager'.holder = s

Attaches(s) ==
    /\ At(s, "prepare") /\ Moved(s, "pull", call) /\ call \in Calls
    /\ manager' = manager

Leaves(s) ==
    \E pc \in {"next", "ended"}, ident \in {0, stream[s].ident} :
        /\ stream[s].pc \in Held /\ Moved(s, pc, ident)
        /\ pc = "next" => At(s, "prepare") \/ call = stream[s].ident
        /\ manager'.holder = Nobody

Works(s) ==
    \E pc \in InCall :
        /\ stream[s].pc \in InCall /\ Moved(s, pc, stream[s].ident)
        /\ pc = "speak" => frames < MaxFrames
        /\ pc \notin {"pull", "wait"} => call = stream[s].ident
        /\ manager' = manager

(* What every step is.                                                     *)
Step ==
    \/ Elsewhere
    \/ SessionDescription
    \/ \E s \in Streams :
          /\ UNCHANGED late /\ Quiet
          /\ Enters(s) \/ Attaches(s) \/ Leaves(s) \/ Works(s)
    \/ \E s \in Streams : TakeNonce(s)
    \/ \E s \in Streams : Sent(s)

(* Every step of the media is of one of these kinds.                       *)
LEMMA Kinds == MediaOK /\ [Next]_vars => Step
<1> SUFFICES ASSUME MediaOK, [Next]_vars PROVE Step
    OBVIOUS
<1> USE AudioCallAssumption DEF AudioCallAssumption
<1>0. manager \in Manager /\ opened \in Nat
      BY DEF MediaOK
<1>1. CASE UNCHANGED vars
      BY <1>0, <1>1 DEF vars, media, sent, Step, Elsewhere
<1>2. CASE Open \/ Close \/ Ready \/ \E u \in Speakers : Speaking(u)
  <2>1. UNCHANGED <<stream, late, sent, key, keys, manager>>
        BY <1>2 DEF Open, Close, Ready, Speaking, media, sent
  <2>2. opened' >= opened /\ (call' = call \/ call' = 0 \/ call' > opened)
        BY <1>0, <1>2 DEF Open, Close, Ready, Speaking, media
  <2> QED
      BY <2>1, <2>2 DEF Step, Elsewhere
<1>3. CASE Process
  <2>1. manager'.holder = manager.holder
        BY <1>0, <1>3 DEF Process, Manager
  <2>2. UNCHANGED <<stream, late, sent, key, keys, call, opened>>
        BY <1>3 DEF Process, media, sent
  <2> QED
      BY <1>0, <2>1, <2>2 DEF Step, Elsewhere
<1>4. CASE SessionDescription
      BY <1>4 DEF Step
<1>5. ASSUME NEW s \in Streams, Yield(s) \/ GotMic(s)
      PROVE  Step
  <2>1. manager'.holder = manager.holder
        BY <1>0, <1>5 DEF Yield, GotMic, Manager
  <2>2. UNCHANGED <<stream, late, sent, key, keys, call, opened>>
        BY <1>5 DEF Yield, GotMic, media, sent
  <2> QED
      BY <1>0, <2>1, <2>2 DEF Step, Elsewhere
<1>6. ASSUME NEW s \in Streams, Poll(s)
      PROVE  Step
  <2>1. Moved(s, "lock", stream[s].ident)
        BY <1>6, GotoMoves DEF Poll, PC
  <2> QED
      BY <1>6, <2>1 DEF Poll, Step, Quiet, Enters
<1>7. ASSUME NEW s \in Streams, Lock(s)
      PROVE  Step
  <2>1. Moved(s, "prepare", stream[s].ident)
        BY <1>7, GotoMoves DEF Lock, PC
  <2>2. manager.holder = Nobody /\ manager'.holder = s
        BY <1>0, <1>7 DEF Lock, Manager
  <2> QED
      BY <1>7, <2>1, <2>2 DEF Lock, Step, Quiet, Enters
<1>8. ASSUME NEW s \in Streams, RequestMic(s) \/ LostMic(s)
      PROVE  Step
  <2>1. At(s, "prepare") /\ Goto(s, "next") /\ UNCHANGED late /\ Quiet
        BY <1>8 DEF RequestMic, LostMic, Quiet
  <2>2. Moved(s, "next", stream[s].ident)
        BY <2>1, GotoMoves DEF PC
  <2>3. manager'.holder = Nobody
        BY <1>0, <1>8 DEF RequestMic, LostMic, Manager
  <2>4. Leaves(s)
        BY <2>1, <2>2, <2>3 DEF Leaves, At, Held
  <2> QED
      BY <2>1, <2>4 DEF Step
<1>9. ASSUME NEW s \in Streams, Attach(s)
      PROVE  Step
  <2>1. At(s, "prepare") /\ UNCHANGED late /\ Quiet
        BY <1>9 DEF Attach, Quiet
  <2>2. CASE call \in linked
    <3>1. Moved(s, "pull", call) /\ manager' = manager
          BY <1>9, <2>2, AttachMoves DEF Attach
    <3>2. Attaches(s)
          BY <2>1, <2>2, <3>1 DEF Attaches, MediaOK
    <3> QED
        BY <2>1, <3>2 DEF Step
  <2>3. CASE call \notin linked
    <3>1. Moved(s, "ended", stream[s].ident)
          BY <1>9, <2>3, GotoMoves DEF Attach, PC
    <3>2. manager'.holder = Nobody
          BY <1>0, <1>9, <2>3 DEF Attach, Released, Manager
    <3>3. Leaves(s)
          BY <2>1, <3>1, <3>2 DEF Leaves, At, Held
    <3> QED
        BY <2>1, <3>3 DEF Step
  <2> QED
      BY <2>2, <2>3
<1>10. ASSUME NEW s \in Streams,
              Pull(s) \/ \E pc \in {"speak", "stop"} : Work(s, pc)
       PROVE  Step
  <2>1. UNCHANGED late /\ Quiet /\ stream[s].pc \in {"pull", "wait"}
        BY <1>10 DEF Pull, Work, Quiet, At
  <2>2. CASE LoadLiveCall(s)
    <3>1. PICK pc \in {"wait", "speak", "stop"} :
              Goto(s, pc) /\ manager' = manager /\ (pc = "speak" => frames < MaxFrames)
          BY <1>10, <2>2 DEF Pull, Work, Due
    <3>2. Moved(s, pc, stream[s].ident)
          BY <3>1, GotoMoves DEF PC
    <3>3. Works(s)
          BY <2>1, <2>2, <3>1, <3>2 DEF Works, InCall, LoadLiveCall
    <3> QED
        BY <2>1, <3>3 DEF Step
  <2>3. CASE ~LoadLiveCall(s)
    <3>1. Leave(s, "ended")
          BY <1>10, <2>3 DEF Pull, Work
    <3>2. Moved(s, "ended", 0) /\ manager'.holder = Nobody
          BY <3>1, LeaveMoves DEF PC
    <3>3. Leaves(s)
          BY <2>1, <3>2 DEF Leaves, Held, InCall
    <3> QED
        BY <2>1, <3>3 DEF Step
  <2> QED
      BY <2>2, <2>3
<1>11. ASSUME NEW s \in Streams, Again(s)
       PROVE  Step
  <2>1. Moved(s, "pull", stream[s].ident)
        BY <1>11, GotoMoves DEF Again, PC
  <2>2. Works(s)
        BY <1>11, <2>1 DEF Again, Works, InCall, At
  <2> QED
      BY <1>11, <2>2 DEF Again, Step, Quiet
<1>12. ASSUME NEW s \in Streams, NEW u \in Speakers, Packet(s, u)
       PROVE  Step
  <2>1. UNCHANGED late /\ Quiet /\ At(s, "wait") /\ call = stream[s].ident
        BY <1>12 DEF Packet, Quiet
  <2>2. CASE channel[u] = "none"
    <3>1. Moved(s, "next", 0) /\ manager'.holder = Nobody
          BY <1>12, <2>2, LeaveMoves DEF Packet, PC
    <3>2. Leaves(s)
          BY <2>1, <3>1 DEF Leaves, Held, InCall, At
    <3> QED
        BY <2>1, <3>2 DEF Step
  <2>3. CASE channel[u] # "none"
    <3>1. Moved(s, "pull", stream[s].ident) /\ manager' = manager
          BY <1>12, <2>3, GotoMoves DEF Packet, PC
    <3>2. Works(s)
          BY <2>1, <3>1 DEF Works, InCall, At
    <3> QED
        BY <2>1, <3>2 DEF Step
  <2> QED
      BY <2>2, <2>3
<1>13. ASSUME NEW s \in Streams, StopSpeaking(s)
       PROVE  Step
  <2>1. Moved(s, "pull", stream[s].ident)
        BY <1>13, SetTimerMoves DEF StopSpeaking, PC
  <2>2. Works(s)
        BY <1>13, <2>1 DEF StopSpeaking, Works, InCall, At
  <2> QED
      BY <1>13, <2>2 DEF StopSpeaking, Step, Quiet
<1>14. ASSUME NEW s \in Streams, TakeNonce(s) \/ Sent(s)
       PROVE  Step
       BY <1>14 DEF Step
<1> QED
    BY <1>1, <1>2, <1>3, <1>4, <1>5, <1>6, <1>7, <1>8, <1>9, <1>10, <1>11, <1>12,
       <1>13, <1>14 DEF Next, StreamStep

(* What the three kinds that are actions do to the streams.                *)
LEMMA NonceMoves ==
    ASSUME MediaOK, NEW s \in Streams, TakeNonce(s)
    PROVE  /\ At(s, "speak") /\ UNCHANGED <<manager, late, call, opened, key, keys>>
           /\ \E pc \in {"pull", "frame"} : Moved(s, pc, stream[s].ident)
<1>1. At(s, "speak") /\ UNCHANGED <<manager, late, call, opened, key, keys>>
      BY DEF TakeNonce, media
<1>2. CASE key[stream[s].ident] = 0
  <2>1. Becomes(s, [stream[s] EXCEPT !.pc = "pull", !.timer = TRUE])
        BY <1>2 DEF TakeNonce
  <2>2. Moved(s, "pull", stream[s].ident)
        BY <2>1, SetTimerMoves DEF PC
  <2> QED
      BY <1>1, <2>2
<1>3. CASE key[stream[s].ident] # 0
  <2>1. Goto(s, "frame")
        BY <1>3 DEF TakeNonce
  <2>2. Moved(s, "frame", stream[s].ident)
        BY <2>1, GotoMoves DEF PC
  <2> QED
      BY <1>1, <2>2
<1> QED
    BY <1>1, <1>2, <1>3

(* A frame has been sent: back to pull, with the timer set.                *)
LEMMA SentMoves ==
    ASSUME MediaOK, NEW s \in Streams, Sent(s)
    PROVE  /\ At(s, "frame") /\ manager' = manager /\ Quiet
           /\ Moved(s, "pull", stream[s].ident)
BY SetTimerMoves DEF Sent, Quiet, PC

(* A session description starts one idle stream, or none.                  *)
LEMMA DescriptionMoves ==
    ASSUME MediaOK, SessionDescription
    PROVE  /\ UNCHANGED <<manager, late, call, opened, sent>>
           /\ \/ stream' = stream
              \/ \E s \in Streams : At(s, "off") /\ Moved(s, "next", stream[s].ident)
<1>1. UNCHANGED <<manager, late, call, opened, sent>>
      BY DEF SessionDescription
<1>2. CASE key[call] = 0
  <2>1. PICK s \in Streams : At(s, "off") /\ Goto(s, "next")
        BY <1>2 DEF SessionDescription
  <2> QED
      BY <1>1, <2>1, GotoMoves DEF PC
<1>3. CASE key[call] # 0
      BY <1>1, <1>3 DEF SessionDescription
<1> QED
    BY <1>2, <1>3

(* A counter that moves on wraps to zero behind the last nonce.            *)
LEMMA Wraps ==
    ASSUME NEW n \in 0 .. NonceSpace - 1
    PROVE  (n + 1) % NonceSpace = IF n + 1 = NonceSpace THEN 0 ELSE n + 1
BY AudioCallAssumption DEF AudioCallAssumption

-----------------------------------------------------------------------------
(* The variables of the media have their types at first,                   *)
LEMMA MediaInit == Init => MediaOK
BY AudioCallAssumption DEF AudioCallAssumption, Init, MediaOK, Session, Manager, Idle, PC, Calls

(* and every step keeps them.                                              *)
LEMMA MediaStep == MediaOK /\ SpeakInv /\ [Next]_vars => MediaOK'
<1> SUFFICES ASSUME MediaOK, SpeakInv, [Next]_vars PROVE MediaOK'
    OBVIOUS
<1> USE AudioCallAssumption DEF AudioCallAssumption
<1>1. stream' \in [Streams -> Session]
  <2>1. CASE Elsewhere
        BY <2>1 DEF Elsewhere, MediaOK
  <2>2. CASE SessionDescription
        BY <2>2, DescriptionMoves DEF Moved, MediaOK
  <2>3. ASSUME NEW s \in Streams, Enters(s) \/ Attaches(s) \/ Leaves(s) \/ Works(s)
        PROVE  stream' \in [Streams -> Session]
        BY <2>3 DEF Enters, Attaches, Leaves, Works, Moved
  <2>4. ASSUME NEW s \in Streams, TakeNonce(s) \/ Sent(s)
        PROVE  stream' \in [Streams -> Session]
        BY <2>4, NonceMoves, SentMoves DEF Moved
  <2> QED
      BY <2>1, <2>2, <2>3, <2>4, Kinds DEF Step
<1>2. manager' \in Manager
  <2> USE DEF MediaOK, Manager
  <2>1. ASSUME NEW s \in Streams, NEW pc \in PC, Leave(s, pc)
        PROVE  manager' \in Manager
        BY <2>1, LeaveMoves
  <2>2. ASSUME NEW s \in Streams,
               RequestMic(s) \/ GotMic(s) \/ LostMic(s) \/ Lock(s) \/ Attach(s)
        PROVE  manager' \in Manager
    <3>1. CASE RequestMic(s)
          BY <3>1 DEF RequestMic
    <3>2. CASE GotMic(s)
          BY <3>2 DEF GotMic
    <3>3. CASE LostMic(s)
      <4>1. manager' = [manager EXCEPT !.holder = Nobody, !.recv = "none",
                                       !.retries = manager.retries + 1]
            BY <3>3 DEF LostMic
      <4>2. manager.retries + 1 \in Nat
            OBVIOUS
      <4> QED
          BY <4>1, <4>2
    <3>4. CASE Lock(s)
          BY <3>4 DEF Lock
    <3>5. CASE Attach(s)
          BY <3>5 DEF Attach, Released
    <3> QED
        BY <2>2, <3>1, <3>2, <3>3, <3>4, <3>5
  <2>3. ASSUME NEW s \in Streams,
               \/ Pull(s)
               \/ \E u \in Speakers : Packet(s, u)
               \/ \E pc \in {"speak", "stop"} : Work(s, pc)
        PROVE  manager' \in Manager
        BY <2>1, <2>3 DEF Pull, Packet, Work, PC
  <2>4. ASSUME NEW s \in Streams, Yield(s) \/ Poll(s) \/ Again(s) \/ TakeNonce(s)
                                  \/ Sent(s) \/ StopSpeaking(s)
        PROVE  manager' \in Manager
        BY <2>4 DEF Yield, Poll, Again, TakeNonce, Sent, StopSpeaking
  <2>5. CASE Process
        BY <2>5 DEF Process
  <2>6. CASE Open \/ Close \/ Ready \/ SessionDescription \/ UNCHANGED vars
             \/ \E u \in Speakers : Speaking(u)
        BY <2>6 DEF Open, Close, Ready, SessionDescription, Speaking, vars
  <2> QED
      BY <2>2, <2>3, <2>4, <2>5, <2>6 DEF Next, StreamStep
<1>3. late' \in [Streams -> Nat]
  <2>1. CASE UNCHANGED late
        BY <2>1 DEF MediaOK
  <2>2. ASSUME NEW s \in Streams, Sent(s)
        PROVE  late' \in [Streams -> Nat]
        BY <2>2 DEF Sent, MediaOK
  <2> QED
      BY <2>1, <2>2, Kinds, DescriptionMoves, NonceMoves DEF Step, Elsewhere
<1>4. /\ opened' \in Nat /\ opened' <= MaxCalls /\ linked' \subseteq Calls
      /\ call' \in Nat /\ call' <= opened'
  <2>1. CASE UNCHANGED <<opened, linked, call>>
        BY <2>1 DEF MediaOK
  <2>2. CASE Open
        BY <2>2 DEF Open, MediaOK
  <2>3. CASE Close
        BY <2>3 DEF Close, MediaOK, media
  <2>4. CASE Ready
        BY <2>4 DEF Ready, MediaOK, Calls
  <2>5. ASSUME NEW s \in Streams, StreamStep(s)
        PROVE  UNCHANGED <<opened, linked, call>>
        BY <2>5 DEF StreamStep, Yield, Poll, Lock, RequestMic, GotMic, LostMic, Attach, Pull,
               TakeNonce, Sent, StopSpeaking, media
  <2>6. UNCHANGED <<opened, linked, call>> \/ Open \/ Close \/ Ready
        BY <2>5 DEF Next, SessionDescription, Speaking, Process, Again, Packet, Work,
               vars, media
  <2> QED
      BY <2>1, <2>2, <2>3, <2>4, <2>6
<1>5. key' \in [Calls -> Nat] /\ keys' \in Nat
  <2>1. CASE UNCHANGED <<key, keys>>
        BY <2>1 DEF MediaOK
  <2>2. CASE SessionDescription
        BY <2>2 DEF SessionDescription, MediaOK
  <2> QED
      BY <2>1, <2>2, Kinds, NonceMoves, SentMoves DEF Step, Elsewhere, Quiet, media
<1>6. nonce' \in [Calls -> 0 .. NonceSpace - 1] /\ frames' \in Nat /\ used' \subseteq Nat \X Nat
  <2>1. CASE UNCHANGED sent
        BY <2>1 DEF sent, MediaOK
  <2>2. ASSUME NEW s \in Streams, TakeNonce(s)
        PROVE  nonce' \in [Calls -> 0 .. NonceSpace - 1] /\ frames' \in Nat
               /\ used' \subseteq Nat \X Nat
    <3> DEFINE c == stream[s].ident
    <3>1. frames' \in Nat
          BY <2>2 DEF TakeNonce, MediaOK
    <3>2. CASE key[c] = 0
          BY <2>2, <3>1, <3>2 DEF TakeNonce, MediaOK
    <3>3. CASE key[c] # 0
      <4>0. c \in Calls
            BY <2>2 DEF TakeNonce, SpeakInv, At, InCall
      <4>1. nonce[c] \in 0 .. NonceSpace - 1 /\ key[c] \in Nat
            BY <4>0 DEF MediaOK
      <4>2. (nonce[c] + 1) % NonceSpace \in 0 .. NonceSpace - 1
            BY <4>1, Wraps
      <4>3. nonce' = [nonce EXCEPT ![c] = (nonce[c] + 1) % NonceSpace]
            /\ used' = used \cup {<<key[c], nonce[c]>>}
            BY <2>2, <3>3 DEF TakeNonce
      <4> QED
          BY <3>1, <4>0, <4>1, <4>2, <4>3 DEF MediaOK
    <3> QED
        BY <3>2, <3>3
  <2> QED
      BY <2>1, <2>2, Kinds, DescriptionMoves, SentMoves DEF Step, Elsewhere, Quiet
<1> QED
    BY <1>1, <1>2, <1>3, <1>4, <1>5, <1>6 DEF MediaOK

-----------------------------------------------------------------------------
(* The manager has one holder: only Lock takes it, when nobody has it, and *)
(* whoever leaves a session gives it back.                                 *)
LEMMA HolderInit == Init => HolderInv
BY DEF Init, HolderInv, Held, InCall, Idle

(* Every step keeps the manager with one holder.                           *)
LEMMA HolderStep == MediaOK /\ HolderInv /\ [Next]_vars => HolderInv'
<1> SUFFICES ASSUME MediaOK, HolderInv, [Next]_vars PROVE HolderInv'
    OBVIOUS
<1> USE DEF HolderInv, Held, InCall, Moved, At
<1>1. CASE Elsewhere
      BY <1>1 DEF Elsewhere
<1>2. CASE SessionDescription
      BY <1>2, DescriptionMoves
<1>3. ASSUME NEW s \in Streams, Enters(s)
      PROVE  HolderInv'
      BY <1>3, AudioCallAssumption DEF AudioCallAssumption, Enters
<1>4. ASSUME NEW s \in Streams, Attaches(s)
      PROVE  HolderInv'
      BY <1>4 DEF Attaches
<1>5. ASSUME NEW s \in Streams, Leaves(s)
      PROVE  HolderInv'
      BY <1>5, AudioCallAssumption DEF AudioCallAssumption, Leaves
<1>6. ASSUME NEW s \in Streams, Works(s)
      PROVE  HolderInv'
      BY <1>6 DEF Works
<1>7. ASSUME NEW s \in Streams, TakeNonce(s) \/ Sent(s)
      PROVE  HolderInv'
      BY <1>7, NonceMoves, SentMoves
<1> QED
    BY <1>1, <1>2, <1>3, <1>4, <1>5, <1>6, <1>7, Kinds DEF Step

-----------------------------------------------------------------------------
(* Only the holder gets to send a frame, so that the bound it has checked  *)
(* still holds when it takes the nonce.                                    *)
LEMMA SpeakInit == Init => SpeakInv
BY DEF Init, SpeakInv, InCall, Idle, At

(* Every step keeps the bound of the frame about to be sent.               *)
LEMMA SpeakStep == MediaOK /\ HolderInv /\ SpeakInv /\ [Next]_vars => SpeakInv'
<1> SUFFICES ASSUME MediaOK, HolderInv, SpeakInv, [Next]_vars PROVE SpeakInv'
    OBVIOUS
<1> USE DEF SpeakInv, InCall, Moved, At
<1>1. CASE Elsewhere
      BY <1>1 DEF Elsewhere, sent
<1>2. CASE SessionDescription
      BY <1>2, DescriptionMoves DEF sent
<1>3. ASSUME NEW s \in Streams, Quiet, Enters(s)
      PROVE  SpeakInv'
      BY <1>3 DEF Enters, Quiet, sent
<1>4. ASSUME NEW s \in Streams, Quiet, Attaches(s)
      PROVE  SpeakInv'
      BY <1>4 DEF Attaches, Quiet, sent
<1>5. ASSUME NEW s \in Streams, Quiet, Leaves(s)
      PROVE  SpeakInv'
      BY <1>5 DEF Leaves, Quiet, sent
<1>6. ASSUME NEW s \in Streams, Quiet, Works(s)
      PROVE  SpeakInv'
      BY <1>6 DEF Works, Quiet, sent
<1>7. ASSUME NEW s \in Streams, TakeNonce(s)
      PROVE  SpeakInv'
      BY <1>7, NonceMoves DEF HolderInv, Held
<1>8. ASSUME NEW s \in Streams, Sent(s)
      PROVE  SpeakInv'
      BY <1>8, SentMoves DEF Quiet, sent
<1> QED
    BY <1>1, <1>2, <1>3, <1>4, <1>5, <1>6, <1>7, <1>8, Kinds DEF Step

-----------------------------------------------------------------------------
(* A session description brings a key there has not been.                  *)
LEMMA KeyInit == Init => KeyInv
BY DEF Init, KeyInv

(* Every step keeps the keys apart.                                        *)
LEMMA KeyStep == MediaOK /\ KeyInv /\ [Next]_vars => KeyInv'
<1> SUFFICES ASSUME MediaOK, KeyInv, [Next]_vars PROVE KeyInv'
    OBVIOUS
<1>1. CASE SessionDescription
  <2>1. /\ keys' = keys + 1
        /\ key' = [key EXCEPT ![call] = keys + 1]
        BY <1>1 DEF SessionDescription
  <2>2. key \in [Calls -> Nat] /\ keys \in Nat
        BY DEF MediaOK
  <2> QED
      BY <2>1, <2>2 DEF KeyInv
<1>2. CASE UNCHANGED <<key, keys>>
      BY <1>2 DEF KeyInv
<1> QED
    BY <1>1, <1>2, Kinds, NonceMoves, SentMoves DEF Step, Elsewhere, Quiet, media

-----------------------------------------------------------------------------
(* A nonce is taken from a counter that has passed all those used under    *)
(* the key of its call, and no other call has that key.                    *)
LEMMA UsedInit == Init => UsedInv
BY DEF Init, UsedInv

(* Every step leaves the used nonces behind the counters.                  *)
LEMMA UsedStep == MediaOK /\ SpeakInv /\ KeyInv /\ UsedInv /\ [Next]_vars => UsedInv'
<1> SUFFICES ASSUME MediaOK, SpeakInv, KeyInv, UsedInv, [Next]_vars PROVE UsedInv'
    OBVIOUS
<1>0. /\ key \in [Calls -> Nat] /\ keys \in Nat /\ frames \in Nat
      /\ nonce \in [Calls -> 0 .. NonceSpace - 1] /\ used \subseteq Nat \X Nat
      BY DEF MediaOK
<1>1. CASE SessionDescription
  <2>1. /\ keys' = keys + 1 /\ key' = [key EXCEPT ![call] = keys + 1]
        /\ UNCHANGED sent
        BY <1>1 DEF SessionDescription
  <2>2. \A p \in used : p[1] \in Nat
        BY <1>0
  <2> QED
      BY <1>0, <2>1, <2>2 DEF UsedInv, KeyInv, sent
<1>2. CASE UNCHANGED <<key, keys, sent>>
      BY <1>2 DEF UsedInv, sent
<1>3. ASSUME NEW s \in Streams, TakeNonce(s)
      PROVE  UsedInv'
  <2> DEFINE c == stream[s].ident
             pair == <<key[c], nonce[c]>>
  <2>1. c \in Calls /\ frames < MaxFrames /\ frames' = frames + 1
        /\ UNCHANGED <<key, keys>>
        BY <1>3 DEF TakeNonce, SpeakInv, At, InCall, media
  <2>2. CASE key[c] = 0
    <3>1. UNCHANGED <<nonce, used, reused>>
          BY <1>3, <2>2 DEF TakeNonce
    <3> QED
        BY <1>0, <2>1, <3>1, AudioCallAssumption DEF AudioCallAssumption, UsedInv
  <2>3. CASE key[c] # 0
    <3>1. /\ nonce' = [nonce EXCEPT ![c] = (nonce[c] + 1) % NonceSpace]
          /\ reused' = (reused \/ pair \in used)
          /\ used' = used \cup {pair}
          BY <1>3, <2>3 DEF TakeNonce
    <3>2. nonce'[c] = nonce[c] + 1 \/ (nonce'[c] = 0 /\ frames' = MaxFrames)
      <4>1. nonce[c] \in 0 .. NonceSpace - 1 /\ nonce[c] <= frames
            BY <1>0, <2>1 DEF UsedInv
      <4>2. nonce'[c] = IF nonce[c] + 1 = NonceSpace THEN 0 ELSE nonce[c] + 1
            BY <1>0, <2>1, <3>1, <4>1, Wraps
      <4> QED
          BY <1>0, <2>1, <4>1, <4>2, AudioCallAssumption DEF AudioCallAssumption
    <3>3. pair \notin used
      <4> SUFFICES ASSUME pair \in used PROVE FALSE
          OBVIOUS
      <4>1. pair[1] = key[c] /\ pair[2] = nonce[c]
            OBVIOUS
      <4>2. nonce[c] < nonce[c] \/ frames = MaxFrames
            BY <2>1, <4>1 DEF UsedInv
      <4>3. nonce[c] \in Nat
            BY <1>0, <2>1
      <4> QED
          BY <1>0, <2>1, <4>2, <4>3, AudioCallAssumption DEF AudioCallAssumption
    <3>4. ~reused'
          BY <3>1, <3>3 DEF UsedInv
    <3>5. \A d \in Calls : nonce'[d] <= frames'
          BY <1>0, <2>1, <3>1, <3>2 DEF UsedInv
    <3>6. \A p \in used' : p[1] # 0 /\ p[1] <= keys'
          BY <1>0, <2>1, <2>3, <3>1 DEF UsedInv, KeyInv
    <3>7. ASSUME NEW p \in used', NEW d \in Calls, p[1] = key'[d]
          PROVE  p[2] < nonce'[d] \/ frames' = MaxFrames
      <4>1. CASE p = pair
        <5>1. d = c
              BY <2>1, <2>3, <3>7, <4>1 DEF KeyInv
        <5> QED
            BY <1>0, <2>1, <3>2, <4>1, <5>1
      <4>2. CASE p \in used
        <5>1. p[2] < nonce[d]
              BY <1>0, <2>1, <3>7, <4>2, AudioCallAssumption DEF AudioCallAssumption, UsedInv
        <5>2. p[2] \in Nat /\ nonce[d] \in Nat
              BY <1>0, <4>2
        <5>3. CASE d = c
              BY <3>2, <5>1, <5>2, <5>3
        <5>4. CASE d # c
              BY <1>0, <3>1, <5>1, <5>4
        <5> QED
            BY <5>3, <5>4
      <4> QED
          BY <3>1, <3>7, <4>1, <4>2
    <3> QED
        BY <3>4, <3>5, <3>6, <3>7 DEF UsedInv
  <2> QED
      BY <2>2, <2>3
<1> QED
    BY <1>1, <1>2, <1>3, Kinds, SentMoves DEF Step, Elsewhere, Quiet, media

-----------------------------------------------------------------------------
(* After a late frame the session is left at the next check of the call.   *)
LEMMA LateInit == Init => LateInv
BY DEF Init, LateInv, Idle

(* Every step leaves a stream with at most one late frame.                 *)
LEMMA LateStep == MediaOK /\ SpeakInv /\ LateInv /\ [Next]_vars => LateInv'
<1> SUFFICES ASSUME MediaOK, SpeakInv, LateInv, [Next]_vars PROVE LateInv'
    OBVIOUS
<1>0. /\ opened \in Nat /\ call \in Nat /\ call <= opened
      /\ stream \in [Streams -> Session] /\ late \in [Streams -> Nat]
      /\ \A s \in Streams : stream[s].ident \in Nat
      BY DEF MediaOK, Session
<1> USE DEF LateInv, Moved, At
<1>1. CASE Elsewhere
  <2>1. \A s \in Streams : stream[s].pc \in {"pull", "wait"} => stream[s].ident # 0
        BY DEF SpeakInv, InCall, Calls
  <2>2. opened' \in Nat /\ opened' >= opened /\ UNCHANGED <<stream, late>>
        BY <1>1, MediaStep DEF Elsewhere, MediaOK
  <2> QED
      BY <1>0, <1>1, <2>1, <2>2 DEF Elsewhere
<1>2. CASE SessionDescription
      BY <1>0, <1>2, DescriptionMoves
<1>3. ASSUME NEW s \in Streams, UNCHANGED late, Quiet, Enters(s)
      PROVE  LateInv'
      BY <1>0, <1>3 DEF Enters, Quiet, media
<1>4. ASSUME NEW s \in Streams, UNCHANGED late, Quiet, Attaches(s)
      PROVE  LateInv'
      BY <1>0, <1>4 DEF Attaches, Quiet, media
<1>5. ASSUME NEW s \in Streams, UNCHANGED late, Quiet, Leaves(s)
      PROVE  LateInv'
  <2>1. PICK pc \in {"next", "ended"}, ident \in {0, stream[s].ident} :
            /\ Moved(s, pc, ident)
            /\ pc = "next" => At(s, "prepare") \/ call = stream[s].ident
        BY <1>5 DEF Leaves
  <2>2. UNCHANGED <<late, call, opened>>
        BY <1>5 DEF Quiet, media
  <2>3. pc = "next" => late[s] = 0
    <3>1. late[s] = 0 \/ (stream[s].pc # "ended" => stream[s].ident # call)
          OBVIOUS
    <3>2. late[s] = 0 \/ stream[s].pc \in {"pull", "wait", "ended"}
          OBVIOUS
    <3>3. CASE At(s, "prepare")
          BY <3>2, <3>3
    <3>4. CASE call = stream[s].ident
          BY <3>1, <3>2, <3>4, <1>5 DEF Leaves, Held, InCall
    <3> QED
        BY <2>1, <3>3, <3>4
  <2>4. stream[s].ident <= opened
        OBVIOUS
  <2>5. stream'[s].pc = pc /\ stream'[s].ident = ident /\ ident <= opened
        BY <1>0, <2>1, <2>4
  <2> QED
      BY <1>0, <2>1, <2>2, <2>3, <2>5
<1>6. ASSUME NEW s \in Streams, UNCHANGED late, Quiet, Works(s)
      PROVE  LateInv'
      BY <1>0, <1>6 DEF Works, InCall, Quiet, media
<1>7. ASSUME NEW s \in Streams, TakeNonce(s)
      PROVE  LateInv'
      BY <1>0, <1>7, NonceMoves
<1>8. ASSUME NEW s \in Streams, Sent(s)
      PROVE  LateInv'
  <2>1. late[s] = 0
        BY <1>8, SentMoves
  <2>2. late' = [late EXCEPT ![s] = IF call = stream[s].ident THEN 0 ELSE late[s] + 1]
        BY <1>8 DEF Sent
  <2> QED
      BY <1>0, <1>8, <2>1, <2>2, SentMoves DEF Quiet, media
<1> QED
    BY <1>1, <1>2, <1>3, <1>4, <1>5, <1>6, <1>7, <1>8, Kinds DEF Step

-----------------------------------------------------------------------------
(* The invariant of the whole.                                             *)
LEMMA AudioCallInvariant == Spec => []IInv
<1>1. Init => IInv
      BY MediaInit, HolderInit, SpeakInit, KeyInit, UsedInit, LateInit DEF IInv
<1>2. IInv /\ [Next]_vars => IInv'
      BY MediaStep, HolderStep, SpeakStep, KeyStep, UsedStep, LateStep DEF IInv
<1> QED
    BY <1>1, <1>2, PTL DEF Spec

(* No pair of a key and a nonce is sent with twice, whichever streams come *)
(* and go and however often the server rotates the keys, as long as a call *)
(* sends no more frames than there are nonces (connection.rs:436-470).     *)
THEOREM AudioCallNonceFresh == Spec => []NonceFresh
<1>1. IInv => NonceFresh
      BY DEF IInv, UsedInv, NonceFresh
<1> QED
    BY <1>1, AudioCallInvariant, PTL

(* A session sends at most one frame after its call has ended              *)
(* (audio.rs: pull and process load the live call, then await).            *)
THEOREM AudioCallOneLateFrame == Spec => []OneLateFrame
<1>1. IInv => OneLateFrame
      BY DEF IInv, LateInv, OneLateFrame
<1> QED
    BY <1>1, AudioCallInvariant, PTL

-----------------------------------------------------------------------------
(* The rest of TypeOK: the bounds, and what the gateway and the app keep.  *)
RestOK ==
    /\ linked \subseteq 1 .. opened
    /\ keys <= MaxKeys /\ frames <= MaxFrames /\ drops \in 0 .. MaxDrops
    /\ manager.retries <= MaxRetries
    /\ \A p \in used : p[2] < NonceSpace
    /\ reused \in BOOLEAN /\ speaking \in BOOLEAN /\ named \subseteq Speakers
    /\ channel \in [Speakers -> Channel]
    /\ events \in Seq(Event) /\ inbox \in Seq(Event)

(* The events name a call and a speaker, or ask for the microphone.        *)
LEMMA EventsStep ==
    MediaOK /\ SpeakInv /\ events \in Seq(Event) /\ inbox \in Seq(Event) /\ [Next]_vars
        => events' \in Seq(Event) /\ inbox' \in Seq(Event)
<1> SUFFICES ASSUME MediaOK, SpeakInv, events \in Seq(Event), inbox \in Seq(Event),
                    [Next]_vars
             PROVE  events' \in Seq(Event) /\ inbox' \in Seq(Event)
    OBVIOUS
<1>1. CASE UNCHANGED <<events, inbox>>
      BY <1>1
<1>2. ASSUME NEW s \in Streams, Yield(s)
      PROVE  events' \in Seq(Event) /\ inbox' \in Seq(Event)
      BY <1>2 DEF Yield
<1>3. ASSUME NEW s \in Streams, RequestMic(s)
      PROVE  events' \in Seq(Event) /\ inbox' \in Seq(Event)
  <2>1. MicRequest \in Event
        BY DEF Event
  <2> QED
      BY <1>3, <2>1 DEF RequestMic
<1>4. ASSUME NEW s \in Streams, NEW u \in Speakers, Packet(s, u)
      PROVE  events' \in Seq(Event) /\ inbox' \in Seq(Event)
  <2>1. CASE channel[u] = "none"
    <3>1. call \in 1 .. MaxCalls
          BY <1>4 DEF Packet, SpeakInv, InCall, At, Calls
    <3>2. Source(u) \in Event
          BY <3>1 DEF Source, Event
    <3> QED
        BY <1>4, <2>1, <3>2 DEF Packet
  <2>2. CASE channel[u] # "none"
        BY <1>4, <2>2 DEF Packet
  <2> QED
      BY <2>1, <2>2
<1>5. CASE Process
      BY <1>5 DEF Process
<1> QED
    BY <1>1, <1>2, <1>3, <1>4, <1>5
    DEF Next, StreamStep, Open, Close, Ready, SessionDescription, Speaking, Poll, Lock,
        GotMic, LostMic, Attach, Pull, Again, Work, TakeNonce, Sent, StopSpeaking, vars

(* The channels answer to what the app and the packets do with them.       *)
LEMMA ChannelStep ==
    MediaOK /\ channel \in [Speakers -> Channel] /\ inbox \in Seq(Event) /\ [Next]_vars
        => channel' \in [Speakers -> Channel]
<1> SUFFICES ASSUME MediaOK, channel \in [Speakers -> Channel], inbox \in Seq(Event),
                    [Next]_vars
             PROVE  channel' \in [Speakers -> Channel]
    OBVIOUS
<1>1. CASE UNCHANGED channel
      BY <1>1
<1>2. CASE Open \/ Close
      BY <1>2 DEF Open, Close, NoChannels, Channel
<1>3. ASSUME NEW s \in Streams, NEW u \in Speakers, Packet(s, u)
      PROVE  channel' \in [Speakers -> Channel]
  <2>1. \A c \in Channel : Dispatch(c) \in Channel
        BY DEF Channel, Dispatch
  <2>2. channel' = [channel EXCEPT ![u] = Dispatch(channel[u])]
        BY <1>3 DEF Packet
  <2> QED
      BY <2>1, <2>2
<1>4. CASE Process
  <2>1. PICK answer \in {"sent", "dropped"} :
            channel' = channel \/ channel' = [channel EXCEPT ![Head(inbox).speaker] = answer]
        BY <1>4 DEF Process
  <2>2. answer \in Channel
        BY DEF Channel
  <2> QED
      BY <2>1, <2>2
<1> QED
    BY <1>1, <1>2, <1>3, <1>4
    DEF Next, StreamStep, Ready, SessionDescription, Speaking, Yield, Poll, Lock,
        RequestMic, GotMic, LostMic, Attach, Pull, Again, Work, TakeNonce, Sent,
        StopSpeaking, vars

(* The bounds hold: what counts checks its bound first, and a nonce is     *)
(* below NonceSpace before it is used.                                     *)
LEMMA BoundsStep ==
    MediaOK /\ SpeakInv /\ HolderInv /\ RestOK /\ [Next]_vars
        => /\ linked' \subseteq 1 .. opened'
           /\ keys' <= MaxKeys /\ frames' <= MaxFrames /\ drops' \in 0 .. MaxDrops
           /\ manager'.retries <= MaxRetries
<1> SUFFICES ASSUME MediaOK, SpeakInv, HolderInv, RestOK, [Next]_vars
             PROVE  /\ linked' \subseteq 1 .. opened'
                    /\ keys' <= MaxKeys /\ frames' <= MaxFrames /\ drops' \in 0 .. MaxDrops
                    /\ manager'.retries <= MaxRetries
    OBVIOUS
<1> USE AudioCallAssumption DEF AudioCallAssumption
<1>0. /\ manager \in Manager /\ opened \in Nat /\ call \in Nat /\ call <= opened
      /\ keys \in Nat /\ frames \in Nat
      BY DEF MediaOK
<1>1. linked' \subseteq 1 .. opened'
  <2>1. CASE UNCHANGED <<linked, opened>>
        BY <2>1 DEF RestOK
  <2>2. CASE Open
        BY <1>0, <2>2 DEF Open, RestOK
  <2>3. CASE Ready
        BY <1>0, <2>3 DEF Ready, RestOK
  <2> QED
      BY <2>1, <2>2, <2>3
      DEF Next, StreamStep, SessionDescription, Speaking, Close, Process, Yield, Poll, Lock,
          RequestMic, GotMic, LostMic, Attach, Pull, Again, Packet, Work, TakeNonce, Sent,
          StopSpeaking, vars, media
<1>2. keys' <= MaxKeys
  <2>1. CASE UNCHANGED keys
        BY <2>1 DEF RestOK
  <2>2. CASE SessionDescription
        BY <1>0, <2>2 DEF SessionDescription
  <2> QED
      BY <2>1, <2>2, Kinds, NonceMoves, SentMoves DEF Step, Elsewhere, Quiet, media
<1>3. frames' <= MaxFrames
  <2>1. CASE UNCHANGED frames
        BY <2>1 DEF RestOK
  <2>2. ASSUME NEW s \in Streams, TakeNonce(s)
        PROVE  frames' <= MaxFrames
        BY <1>0, <2>2 DEF TakeNonce, SpeakInv
  <2> QED
      BY <2>1, <2>2, Kinds, DescriptionMoves, SentMoves DEF Step, Elsewhere, Quiet, sent
<1>4. drops' \in 0 .. MaxDrops
  <2>1. CASE UNCHANGED drops
        BY <2>1 DEF RestOK
  <2>2. CASE Process
    <3>1. PICK answer \in {"sent", "dropped"} :
              /\ answer = "dropped" => drops < MaxDrops
              /\ drops' = drops + (IF answer = "dropped" THEN 1 ELSE 0)
          BY <2>2 DEF Process
    <3> QED
        BY <3>1 DEF RestOK
  <2> QED
      BY <2>1, <2>2
      DEF Next, StreamStep, Open, Close, Ready, SessionDescription, Speaking, Yield, Poll,
          Lock, RequestMic, GotMic, LostMic, Attach, Pull, Again, Packet, Work, TakeNonce,
          Sent, StopSpeaking, vars
<1>5. manager'.retries <= MaxRetries
  <2> USE <1>0 DEF Manager
  <2>0. manager.retries <= MaxRetries
        BY DEF RestOK
  <2>1. CASE UNCHANGED manager
        BY <2>0, <2>1
  <2>2. ASSUME NEW s \in Streams, RequestMic(s) \/ Lock(s)
        PROVE  manager'.retries <= MaxRetries
        BY <2>0, <2>2 DEF RequestMic, Lock
  <2>3. ASSUME NEW s \in Streams, GotMic(s)
        PROVE  manager'.retries <= MaxRetries
        BY <2>0, <2>3 DEF GotMic
  <2>4. ASSUME NEW s \in Streams, LostMic(s)
        PROVE  manager'.retries <= MaxRetries
        BY <2>0, <2>4 DEF LostMic, WantsMic
  <2>5. ASSUME manager' = Released
        PROVE  manager'.retries <= MaxRetries
        BY <2>0, <2>5 DEF Released
  <2>6. CASE Process
    <3>1. PICK answer \in {"sent", "dropped"} :
              manager' = manager \/ manager' = [manager EXCEPT !.recv = answer]
          BY <2>6 DEF Process
    <3> QED
        BY <2>0, <3>1
  <2> QED
      BY <2>1, <2>2, <2>3, <2>4, <2>5, <2>6
      DEF Next, StreamStep, Open, Close, Ready, SessionDescription, Speaking, Yield, Poll,
          Attach, Pull, Again, Packet, Work, Leave, TakeNonce, Sent, StopSpeaking, vars
<1> QED
    BY <1>1, <1>2, <1>3, <1>4, <1>5

(* What is said about the speakers, and the histories.                     *)
LEMMA SaidStep ==
    MediaOK /\ SpeakInv /\ RestOK /\ [Next]_vars
        => /\ \A p \in used' : p[2] < NonceSpace
           /\ reused' \in BOOLEAN /\ speaking' \in BOOLEAN /\ named' \subseteq Speakers
<1> SUFFICES ASSUME MediaOK, SpeakInv, RestOK, [Next]_vars
             PROVE  /\ \A p \in used' : p[2] < NonceSpace
                    /\ reused' \in BOOLEAN /\ speaking' \in BOOLEAN /\ named' \subseteq Speakers
    OBVIOUS
<1>1. (\A p \in used' : p[2] < NonceSpace) /\ reused' \in BOOLEAN
  <2>1. CASE UNCHANGED <<used, reused>>
        BY <2>1 DEF RestOK
  <2>2. ASSUME NEW s \in Streams, TakeNonce(s)
        PROVE  (\A p \in used' : p[2] < NonceSpace) /\ reused' \in BOOLEAN
    <3> DEFINE c == stream[s].ident
               pair == <<key[c], nonce[c]>>
    <3>1. c \in Calls
          BY <2>2 DEF TakeNonce, SpeakInv, At, InCall
    <3>2. nonce[c] < NonceSpace
          BY <3>1, AudioCallAssumption DEF MediaOK, AudioCallAssumption
    <3>3. CASE key[c] = 0
          BY <2>1, <2>2, <3>3 DEF TakeNonce
    <3>4. CASE key[c] # 0
      <4>1. used' = used \cup {pair} /\ reused' = (reused \/ pair \in used)
            BY <2>2, <3>4 DEF TakeNonce
      <4>2. reused' \in BOOLEAN
            BY <4>1
      <4>3. \A p \in used' : p[2] < NonceSpace
            BY <3>2, <4>1 DEF RestOK
      <4> QED
          BY <4>2, <4>3
    <3> QED
        BY <3>3, <3>4
  <2> QED
      BY <2>1, <2>2, Kinds, DescriptionMoves, SentMoves DEF Step, Elsewhere, Quiet, sent
<1>2. speaking' \in BOOLEAN
  <2>1. CASE UNCHANGED speaking
        BY <2>1 DEF RestOK
  <2>2. CASE Open \/ Close
        BY <2>2 DEF Open, Close
  <2>3. ASSUME NEW s \in Streams, NEW b \in BOOLEAN, Announce(s, b)
        PROVE  speaking' \in BOOLEAN
    <3>1. CASE call = stream[s].ident
          BY <2>3, <3>1 DEF Announce
    <3>2. CASE call # stream[s].ident
          BY <2>1, <2>3, <3>2 DEF Announce
    <3> QED
        BY <3>1, <3>2
  <2> QED
      BY <2>1, <2>2, <2>3
      DEF Next, StreamStep, Ready, SessionDescription, Speaking, Process, Yield, Poll, Lock,
          RequestMic, GotMic, LostMic, Attach, Pull, Again, Packet, Work, TakeNonce, Sent,
          StopSpeaking, vars
<1>3. named' \subseteq Speakers
      BY DEF RestOK, Next, StreamStep, Open, Close, Ready, SessionDescription, Speaking, Process,
             Yield, Poll, Lock, RequestMic, GotMic, LostMic, Attach, Pull, Again, Packet,
             Work, TakeNonce, Sent, StopSpeaking, vars
<1> QED
    BY <1>1, <1>2, <1>3

(* At first the rest is in order, and every step keeps it.                 *)
LEMMA RestInit == Init => RestOK
<1> SUFFICES ASSUME Init PROVE RestOK
    OBVIOUS
<1>1. NoChannels \in [Speakers -> Channel]
      BY DEF NoChannels, Channel
<1>2. reused \in BOOLEAN /\ speaking \in BOOLEAN
      BY DEF Init
<1>3. events \in Seq(Event) /\ inbox \in Seq(Event)
      BY DEF Init
<1> QED
    BY <1>1, <1>2, <1>3, AudioCallAssumption DEF AudioCallAssumption, Init, RestOK

(* Every step keeps the types and the bounds.                              *)
LEMMA RestStep == IInv /\ RestOK /\ [Next]_vars => RestOK'
<1> SUFFICES ASSUME IInv, RestOK, [Next]_vars PROVE RestOK'
    OBVIOUS
<1>1. MediaOK /\ SpeakInv /\ HolderInv
      BY DEF IInv
<1>2. events' \in Seq(Event) /\ inbox' \in Seq(Event)
      BY <1>1, EventsStep DEF RestOK
<1>3. channel' \in [Speakers -> Channel]
      BY <1>1, ChannelStep DEF RestOK
<1>4. /\ linked' \subseteq 1 .. opened'
      /\ keys' <= MaxKeys /\ frames' <= MaxFrames /\ drops' \in 0 .. MaxDrops
      /\ manager'.retries <= MaxRetries
      BY <1>1, BoundsStep
<1>5. /\ \A p \in used' : p[2] < NonceSpace
      /\ reused' \in BOOLEAN /\ speaking' \in BOOLEAN /\ named' \subseteq Speakers
      BY <1>1, SaidStep
<1> QED
    BY <1>2, <1>3, <1>4, <1>5 DEF RestOK

(* Every variable of the call keeps its type: a session's call is one that *)
(* has been opened, connections are those of opened gateways, a lost       *)
(* microphone is asked for at most MAX_MICROPHONE_RETRIES times            *)
(* (audio.rs:117-145), and every event names a call and a speaker.         *)
THEOREM AudioCallTypeOK == Spec => []TypeOK
<1>1. Init => IInv /\ RestOK
      BY MediaInit, HolderInit, SpeakInit, KeyInit, UsedInit, LateInit, RestInit DEF IInv
<1>2. IInv /\ RestOK /\ [Next]_vars => (IInv /\ RestOK)'
      BY MediaStep, HolderStep, SpeakStep, KeyStep, UsedStep, LateStep, RestStep DEF IInv
<1>3. IInv /\ RestOK => TypeOK
  <2> SUFFICES ASSUME IInv, RestOK PROVE TypeOK
      OBVIOUS
  <2> USE AudioCallAssumption DEF AudioCallAssumption
  <2>1. MediaOK /\ KeyInv /\ UsedInv /\ LateInv
        BY DEF IInv
  <2>2. call \in 0 .. MaxCalls /\ opened \in 0 .. MaxCalls
        BY <2>1 DEF MediaOK
  <2>3. key \in [Calls -> 0 .. MaxKeys] /\ keys \in 0 .. MaxKeys
    <3>1. key \in [Calls -> Nat] /\ keys \in Nat /\ keys <= MaxKeys
          BY <2>1 DEF MediaOK, RestOK
    <3>2. \A c \in Calls : key[c] <= keys
          BY <2>1 DEF KeyInv
    <3>3. \A c \in Calls : key[c] \in 0 .. MaxKeys
          BY <3>1, <3>2
    <3> QED
        BY <3>1, <3>3
  <2>4. manager \in [holder : Streams \cup {Nobody}, mic : BOOLEAN,
                     recv : {"none", "asked", "sent", "dropped"}, retries : 0 .. MaxRetries]
    <3>1. manager \in Manager /\ manager.retries <= MaxRetries
          BY <2>1 DEF MediaOK, RestOK
    <3>2. manager.retries \in 0 .. MaxRetries
          BY <3>1 DEF Manager
    <3> QED
        BY <3>1, <3>2 DEF Manager
  <2>5. stream \in [Streams -> [pc : PC, ident : 0 .. MaxCalls, timer : BOOLEAN]]
        BY <2>1 DEF MediaOK, Session, LateInv
  <2>6. used \subseteq (1 .. MaxKeys) \X (0 .. NonceSpace - 1)
    <3> SUFFICES ASSUME NEW p \in used
                 PROVE  p \in (1 .. MaxKeys) \X (0 .. NonceSpace - 1)
        OBVIOUS
    <3>1. p \in Nat \X Nat /\ keys \in Nat
          BY <2>1 DEF MediaOK
    <3>2. p[1] # 0 /\ p[1] <= keys /\ keys <= MaxKeys /\ p[2] < NonceSpace
          BY <2>1 DEF UsedInv, RestOK
    <3> QED
        BY <3>1, <3>2
  <2>7. nonce \in [Calls -> 0 .. NonceSpace - 1] /\ late \in [Streams -> Nat]
        /\ frames \in 0 .. MaxFrames
        BY <2>1 DEF MediaOK, RestOK
  <2> QED
      BY <2>2, <2>3, <2>4, <2>5, <2>6, <2>7 DEF TypeOK, RestOK
<1> QED
    BY <1>1, <1>2, <1>3, PTL DEF Spec
=============================================================================
