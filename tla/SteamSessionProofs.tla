------------------------- MODULE SteamSessionProofs -------------------------
(***************************************************************************)
(* Proofs about SteamSession.tla, for any queries, texts, sessions and     *)
(* bounds: one session at a time, texts that are nowhere twice, and group  *)
(* rooms that are found.                                                   *)
(***************************************************************************)
EXTENDS SteamSession, FiniteSetTheorems, TLAPS

ConnRec == [alive : BOOLEAN, direct : Seq(Texts), group : Seq(Texts), off : BOOLEAN,
            lock : Callers \cup {Nobody}, pending : Seq(Texts),
            friends : BOOLEAN, known : BOOLEAN, located : BOOLEAN]
CallRec == [pc : PC, kind : Kinds, sess : 0 .. MaxSessions, hand : Texts \cup {NoText},
            polls : 0 .. MaxPolls, idle : 0 .. MaxIdle]

(* The part of TypeOK that needs no more than itself.                      *)
ShapeOK ==
    /\ conn \in [Sessions -> ConnRec] /\ call \in [Callers -> CallRec]
    /\ made \in 0 .. MaxSessions /\ cached = made

(* The program counters of a caller that has a session.                    *)
InSession == {"ready", "polling", "taking", "processing", "handing", "asking", "answering"}

(* What is true of the record r of the caller c, with n sessions made and  *)
(* a room shown or not: it has a session that was made, a text where it    *)
(* says so, and calls to a room only once there is one.                    *)
CallFine(c, r, n, room) ==
    /\ r.pc \in InSession => r.sess \in 1 .. n
    /\ r.pc \in {"processing", "handing"} => r.hand \in Texts
    /\ c = Stream => r.kind \in {"none", "listen", "next"} /\ r.pc # "handing"
    /\ c # Stream => r.kind \notin {"listen", "next"}
    /\ r.kind = "room" => room

CallInv == \A c \in Callers : CallFine(c, call[c], made, shown # {})

-----------------------------------------------------------------------------
(* The records a caller may become.                                        *)
LEMMA NoCallWith ==
    ASSUME NEW pc \in PC, NEW kind \in Kinds
    PROVE  LET r == [NoCall EXCEPT !.pc = pc, !.kind = kind]
           IN  r \in CallRec /\ r.pc = pc /\ r.kind = kind /\ r.hand = NoText
<1>1. NoCall \in CallRec /\ NoCall.hand = NoText
      BY SteamSessionAssumption DEF SteamSessionAssumption, NoCall, CallRec, PC, Kinds
<1> QED
    BY <1>1 DEF CallRec

(* A call that is over has nothing left.                                   *)
LEMMA NoCallAt ==
    ASSUME NEW pc \in PC
    PROVE  LET r == [NoCall EXCEPT !.pc = pc]
           IN  r \in CallRec /\ r.pc = pc /\ r.kind = "none" /\ r.hand = NoText
<1>1. NoCall \in CallRec /\ NoCall.hand = NoText /\ NoCall.kind = "none"
      BY SteamSessionAssumption DEF SteamSessionAssumption, NoCall, CallRec, PC, Kinds
<1> QED
    BY <1>1 DEF CallRec

(* The record of a caller in a session, at another pc.                     *)
LEMMA CallAt ==
    ASSUME NEW q \in CallRec, NEW pc \in PC
    PROVE  LET r == [q EXCEPT !.pc = pc]
           IN  r \in CallRec /\ r.pc = pc /\ r.kind = q.kind /\ r.hand = q.hand /\ r.sess = q.sess
BY DEF CallRec

(* Only the caller that becomes r changes.                                 *)
Became(c, r) ==
    /\ call' \in [Callers -> CallRec] /\ call'[c] = r
    /\ \A d \in Callers : d # c => call'[d] = call[d]

(* Becomes, without its EXCEPT.                                            *)
LEMMA BecomesIs ==
    ASSUME ShapeOK, NEW c \in Callers, NEW r \in CallRec, Becomes(c, r)
    PROVE  Became(c, r)
BY DEF ShapeOK, Becomes, Became

-----------------------------------------------------------------------------
(* A turn of the caller c: it goes to one of pcs, keeps its kind or is     *)
(* next()'s, keeps the text in its hand or loses it.                       *)
Turn(c, pcs) ==
    /\ call[c].pc \notin {"off", "ended"}
    /\ call' \in [Callers -> CallRec]
    /\ \A d \in Callers : d # c => call'[d] = call[d]
    /\ call'[c].pc \in pcs
    /\ call'[c].pc \in InSession => call'[c].sess \in 1 .. made'
    /\ \/ call'[c].kind = "none" \/ call'[c].kind = call[c].kind
       \/ c = Stream /\ call'[c].kind = "next"
    /\ call'[c].hand \in {call[c].hand, NoText}
    /\ call'[c].pc = "handing" => call[c].pc = "processing" /\ c # Stream
                                  /\ call'[c].hand = call[c].hand

(* A turn leaves the calls in order.                                       *)
LEMMA TurnFine ==
    ASSUME ShapeOK, CallInv, NEW c \in Callers, NEW pcs \in SUBSET (PC \ {"processing"}),
           Turn(c, pcs), made' \in 0 .. MaxSessions, made' >= made, shown # {} => shown' # {}
    PROVE  CallInv'
<1> SUFFICES ASSUME NEW d \in Callers PROVE CallFine(d, call'[d], made', shown' # {})
    BY DEF CallInv
<1>0. CallFine(d, call[d], made, shown # {}) /\ CallFine(c, call[c], made, shown # {})
      /\ made \in Nat /\ made' \in Nat /\ made' >= made
      BY SteamSessionAssumption DEF SteamSessionAssumption, CallInv, ShapeOK
<1>1. CASE d # c
      BY <1>0, <1>1 DEF Turn, CallFine, ShapeOK, CallRec
<1>2. CASE d = c
      BY <1>0, <1>2 DEF Turn, CallFine
<1> QED
    BY <1>1, <1>2

(* End, Goto.                                                              *)
LEMMA EndTurn ==
    ASSUME ShapeOK, NEW c \in Callers, call[c].pc \notin {"off", "ended"}, End(c)
    PROVE  Turn(c, {"ended"}) /\ call'[c].hand = NoText
<1> DEFINE r == [NoCall EXCEPT !.pc = "ended"]
<1>1. r \in CallRec /\ r.pc = "ended" /\ r.kind = "none" /\ r.hand = NoText
      BY NoCallAt DEF PC
<1> HIDE DEF r
<1>2. Became(c, r)
      BY <1>1, BecomesIs DEF End, r
<1> QED
    BY <1>1, <1>2 DEF Became, Turn, InSession

(* Another pc, with or without a session.                                  *)
LEMMA GotoTurn ==
    ASSUME ShapeOK, CallInv, NEW c \in Callers, call[c].pc \notin {"off", "ended"},
           NEW pc \in PC, Goto(c, pc),
           pc \in InSession => call[c].pc \in InSession,
           pc = "handing" => call[c].pc = "processing" /\ c # Stream,
           made' = made
    PROVE  Turn(c, {pc}) /\ call'[c].hand = call[c].hand /\ call'[c].sess = call[c].sess
<1> DEFINE r == [call[c] EXCEPT !.pc = pc]
<1>1. call[c] \in CallRec
      BY DEF ShapeOK
<1>2. r \in CallRec /\ r.pc = pc /\ r.kind = call[c].kind /\ r.hand = call[c].hand
      /\ r.sess = call[c].sess
      BY <1>1, CallAt
<1> HIDE DEF r
<1>3. Became(c, r)
      BY <1>2, BecomesIs DEF Goto, r
<1>4. call[c].pc \in InSession => call[c].sess \in 1 .. made
      BY DEF CallInv, CallFine
<1> QED
    BY <1>2, <1>3, <1>4 DEF Became, Turn

(* A poll is over.                                                         *)
LEMMA PolledTurn ==
    ASSUME ShapeOK, CallInv, NEW c \in Callers, call[c].pc \in InSession,
           NEW useful \in BOOLEAN, Polled(c, useful), made' = made
    PROVE  Turn(c, {"top", "polling", "ended"}) /\ call'[c].hand = NoText
<1> USE SteamSessionAssumption DEF SteamSessionAssumption
<1> DEFINE q == call[c]
           polls == q.polls + 1
           idle == IF useful THEN 0 ELSE q.idle + 1
<1>0. q \in CallRec /\ q.sess \in 1 .. made /\ q.pc \notin {"off", "ended"}
      BY DEF ShapeOK, CallInv, CallFine, InSession
<1>1. CASE c = Stream
  <2> DEFINE r == [NoCall EXCEPT !.pc = "top", !.kind = "next"]
  <2>1. r \in CallRec /\ r.pc = "top" /\ r.kind = "next" /\ r.hand = NoText
        BY NoCallWith DEF PC, Kinds
  <2>2. Becomes(c, r)
        BY <1>1 DEF Polled
  <2> HIDE DEF r
  <2>3. Became(c, r)
        BY <2>1, <2>2, BecomesIs
  <2> QED
      BY <1>0, <1>1, <2>1, <2>3 DEF Became, Turn, InSession
<1>2. CASE c # Stream /\ Waits(c, q.sess, polls, idle)
  <2> DEFINE r == [q EXCEPT !.pc = "polling", !.hand = NoText, !.polls = polls, !.idle = idle]
  <2>1. polls \in 0 .. MaxPolls /\ idle \in 0 .. MaxIdle
        BY <1>0, <1>2 DEF Waits, CallRec
  <2> HIDE DEF polls, idle
  <2>2. r \in CallRec /\ r.pc = "polling" /\ r.hand = NoText /\ r.kind = q.kind
        /\ r.sess = q.sess
        BY <1>0, <2>1 DEF CallRec, PC
  <2>3. Becomes(c, r)
        BY <1>2 DEF Polled, polls, idle
  <2> HIDE DEF r
  <2>4. Became(c, r)
        BY <2>2, <2>3, BecomesIs
  <2> QED
      BY <1>0, <2>2, <2>4 DEF Became, Turn
<1>3. CASE c # Stream /\ ~Waits(c, q.sess, polls, idle)
  <2>1. End(c)
        BY <1>3 DEF Polled, End
  <2>2. Turn(c, {"ended"}) /\ call'[c].hand = NoText
        BY <1>0, <2>1, EndTurn
  <2> QED
      BY <2>2 DEF Turn
<1> QED
    BY <1>1, <1>2, <1>3

(* A caller gets a session that was made.                                  *)
LEMMA GotTurn ==
    ASSUME ShapeOK, CallInv, NEW c \in Callers, call[c].pc \in {"connect", "establish"},
           NEW s \in Sessions, s \in 1 .. made', Got(c, s)
    PROVE  Turn(c, {"top", "ready", "polling", "asking", "ended"})
           /\ (call'[c].pc \in InSession => call'[c].sess = s)
<1> DEFINE q == call[c]
<1>0. q \in CallRec /\ q.pc \notin {"off", "ended"}
      /\ (c = Stream => q.kind \in {"none", "listen", "next"})
      /\ (c # Stream => q.kind \notin {"listen", "next"})
      BY DEF ShapeOK, CallInv, CallFine
<1>1. CASE q.kind = "listen"
  <2> DEFINE r == [NoCall EXCEPT !.pc = "top", !.kind = "next"]
  <2>1. r \in CallRec /\ r.pc = "top" /\ r.kind = "next" /\ r.hand = NoText
        BY NoCallWith DEF PC, Kinds
  <2>2. Becomes(c, r)
        BY <1>1 DEF Got
  <2> HIDE DEF r
  <2>3. Became(c, r)
        BY <2>1, <2>2, BecomesIs
  <2> QED
      BY <1>0, <1>1, <2>1, <2>3 DEF Became, Turn, InSession
<1>2. ASSUME NEW pc \in {"ready", "polling", "asking"},
             Becomes(c, [q EXCEPT !.pc = pc, !.sess = s])
      PROVE  Turn(c, {"top", "ready", "polling", "asking", "ended"})
             /\ (call'[c].pc \in InSession => call'[c].sess = s)
  <2> DEFINE r == [q EXCEPT !.pc = pc, !.sess = s]
  <2>0. pc \in PC /\ s \in 0 .. MaxSessions /\ q \in CallRec
        BY <1>0, SteamSessionAssumption DEF SteamSessionAssumption, PC, Sessions
  <2> HIDE DEF q
  <2>1. r \in CallRec /\ r.pc = pc /\ r.kind = q.kind /\ r.hand = q.hand /\ r.sess = s
        BY <2>0 DEF CallRec
  <2> USE DEF q
  <2> HIDE DEF r
  <2>2. Became(c, r)
        BY <1>2, <2>1, BecomesIs DEF r
  <2> QED
      BY <1>0, <2>1, <2>2 DEF Became, Turn
<1>3. ASSUME Becomes(c, [NoCall EXCEPT !.pc = "ended"])
      PROVE  Turn(c, {"top", "ready", "polling", "asking", "ended"})
             /\ (call'[c].pc \in InSession => call'[c].sess = s)
  <2>1. Turn(c, {"ended"})
        BY <1>0, <1>3, EndTurn DEF End
  <2> QED
      BY <2>1 DEF Turn, InSession
<1>4. CASE q.kind = "next"
      BY <1>2, <1>4 DEF Got
<1>5. CASE q.kind = "contacts"
  <2>1. CASE Waits(c, s, 0, 0)
        BY <1>2, <1>5, <2>1 DEF Got
  <2>2. CASE ~Waits(c, s, 0, 0)
        BY <1>3, <1>5, <2>2 DEF Got
  <2> QED
      BY <2>1, <2>2
<1>6. CASE q.kind \notin {"listen", "next", "contacts"}
      BY <1>2, <1>6 DEF Got
<1> QED
    BY <1>1, <1>4, <1>5, <1>6

(* note_reconnect: the stream backs off, or has spent its budget.          *)
AttemptInv ==
    /\ attempts \in Nat
    /\ \/ attempts <= MaxAttempts
       \/ attempts = MaxAttempts + 1 /\ call[Stream].pc = "ended"

(* The stream backs off or ends; either is a turn within the budget.       *)
LEMMA CountTurn ==
    ASSUME ShapeOK, AttemptInv, call[Stream].pc \notin {"off", "ended"}, CountFailure
    PROVE  Turn(Stream, {"ended", "backoff"}) /\ AttemptInv'
<1> USE SteamSessionAssumption DEF SteamSessionAssumption
<1>0. Stream \in Callers /\ attempts \in Nat /\ attempts <= MaxAttempts /\ MaxAttempts \in Nat
      BY DEF Callers, AttemptInv
<1>1. PICK stable \in BOOLEAN : attempts' = IF stable THEN 1 ELSE attempts + 1
      BY DEF CountFailure
<1>2. attempts' \in Nat /\ attempts' <= MaxAttempts + 1
      BY <1>0, <1>1
<1>3. CASE attempts' > MaxAttempts
  <2>1. End(Stream)
        BY <1>3 DEF CountFailure
  <2>2. Turn(Stream, {"ended"})
        BY <1>0, <2>1, EndTurn
  <2> QED
      BY <1>0, <1>2, <1>3, <2>2 DEF Turn, AttemptInv
<1>4. CASE ~(attempts' > MaxAttempts)
  <2> DEFINE r == [NoCall EXCEPT !.pc = "backoff", !.kind = "next"]
  <2>1. r \in CallRec /\ r.pc = "backoff" /\ r.kind = "next" /\ r.hand = NoText
        BY NoCallWith DEF PC, Kinds
  <2>2. Becomes(Stream, r)
        BY <1>4 DEF CountFailure
  <2> HIDE DEF r
  <2>3. Became(Stream, r)
        BY <1>0, <2>1, <2>2, BecomesIs
  <2> QED
      BY <1>0, <1>2, <1>4, <2>1, <2>3 DEF Became, Turn, InSession, AttemptInv
<1> QED
    BY <1>3, <1>4

-----------------------------------------------------------------------------
(* A step tends the sessions: none comes to life, none forgets where the   *)
(* room is, and none learns of the group without learning that.            *)
Tends ==
    /\ conn' \in [Sessions -> ConnRec] /\ made' = made
    /\ \A s \in Sessions :
          /\ conn'[s].alive => conn[s].alive
          /\ conn[s].located => conn'[s].located
          /\ conn'[s].known => conn[s].known \/ conn'[s].located
KeepsTexts ==
    \A s \in Sessions :
        /\ conn'[s].direct = conn[s].direct /\ conn'[s].group = conn[s].group
        /\ conn'[s].pending = conn[s].pending

(* Only the session of the caller changes.                                 *)
LEMMA SetConnIs ==
    ASSUME ShapeOK, CallInv, NEW c \in Callers, call[c].pc \in InSession,
           NEW r \in ConnRec, SetConn(c, r)
    PROVE  /\ call[c].sess \in Sessions /\ Conn(c) \in ConnRec
           /\ conn' \in [Sessions -> ConnRec] /\ conn'[call[c].sess] = r
           /\ \A s \in Sessions : s # call[c].sess => conn'[s] = conn[s]
<1>1. call[c].sess \in Sessions
      BY SteamSessionAssumption
      DEF SteamSessionAssumption, CallInv, CallFine, ShapeOK, Sessions
<1> QED
    BY <1>1 DEF ShapeOK, SetConn, Conn

(* The session of a caller.                                                *)
LEMMA ConnIs ==
    ASSUME ShapeOK, CallInv, NEW c \in Callers, call[c].pc \in InSession
    PROVE  call[c].sess \in Sessions /\ call[c].sess \in 1 .. made /\ Conn(c) \in ConnRec
<1>1. call[c].sess \in Sessions
      BY SteamSessionAssumption
      DEF SteamSessionAssumption, CallInv, CallFine, ShapeOK, Sessions
<1> QED
    BY <1>1 DEF ShapeOK, Conn, CallInv, CallFine

(* What a poll does to its session besides the texts.                      *)
Tended(r, q) ==
    /\ q \in ConnRec /\ (q.alive => r.alive) /\ (r.located => q.located)
    /\ (q.known => r.known \/ q.located)
    /\ q.direct = r.direct /\ q.group = r.group /\ q.pending = r.pending

(* A session that is only tended keeps every text.                         *)
LEMMA TendedTends ==
    ASSUME ShapeOK, CallInv, NEW c \in Callers, call[c].pc \in InSession,
           NEW q, Tended(Conn(c), q), SetConn(c, q), made' = made
    PROVE  Tends /\ KeepsTexts
<1>1. q \in ConnRec
      BY DEF Tended
<1> QED
    BY <1>1, SetConnIs DEF Tends, KeepsTexts, Tended, Conn

(* The records that Lock and the ways to end a poll give the session.      *)
LEMMA LockedRecords ==
    ASSUME NEW r \in ConnRec, NEW c \in Callers, NEW b \in BOOLEAN
    PROVE  /\ Tended(r, [r EXCEPT !.lock = c])
           /\ Tended(r, [r EXCEPT !.lock = Nobody, !.friends = @ \/ b])
           /\ Tended(r, [r EXCEPT !.off = FALSE, !.lock = Nobody, !.alive = FALSE])
           /\ Tended(r, [r EXCEPT !.lock = Nobody, !.located = @ \/ b])
           /\ Tended(r, [r EXCEPT !.known = TRUE, !.located = TRUE])
           /\ Tended(r, [r EXCEPT !.off = TRUE])
<1>0. r.friends \in BOOLEAN /\ r.located \in BOOLEAN
      BY DEF ConnRec
<1>1. (r.friends \/ b) \in BOOLEAN /\ (r.located \/ b) \in BOOLEAN
      BY <1>0
<1>2. Tended(r, [r EXCEPT !.lock = c])
      BY DEF ConnRec, Tended
<1>3. Tended(r, [r EXCEPT !.lock = Nobody, !.friends = @ \/ b])
  <2> DEFINE f == r.friends \/ b
  <2>1. f \in BOOLEAN
        BY <1>1
  <2> HIDE DEF f
  <2>2. Tended(r, [r EXCEPT !.lock = Nobody, !.friends = f])
        BY <2>1 DEF ConnRec, Tended
  <2> QED
      BY <2>2 DEF f
<1>4. Tended(r, [r EXCEPT !.off = FALSE, !.lock = Nobody, !.alive = FALSE])
      BY DEF ConnRec, Tended
<1>5. Tended(r, [r EXCEPT !.lock = Nobody, !.located = @ \/ b])
  <2> DEFINE f == r.located \/ b
  <2>1. f \in BOOLEAN /\ (r.located => f)
        BY <1>1
  <2> HIDE DEF f
  <2>2. Tended(r, [r EXCEPT !.lock = Nobody, !.located = f])
        BY <2>1 DEF ConnRec, Tended
  <2> QED
      BY <2>2 DEF f
<1>6. Tended(r, [r EXCEPT !.known = TRUE, !.located = TRUE]) /\ Tended(r, [r EXCEPT !.off = TRUE])
      BY DEF ConnRec, Tended
<1> QED
    BY <1>2, <1>3, <1>4, <1>5, <1>6

-----------------------------------------------------------------------------
(* The kinds of steps.  A mild step is a caller's turn that does not       *)
(* concern the mutex; it leaves the texts, or moves one.                   *)
Mild(c) ==
    /\ Turn(c, PC \ {"establish", "processing"}) /\ call[c].pc # "establish"
    /\ UNCHANGED <<cached, connecting, secret>> /\ Tends /\ AttemptInv'

Plain == KeepsTexts /\ UNCHANGED <<delivered, dropped>>

(* A step that shows no room, asks about none and puts none in its answer. *)
Still(c) ==
    UNCHANGED <<listed, shown, misrouted>> /\ call'[c].pc \notin {"asking", "answering"}

Locates(c) == Houses(c) \/ HouseDetails(c) \/ HouseKnown(c)

Routes(c) == Still(c) \/ Reuse(c) \/ Locates(c) \/ Answered(c) \/ Routed(c)

Quietly ==
    /\ UNCHANGED <<call, cached, connecting, secret, attempts, listed, shown, misrouted>>
    /\ Tends /\ Plain

Steps ==
    \/ Quietly
    \/ PushText
    \/ \E c \in Callers :
          \/ \E k \in Kinds \ {"none", "next"} : Start(c, k)
          \/ TakeText(c) \/ Rebuild(c) \/ Establish(c) \/ Refused(c)
          \/ Mild(c) /\ Plain /\ Routes(c)
          \/ /\ Mild(c) /\ Still(c)
             /\ Timeout(c) \/ Processed(c) \/ HandOver(c) \/ (c = Stream /\ NextText)

(* A turn of somebody leaves the stream's budget as it was, or resets it.  *)
LEMMA TurnAttempt ==
    ASSUME AttemptInv, NEW c, NEW pcs, Turn(c, pcs), attempts' \in {attempts, 0}
    PROVE  AttemptInv'
<1>1. MaxAttempts \in Nat
      BY SteamSessionAssumption DEF SteamSessionAssumption
<1>2. Stream \in Callers
      BY DEF Callers
<1>3. call[Stream].pc = "ended" => call'[Stream] = call[Stream]
      BY <1>2 DEF Turn
<1> QED
    BY <1>1, <1>3 DEF AttemptInv

(* Turns to fewer places are turns.                                        *)
LEMMA TurnWiden ==
    ASSUME NEW c, NEW pcs, NEW more, Turn(c, pcs), pcs \subseteq more
    PROVE  Turn(c, more)
BY DEF Turn

(* What does not touch the sessions tends them.                            *)
LEMMA UnchangedTends ==
    ASSUME ShapeOK, UNCHANGED <<conn, made>>
    PROVE  Tends /\ KeepsTexts
BY DEF ShapeOK, Tends, KeepsTexts

(* A turn to a place where nothing is asked or answered.                   *)
Calm == PC \ {"establish", "processing", "asking", "answering"}
LEMMA CalmStep ==
    ASSUME NEW c \in Callers, Turn(c, Calm), UNCHANGED <<listed, shown, misrouted>>
    PROVE  Turn(c, PC \ {"establish", "processing"}) /\ Still(c)
BY DEF Turn, Calm, Still

(* The inner part of a poll.                                               *)
LEMMA PollSteps ==
    ASSUME ShapeOK, CallInv, AttemptInv, NEW c \in Callers,
           Lock(c) \/ TakePush(c) \/ TakeLogOff(c)
    PROVE  Mild(c) /\ Plain /\ Still(c)
<1>0. /\ UNCHANGED <<cached, connecting, secret, made, delivered, dropped, listed, shown, misrouted>>
      /\ call[c].pc \in {"polling", "taking"}
      BY DEF Lock, TakePush, TakeLogOff, app, At
<1>1. call[c].pc \in InSession /\ call[c].pc \notin {"off", "ended", "establish"}
      BY <1>0 DEF InSession
<1>2. Conn(c) \in ConnRec
      BY <1>1, ConnIs
<1>3. Tends /\ KeepsTexts
  <2>1. ASSUME NEW b \in BOOLEAN, NEW q, Tended(Conn(c), q), SetConn(c, q)
        PROVE  Tends /\ KeepsTexts
        BY <1>0, <1>1, <2>1, TendedTends
  <2>2. CASE Lock(c)
        BY <1>2, <2>1, <2>2, LockedRecords DEF Lock
  <2>3. CASE TakePush(c)
        BY <1>2, <2>1, <2>3, LockedRecords DEF TakePush, Pushed
  <2>4. CASE TakeLogOff(c)
        BY <1>2, <2>1, <2>4, LockedRecords DEF TakeLogOff
  <2> QED
      BY <2>2, <2>3, <2>4
<1>4. Turn(c, Calm) /\ AttemptInv'
  <2>1. CASE Lock(c)
    <3>1. Turn(c, {"taking"})
          BY <1>0, <1>1, <2>1, GotoTurn DEF Lock, PC
    <3> QED
        BY <2>1, <3>1, TurnWiden, TurnAttempt DEF Lock, Calm, PC
  <2>2. ASSUME NEW useful \in BOOLEAN, Polled(c, useful), attempts' = attempts
        PROVE  Turn(c, Calm) /\ AttemptInv'
    <3>1. Turn(c, {"top", "polling", "ended"})
          BY <1>0, <1>1, <2>2, PolledTurn
    <3> QED
        BY <2>2, <3>1, TurnWiden, TurnAttempt DEF Calm, PC
  <2>3. CASE TakePush(c)
        BY <2>2, <2>3 DEF TakePush
  <2>4. CASE TakeLogOff(c) /\ c # Stream
        BY <2>2, <2>4 DEF TakeLogOff
  <2>5. CASE TakeLogOff(c) /\ c = Stream
    <3>1. Turn(Stream, {"ended", "backoff"}) /\ AttemptInv'
          BY <1>1, <2>5, CountTurn DEF TakeLogOff
    <3> QED
        BY <2>5, <3>1, TurnWiden DEF Calm, PC
  <2> QED
      BY <2>1, <2>3, <2>4, <2>5
<1> QED
    BY <1>0, <1>1, <1>3, <1>4, CalmStep DEF Mild, Plain

(* The steps that move a text out of a hand or out of pending.             *)
LEMMA TextSteps ==
    ASSUME ShapeOK, CallInv, AttemptInv, NEW c \in Callers,
           \/ Timeout(c) \/ Processed(c) \/ HandOver(c)
           \/ c = Stream /\ NextText
    PROVE  Mild(c) /\ Still(c)
<1>0. /\ UNCHANGED <<cached, connecting, secret, made, listed, shown, misrouted>>
      /\ call[c].pc \in {"taking", "processing", "handing", "ready"}
      /\ attempts' \in {attempts, 0}
      BY DEF Timeout, Processed, HandOver, NextText, app, At
<1>1. call[c].pc \in InSession /\ call[c].pc \notin {"off", "ended", "establish"}
      BY <1>0 DEF InSession
<1>2. Conn(c) \in ConnRec
      BY <1>1, ConnIs
<1>3. Tends
  <2>1. ASSUME NEW q, Tended(Conn(c), q), SetConn(c, q)
        PROVE  Tends
        BY <1>0, <1>1, <2>1, TendedTends
  <2>2. CASE Timeout(c)
        BY <1>2, <2>1, <2>2, LockedRecords DEF Timeout
  <2>3. CASE Processed(c)
    <3> DEFINE b == call[c].hand \in GroupTexts
    <3>1. b \in BOOLEAN /\ SetConn(c, [Conn(c) EXCEPT !.lock = Nobody, !.located = @ \/ b])
          BY <2>3 DEF Processed
    <3> HIDE DEF b
    <3> QED
        BY <1>2, <2>1, <3>1, LockedRecords
  <2>4. ASSUME NEW p \in Seq(Texts), SetConn(c, [Conn(c) EXCEPT !.pending = p])
        PROVE  Tends
    <3> DEFINE r == [Conn(c) EXCEPT !.pending = p]
    <3>1. r \in ConnRec /\ r.alive = Conn(c).alive /\ r.located = Conn(c).located
          /\ r.known = Conn(c).known
          BY <1>2 DEF ConnRec
    <3> HIDE DEF r
    <3>2. SetConn(c, r)
          BY <2>4 DEF r
    <3> QED
        BY <1>0, <1>1, <3>1, <3>2, SetConnIs DEF Tends, Conn
  <2>5. CASE HandOver(c)
    <3>1. call[c].hand \in Texts /\ Conn(c).pending \in Seq(Texts)
          BY <1>2, <2>5 DEF HandOver, CallInv, CallFine, At, ConnRec
    <3> DEFINE p == Append(Conn(c).pending, call[c].hand)
    <3>2. p \in Seq(Texts)
          BY <3>1
    <3>3. SetConn(c, [Conn(c) EXCEPT !.pending = p])
          BY <2>5 DEF HandOver
    <3> HIDE DEF p
    <3> QED
        BY <2>4, <3>2, <3>3
  <2>6. CASE c = Stream /\ NextText
    <3>1. CASE Conn(c).pending # <<>>
      <4>1. Tail(Conn(c).pending) \in Seq(Texts)
            BY <1>2, <3>1 DEF ConnRec
      <4> QED
          BY <2>4, <2>6, <3>1, <4>1 DEF NextText
    <3>2. CASE Conn(c).pending = <<>>
          BY <1>0, <2>6, <3>2, UnchangedTends DEF NextText
    <3> QED
        BY <3>1, <3>2
  <2> QED
      BY <2>2, <2>3, <2>5, <2>6
<1>4. Turn(c, Calm)
  <2>1. ASSUME NEW useful \in BOOLEAN, Polled(c, useful)
        PROVE  Turn(c, Calm)
        BY <1>0, <1>1, <2>1, PolledTurn, TurnWiden DEF Calm, PC
  <2>2. CASE Timeout(c) \/ HandOver(c)
        BY <2>1, <2>2 DEF Timeout, HandOver
  <2>3. CASE Processed(c) /\ c = Stream
        BY <2>1, <2>3 DEF Processed
  <2>4. CASE Processed(c) /\ c # Stream
    <3>1. Turn(c, {"handing"})
          BY <1>0, <1>1, <2>4, GotoTurn DEF Processed, PC, At
    <3> QED
        BY <3>1, TurnWiden DEF Calm, PC
  <2>5. CASE c = Stream /\ NextText
    <3>1. CASE Conn(c).pending # <<>>
          BY <2>1, <2>5, <3>1 DEF NextText
    <3>2. CASE Conn(c).pending = <<>>
      <4>1. Turn(c, {"polling"})
            BY <1>0, <1>1, <2>5, <3>2, GotoTurn DEF NextText, PC
      <4> QED
          BY <4>1, TurnWiden DEF Calm, PC
    <3> QED
        BY <3>1, <3>2
  <2> QED
      BY <2>2, <2>3, <2>4, <2>5
<1>5. AttemptInv'
      BY <1>0, <1>4, TurnAttempt
<1> QED
    BY <1>0, <1>1, <1>3, <1>4, <1>5, CalmStep DEF Mild

(* The requests and the stream's own turns.                                *)
LEMMA PlainSteps ==
    ASSUME ShapeOK, CallInv, AttemptInv, NEW c \in Callers,
           \/ Reuse(c) \/ NoAnswer(c) \/ Locates(c) \/ Answered(c) \/ Routed(c)
           \/ c = Stream /\ (Top \/ Wake)
    PROVE  Mild(c) /\ Plain /\ Routes(c)
<1>0. /\ UNCHANGED <<cached, connecting, secret, made, delivered, dropped, attempts>>
      /\ call[c].pc \in {"connect", "asking", "answering", "top", "backoff"}
      BY DEF Reuse, NoAnswer, Locates, Houses, HouseDetails, HouseKnown, Answered, Routed, Top,
             Wake, At
<1>1. call[c].pc \notin {"off", "ended", "establish"}
      BY <1>0
<1>2. ASSUME End(c)
      PROVE  Turn(c, PC \ {"establish", "processing"}) /\ call'[c].pc = "ended"
  <2>1. Turn(c, {"ended"})
        BY <1>1, <1>2, EndTurn
  <2> QED
      BY <2>1, TurnWiden DEF PC, Turn
<1>3. Turn(c, PC \ {"establish", "processing"})
  <2>1. CASE Reuse(c)
    <3>1. cached \in Sessions /\ cached \in 1 .. made'
          BY <1>0, <2>1, SteamSessionAssumption
          DEF SteamSessionAssumption, Reuse, Live, ShapeOK, Sessions
    <3>2. Turn(c, {"top", "ready", "polling", "asking", "ended"})
          BY <2>1, <3>1, GotTurn DEF Reuse, At
    <3> QED
        BY <3>2, TurnWiden DEF PC
  <2>2. CASE NoAnswer(c) \/ Answered(c) \/ Routed(c)
        BY <1>2, <2>2 DEF NoAnswer, Answered, Routed
  <2>3. CASE Locates(c)
    <3>1. Goto(c, "answering") /\ call[c].pc = "asking"
          BY <2>3 DEF Locates, Houses, HouseDetails, HouseKnown, At
    <3>2. Turn(c, {"answering"})
          BY <1>0, <3>1, GotoTurn DEF PC, InSession
    <3> QED
        BY <3>2, TurnWiden DEF PC
  <2>4. CASE c = Stream /\ (Top \/ Wake)
    <3>1. End(c) \/ Goto(c, "connect")
          BY <2>4 DEF Top, Wake
    <3>2. CASE Goto(c, "connect")
      <4>1. Turn(c, {"connect"})
            BY <1>0, <1>1, <3>2, GotoTurn DEF PC, InSession
      <4> QED
          BY <4>1, TurnWiden DEF PC
    <3> QED
        BY <1>2, <3>1, <3>2
  <2> QED
      BY <2>1, <2>2, <2>3, <2>4
<1>4. AttemptInv'
      BY <1>0, <1>3, TurnAttempt
<1>5. Tends /\ KeepsTexts
  <2>1. CASE Houses(c) \/ HouseDetails(c)
    <3>1. SetConn(c, [Conn(c) EXCEPT !.known = TRUE, !.located = TRUE])
          /\ call[c].pc \in InSession
          BY <2>1 DEF Houses, HouseDetails, At, InSession
    <3>2. Conn(c) \in ConnRec
          BY <3>1, ConnIs
    <3>3. Tended(Conn(c), [Conn(c) EXCEPT !.known = TRUE, !.located = TRUE])
          BY <3>2, LockedRecords
    <3> QED
        BY <1>0, <3>1, <3>3, TendedTends
  <2>2. CASE UNCHANGED conn
        BY <1>0, <2>2, UnchangedTends
  <2> QED
      BY <2>1, <2>2
      DEF Reuse, NoAnswer, Locates, HouseKnown, Answered, Routed, Top, Wake
<1>6. Routes(c)
  <2>1. CASE NoAnswer(c)
        BY <1>2, <2>1 DEF NoAnswer, app, Routes, Still
  <2>2. CASE c = Stream /\ (Top \/ Wake)
    <3>1. End(c) \/ Goto(c, "connect")
          BY <2>2 DEF Top, Wake
    <3>2. CASE Goto(c, "connect")
      <4>1. Turn(c, {"connect"})
            BY <1>0, <1>1, <3>2, GotoTurn DEF PC, InSession
      <4> QED
          BY <2>2, <4>1 DEF Turn, Top, Wake, app, Routes, Still
    <3>3. CASE End(c)
          BY <1>2, <2>2, <3>3 DEF Top, Wake, app, Routes, Still
    <3> QED
        BY <3>1, <3>2, <3>3
  <2> QED
      BY <2>1, <2>2 DEF Routes
<1> QED
    BY <1>0, <1>1, <1>3, <1>4, <1>5, <1>6 DEF Mild, Plain

(* Every step is of one of these kinds.                                    *)
LEMMA StepKinds == ShapeOK /\ CallInv /\ AttemptInv /\ [Next]_vars => Steps
<1> SUFFICES ASSUME ShapeOK, CallInv, AttemptInv, [Next]_vars PROVE Steps
    OBVIOUS
<1>1. CASE UNCHANGED vars \/ DropHandle
  <2>1. UNCHANGED <<conn, made, call, cached, connecting, secret, attempts, listed,
                    shown, misrouted, delivered, dropped>>
        BY <1>1 DEF vars, app, DropHandle
  <2> QED
      BY <2>1, UnchangedTends DEF Steps, Quietly, Plain
<1>2. CASE LogOff
  <2> DEFINE q == [conn[made] EXCEPT !.off = TRUE]
  <2>1. made \in Sessions /\ conn[made] \in ConnRec
        BY <1>2, SteamSessionAssumption
        DEF SteamSessionAssumption, LogOff, SteamStep, Serving, ShapeOK, Sessions
  <2>2. Tended(conn[made], q)
        BY <2>1, LockedRecords DEF Callers
  <2>3. conn' = [conn EXCEPT ![made] = q]
        /\ UNCHANGED <<made, call, cached, connecting, secret, attempts, listed,
                       shown, misrouted, delivered, dropped>>
        BY <1>2 DEF LogOff, SteamStep, app
  <2> HIDE DEF q
  <2>4. Tends /\ KeepsTexts
        BY <2>1, <2>2, <2>3 DEF ShapeOK, Tended, Tends, KeepsTexts
  <2> QED
      BY <2>3, <2>4 DEF Steps, Quietly, Plain
<1>3. CASE PushText
      BY <1>3 DEF Steps
<1>4. ASSUME NEW c \in Callers, NEW k \in Kinds \ {"none", "next"}, Start(c, k)
      PROVE  Steps
      BY <1>4 DEF Steps
<1>5. ASSUME NEW c \in Callers, CallerStep(c)
      PROVE  Steps
  <2>1. CASE TakeText(c) \/ Rebuild(c) \/ Establish(c) \/ Refused(c)
        BY <1>5, <2>1 DEF Steps
  <2>2. CASE Lock(c) \/ TakePush(c) \/ TakeLogOff(c)
        BY <2>2, PollSteps DEF Steps, Routes
  <2>3. CASE Timeout(c) \/ Processed(c)
        BY <2>3, TextSteps DEF Steps
  <2>4. CASE Reuse(c)
        BY <2>4, PlainSteps DEF Steps
  <2> QED
      BY <1>5, <2>1, <2>2, <2>3, <2>4 DEF CallerStep
<1>6. ASSUME NEW c \in Queries, QueryStep(c)
      PROVE  Steps
  <2>1. c \in Callers
        BY DEF Callers
  <2>2. CASE HandOver(c)
        BY <2>1, <2>2, TextSteps DEF Steps
  <2>3. CASE NoAnswer(c) \/ Locates(c) \/ Answered(c) \/ Routed(c)
        BY <2>1, <2>3, PlainSteps DEF Steps
  <2> QED
      BY <1>5, <1>6, <2>1, <2>2, <2>3 DEF QueryStep, Locates
<1>7. CASE StreamStep
  <2>1. Stream \in Callers
        BY DEF Callers
  <2>2. CASE NextText
        BY <2>1, <2>2, TextSteps DEF Steps
  <2>3. CASE Top \/ Wake
        BY <2>1, <2>3, PlainSteps DEF Steps
  <2> QED
      BY <1>5, <1>7, <2>1, <2>2, <2>3 DEF StreamStep
<1> QED
    BY <1>1, <1>2, <1>3, <1>4, <1>6, <1>7 DEF Next

-----------------------------------------------------------------------------
(* The steps that are not mild.                                            *)
LEMMA EstablishIs ==
    ASSUME ShapeOK, CallInv, AttemptInv, NEW c \in Callers, Establish(c)
    PROVE  /\ made' = made + 1 /\ cached' = made' /\ made' \in Sessions
           /\ conn' \in [Sessions -> ConnRec]
           /\ \A s \in Sessions : s # made' => conn'[s] = conn[s]
           /\ conn'[made'].direct = <<>> /\ conn'[made'].group = <<>>
           /\ conn'[made'].pending = <<>> /\ conn'[made'].known = FALSE
           /\ (call'[c].pc \in InSession => call'[c].sess = made')
           /\ Turn(c, PC \ {"establish", "processing", "handing"}) /\ AttemptInv'
           /\ connecting' = Nobody /\ secret' = "token"
           /\ UNCHANGED <<held, listed, shown, misrouted, delivered, dropped>>
<1> USE SteamSessionAssumption DEF SteamSessionAssumption
<1>1. /\ made' = made + 1 /\ cached' = made' /\ made < MaxSessions
      /\ connecting' = Nobody /\ secret' = "token" /\ attempts' = attempts
      /\ UNCHANGED <<held, listed, shown, misrouted, delivered, dropped>>
      /\ call[c].pc = "establish" /\ Got(c, made + 1)
      BY DEF Establish, app, At
<1>2. made' \in Sessions /\ made' \in 1 .. made' /\ made \in Nat
      BY <1>1 DEF ShapeOK, Sessions
<1>3. PICK early \in BOOLEAN :
          conn' = [conn EXCEPT ![made'] = [NoConn EXCEPT !.alive = TRUE, !.friends = early]]
      BY <1>1 DEF Establish
<1> DEFINE r == [NoConn EXCEPT !.alive = TRUE, !.friends = early]
<1>4. NoConn \in ConnRec /\ NoConn.direct = <<>> /\ NoConn.group = <<>> /\ NoConn.pending = <<>>
      /\ NoConn.known = FALSE
      BY DEF NoConn, ConnRec
<1>5. r \in ConnRec /\ r.direct = <<>> /\ r.group = <<>> /\ r.pending = <<>>
      /\ r.known = FALSE
      BY <1>4 DEF ConnRec
<1> HIDE DEF r
<1>6. conn' \in [Sessions -> ConnRec] /\ conn'[made'] = r
      /\ \A s \in Sessions : s # made' => conn'[s] = conn[s]
      BY <1>2, <1>3, <1>5 DEF ShapeOK, r
<1>7. Turn(c, {"top", "ready", "polling", "asking", "ended"})
      /\ (call'[c].pc \in InSession => call'[c].sess = made')
      BY <1>1, <1>2, GotTurn
<1>8. Turn(c, PC \ {"establish", "processing", "handing"})
      BY <1>7, TurnWiden DEF PC
<1>9. AttemptInv'
      BY <1>1, <1>8, TurnAttempt
<1> QED
    BY <1>1, <1>2, <1>5, <1>6, <1>7, <1>8, <1>9

(* Whoever finds no live session takes the mutex.                          *)
LEMMA RebuildIs ==
    ASSUME ShapeOK, CallInv, AttemptInv, NEW c \in Callers, Rebuild(c)
    PROVE  /\ connecting = Nobody /\ ~Live /\ connecting' = c /\ call[c].pc = "connect"
           /\ Turn(c, {"establish"}) /\ AttemptInv' /\ Tends /\ KeepsTexts
           /\ UNCHANGED <<cached, secret, held, listed, shown, misrouted, delivered, dropped>>
<1>1. /\ connecting = Nobody /\ ~Live /\ connecting' = c /\ call[c].pc = "connect"
      /\ Goto(c, "establish")
      /\ UNCHANGED <<cached, secret, made, conn, attempts, held, listed, shown, misrouted,
                     delivered, dropped>>
      BY DEF Rebuild, At, app
<1>2. Turn(c, {"establish"})
      BY <1>1, GotoTurn DEF PC, InSession
<1> QED
    BY <1>1, <1>2, TurnAttempt, UnchangedTends

(* A refused logon lets the mutex go.                                      *)
LEMMA RefusedIs ==
    ASSUME ShapeOK, CallInv, AttemptInv, NEW c \in Callers, Refused(c)
    PROVE  /\ connecting' = Nobody /\ call[c].pc = "establish"
           /\ Turn(c, {"ended", "backoff"}) /\ AttemptInv' /\ Tends /\ KeepsTexts
           /\ UNCHANGED <<cached, secret, held, listed, shown, misrouted, delivered, dropped>>
<1>1. /\ connecting' = Nobody /\ call[c].pc = "establish"
      /\ UNCHANGED <<cached, secret, made, conn, held, listed, shown, misrouted, delivered, dropped>>
      BY DEF Refused, At, app
<1>2. Turn(c, {"ended", "backoff"}) /\ AttemptInv'
  <2>1. CASE call[c].kind = "next"
    <3>1. c = Stream
          BY <2>1 DEF CallInv, CallFine
    <3> QED
        BY <1>1, <2>1, <3>1, CountTurn DEF Refused
  <2>2. CASE call[c].kind # "next"
    <3>1. Turn(c, {"ended"}) /\ attempts' = attempts
          BY <1>1, <2>2, EndTurn DEF Refused
    <3> QED
        BY <3>1, TurnWiden, TurnAttempt
  <2> QED
      BY <2>1, <2>2
<1> QED
    BY <1>1, <1>2, UnchangedTends

(* A call begins at connected(), with its kind.                            *)
LEMMA StartIs ==
    ASSUME ShapeOK, CallInv, AttemptInv, NEW c \in Callers, NEW k \in Kinds, Start(c, k),
           k \notin {"none", "next"}
    PROVE  /\ ShapeOK' /\ CallInv' /\ AttemptInv' /\ Tends /\ KeepsTexts
           /\ call[c].pc = "off" /\ call'[c].pc = "connect" /\ call'[c].hand = call[c].hand
           /\ \A d \in Callers : d # c => call'[d] = call[d]
           /\ UNCHANGED <<cached, connecting, secret, held, listed, shown, misrouted, delivered,
                          dropped>>
<1> DEFINE r == [call[c] EXCEPT !.pc = "connect", !.kind = k]
<1>1. /\ call[c].pc = "off" /\ Becomes(c, r) /\ (c = Stream <=> k = "listen")
      /\ (k = "room" => shown # {})
      /\ UNCHANGED <<cached, connecting, secret, made, conn, attempts, held, listed, shown, misrouted,
                     delivered, dropped>>
      BY SteamSessionAssumption DEF SteamSessionAssumption, Start, At, app, Callers
<1>2. call[c] \in CallRec
      BY DEF ShapeOK
<1>3. r \in CallRec /\ r.pc = "connect" /\ r.kind = k /\ r.hand = call[c].hand
      BY <1>2 DEF CallRec, PC
<1> HIDE DEF r
<1>4. Became(c, r)
      BY <1>1, <1>3, BecomesIs
<1>5. ShapeOK'
      BY <1>1, <1>4 DEF Became, ShapeOK
<1>6. CallInv'
  <2> SUFFICES ASSUME NEW d \in Callers PROVE CallFine(d, call'[d], made', shown' # {})
      BY DEF CallInv
  <2>1. CASE d # c
        BY <1>1, <1>4, <2>1 DEF Became, CallInv
  <2>2. CASE d = c
        BY <1>1, <1>3, <1>4, <2>2 DEF Became, CallFine, Kinds, InSession
  <2> QED
      BY <2>1, <2>2
<1>7. AttemptInv'
  <2>1. call[Stream].pc = "ended" => call'[Stream] = call[Stream]
        BY <1>1, <1>4 DEF Became, Callers
  <2> QED
      BY <1>1, <2>1 DEF AttemptInv
<1> QED
    BY <1>1, <1>3, <1>4, <1>5, <1>6, <1>7, UnchangedTends DEF Became

(* A text is taken from the front of one of the two streams of updates.    *)
LEMMA TakeTextIs ==
    ASSUME ShapeOK, CallInv, AttemptInv, NEW c \in Callers, TakeText(c)
    PROVE  /\ ShapeOK' /\ CallInv' /\ AttemptInv' /\ Tends
           /\ call[c].pc = "taking" /\ call'[c].pc = "processing" /\ call[c].sess \in Sessions
           /\ \A d \in Callers : d # c => call'[d] = call[d]
           /\ \A s \in Sessions : s # call[c].sess => conn'[s] = conn[s]
           /\ conn'[call[c].sess].pending = Conn(c).pending
           /\ \/ /\ Conn(c).direct # <<>> /\ call'[c].hand = Head(Conn(c).direct)
                 /\ conn'[call[c].sess].direct = Tail(Conn(c).direct)
                 /\ conn'[call[c].sess].group = Conn(c).group
              \/ /\ Conn(c).group # <<>> /\ call'[c].hand = Head(Conn(c).group)
                 /\ conn'[call[c].sess].group = Tail(Conn(c).group)
                 /\ conn'[call[c].sess].direct = Conn(c).direct
           /\ UNCHANGED <<cached, connecting, secret, held, listed, shown, misrouted, delivered,
                          dropped>>
<1>1. call[c].pc = "taking"
      /\ UNCHANGED <<cached, connecting, secret, made, attempts, held, listed, shown, misrouted,
                     delivered, dropped>>
      BY DEF TakeText, At, app
<1>2. call[c].pc \in InSession
      BY <1>1 DEF InSession
<1>3. Conn(c) \in ConnRec /\ call[c] \in CallRec /\ call[c].sess \in Sessions
      /\ call[c].sess \in 1 .. made
      BY <1>2, ConnIs DEF ShapeOK
<1>4. \E x \in Texts, r \in ConnRec, q \in CallRec :
          /\ SetConn(c, r) /\ Becomes(c, q)
          /\ r.alive = Conn(c).alive /\ r.located = Conn(c).located
          /\ r.pending = Conn(c).pending /\ r.known = Conn(c).known
          /\ q.pc = "processing" /\ q.hand = x /\ q.kind = call[c].kind
          /\ q.sess = call[c].sess
          /\ \/ /\ Conn(c).direct # <<>> /\ x = Head(Conn(c).direct)
                /\ r.direct = Tail(Conn(c).direct) /\ r.group = Conn(c).group
             \/ /\ Conn(c).group # <<>> /\ x = Head(Conn(c).group)
                /\ r.group = Tail(Conn(c).group) /\ r.direct = Conn(c).direct
  <2> DEFINE Q(x) == [call[c] EXCEPT !.pc = "processing", !.hand = x]
  <2>1. ASSUME NEW x \in Texts
        PROVE  /\ Q(x) \in CallRec /\ Q(x).pc = "processing" /\ Q(x).hand = x
               /\ Q(x).kind = call[c].kind /\ Q(x).sess = call[c].sess
        BY <1>3 DEF CallRec, PC
  <2>2. CASE Conn(c).direct # <<>> /\ Becomes(c, Q(Head(Conn(c).direct)))
             /\ SetConn(c, [Conn(c) EXCEPT !.direct = Tail(@)])
    <3> DEFINE x == Head(Conn(c).direct)
               t == Tail(Conn(c).direct)
               r == [Conn(c) EXCEPT !.direct = t]
    <3>1. x \in Texts /\ t \in Seq(Texts)
          BY <1>3, <2>2 DEF ConnRec
    <3> HIDE DEF t
    <3>2. /\ r \in ConnRec /\ r.alive = Conn(c).alive /\ r.located = Conn(c).located
          /\ r.pending = Conn(c).pending /\ r.known = Conn(c).known
          /\ r.direct = t /\ r.group = Conn(c).group
          BY <1>3, <3>1 DEF ConnRec
    <3>3. SetConn(c, r) /\ Becomes(c, Q(x))
          BY <2>2 DEF t
    <3> HIDE DEF r, x, Q
    <3> QED
        BY <2>1, <2>2, <3>1, <3>2, <3>3 DEF t, x
  <2>3. CASE Conn(c).group # <<>> /\ Becomes(c, Q(Head(Conn(c).group)))
             /\ SetConn(c, [Conn(c) EXCEPT !.group = Tail(@)])
    <3> DEFINE x == Head(Conn(c).group)
               t == Tail(Conn(c).group)
               r == [Conn(c) EXCEPT !.group = t]
    <3>1. x \in Texts /\ t \in Seq(Texts)
          BY <1>3, <2>3 DEF ConnRec
    <3> HIDE DEF t
    <3>2. /\ r \in ConnRec /\ r.alive = Conn(c).alive /\ r.located = Conn(c).located
          /\ r.pending = Conn(c).pending /\ r.known = Conn(c).known
          /\ r.group = t /\ r.direct = Conn(c).direct
          BY <1>3, <3>1 DEF ConnRec
    <3>3. SetConn(c, r) /\ Becomes(c, Q(x))
          BY <2>3 DEF t
    <3> HIDE DEF r, x, Q
    <3> QED
        BY <2>1, <2>3, <3>1, <3>2, <3>3 DEF t, x
  <2> QED
      BY <2>2, <2>3 DEF TakeText
<1>5. PICK x \in Texts, r \in ConnRec, q \in CallRec :
          /\ SetConn(c, r) /\ Becomes(c, q)
          /\ r.alive = Conn(c).alive /\ r.located = Conn(c).located
          /\ r.pending = Conn(c).pending /\ r.known = Conn(c).known
          /\ q.pc = "processing" /\ q.hand = x /\ q.kind = call[c].kind
          /\ q.sess = call[c].sess
          /\ \/ /\ Conn(c).direct # <<>> /\ x = Head(Conn(c).direct)
                /\ r.direct = Tail(Conn(c).direct) /\ r.group = Conn(c).group
             \/ /\ Conn(c).group # <<>> /\ x = Head(Conn(c).group)
                /\ r.group = Tail(Conn(c).group) /\ r.direct = Conn(c).direct
      BY <1>4
<1>6. Became(c, q)
      BY <1>5, BecomesIs
<1>7. /\ conn' \in [Sessions -> ConnRec] /\ conn'[call[c].sess] = r
      /\ \A s \in Sessions : s # call[c].sess => conn'[s] = conn[s]
      BY <1>2, <1>5, SetConnIs
<1>8. ShapeOK' /\ Tends
      BY <1>1, <1>5, <1>6, <1>7 DEF Became, ShapeOK, Tends, Conn
<1>9. CallInv'
  <2> SUFFICES ASSUME NEW d \in Callers PROVE CallFine(d, call'[d], made', shown' # {})
      BY DEF CallInv
  <2>1. CASE d # c
        BY <1>1, <1>6, <2>1 DEF Became, CallInv
  <2>2. CASE d = c
        BY <1>1, <1>3, <1>5, <1>6, <2>2 DEF Became, CallFine, CallInv
  <2> QED
      BY <2>1, <2>2
<1>10. AttemptInv'
  <2>1. call[Stream].pc = "ended" => call'[Stream] = call[Stream]
        BY <1>1, <1>6 DEF Became, Callers
  <2> QED
      BY <1>1, <2>1 DEF AttemptInv
<1> QED
    BY <1>1, <1>3, <1>5, <1>6, <1>7, <1>8, <1>9, <1>10 DEF Became

(* A new text joins one of the two streams of the session made last.       *)
LEMMA PushTextIs ==
    ASSUME ShapeOK, PushText
    PROVE  /\ Tends /\ made \in Sessions
           /\ \A s \in Sessions : s # made => conn'[s] = conn[s]
           /\ \E m \in Texts \ Somewhere :
                 /\ conn'[made].pending = conn[made].pending
                 /\ \/ /\ conn'[made].direct = Append(conn[made].direct, m)
                       /\ conn'[made].group = conn[made].group
                    \/ /\ conn'[made].group = Append(conn[made].group, m)
                       /\ conn'[made].direct = conn[made].direct
           /\ UNCHANGED <<cached, connecting, secret, call, attempts, held, listed, shown, misrouted,
                          delivered, dropped>>
<1>1. PICK m \in Texts \ Somewhere :
          SteamStep(IF m \in GroupTexts
                      THEN [conn[made] EXCEPT !.group = Append(@, m)]
                      ELSE [conn[made] EXCEPT !.direct = Append(@, m)])
      BY DEF PushText
<1>2. /\ made \in Sessions /\ conn[made] \in ConnRec
      /\ UNCHANGED <<cached, connecting, secret, made, call, attempts, held, listed, shown, misrouted,
                     delivered, dropped>>
      BY <1>1, SteamSessionAssumption
      DEF SteamSessionAssumption, SteamStep, Serving, ShapeOK, Sessions, app
<1>3. conn[made].group \in Seq(Texts) /\ conn[made].direct \in Seq(Texts)
      BY <1>2 DEF ConnRec
<1> DEFINE g == Append(conn[made].group, m)
           d == Append(conn[made].direct, m)
<1>4. g \in Seq(Texts) /\ d \in Seq(Texts)
      BY <1>3
<1>5. \/ conn' = [conn EXCEPT ![made] = [conn[made] EXCEPT !.group = g]]
      \/ conn' = [conn EXCEPT ![made] = [conn[made] EXCEPT !.direct = d]]
      BY <1>1 DEF SteamStep
<1> HIDE DEF g, d
<1>6. PICK r \in ConnRec :
          /\ conn' = [conn EXCEPT ![made] = r]
          /\ r.alive = conn[made].alive /\ r.located = conn[made].located
          /\ r.pending = conn[made].pending /\ r.known = conn[made].known
          /\ \/ r.direct = d /\ r.group = conn[made].group
             \/ r.group = g /\ r.direct = conn[made].direct
  <2> DEFINE rg == [conn[made] EXCEPT !.group = g]
             rd == [conn[made] EXCEPT !.direct = d]
  <2>1. /\ rg \in ConnRec /\ rg.alive = conn[made].alive /\ rg.located = conn[made].located
        /\ rg.known = conn[made].known
        /\ rg.pending = conn[made].pending /\ rg.direct = conn[made].direct /\ rg.group = g
        BY <1>2, <1>4 DEF ConnRec
  <2>2. /\ rd \in ConnRec /\ rd.alive = conn[made].alive /\ rd.located = conn[made].located
        /\ rd.known = conn[made].known
        /\ rd.pending = conn[made].pending /\ rd.group = conn[made].group /\ rd.direct = d
        BY <1>2, <1>4 DEF ConnRec
  <2> HIDE DEF rg, rd
  <2> QED
      BY <1>5, <2>1, <2>2 DEF rg, rd
<1>7. /\ conn' \in [Sessions -> ConnRec] /\ conn'[made] = r
      /\ \A s \in Sessions : s # made => conn'[s] = conn[s]
      BY <1>2, <1>6 DEF ShapeOK
<1>8. Tends
      BY <1>2, <1>6, <1>7 DEF Tends
<1> QED
    BY <1>2, <1>6, <1>7, <1>8 DEF g, d

-----------------------------------------------------------------------------
(* Every step keeps the shape, the calls in order and the budget.          *)
Basics == ShapeOK /\ CallInv /\ AttemptInv

(* No session, no calls.                                                   *)
LEMMA BasicsInit == Init => Basics
<1> SUFFICES ASSUME Init PROVE Basics
    OBVIOUS
<1>1. NoConn \in ConnRec
      BY DEF NoConn, ConnRec
<1>2. NoCall \in CallRec /\ NoCall.pc = "off" /\ NoCall.kind = "none"
      BY SteamSessionAssumption DEF SteamSessionAssumption, NoCall, CallRec, PC, Kinds
<1> QED
    BY <1>1, <1>2, SteamSessionAssumption
    DEF SteamSessionAssumption, Init, Basics, ShapeOK, CallInv, CallFine, AttemptInv, InSession

(* Each kind of step is in order.                                          *)
LEMMA BasicsStep == Basics /\ Steps => Basics'
<1> SUFFICES ASSUME ShapeOK, CallInv, AttemptInv, Steps PROVE Basics'
    BY DEF Basics

<1>1. CASE Quietly
      BY <1>1 DEF Quietly, Tends, Basics, ShapeOK, CallInv, AttemptInv
<1>2. CASE PushText
      BY <1>2, PushTextIs DEF Tends, Basics, ShapeOK, CallInv, AttemptInv
<1>3. ASSUME NEW c \in Callers, NEW pcs \in SUBSET (PC \ {"processing"}), Turn(c, pcs),
             Tends, cached' = cached, AttemptInv', shown # {} => shown' # {}
      PROVE  Basics'
  <2>1. ShapeOK' /\ made' \in 0 .. MaxSessions /\ made' >= made
        BY <1>3, SteamSessionAssumption DEF SteamSessionAssumption, Turn, Tends, ShapeOK
  <2> QED
      BY <1>3, <2>1, TurnFine DEF Basics
<1>4. ASSUME NEW c \in Callers, NEW k \in Kinds \ {"none", "next"}, Start(c, k)
      PROVE  Basics'
      BY <1>4, StartIs DEF Basics
<1>5. ASSUME NEW c \in Callers, TakeText(c) PROVE Basics'
      BY <1>5, TakeTextIs DEF Basics
<1>6. ASSUME NEW c \in Callers, Rebuild(c) PROVE Basics'
      BY <1>3, <1>6, RebuildIs DEF PC
<1>7. ASSUME NEW c \in Callers, Refused(c) PROVE Basics'
      BY <1>3, <1>7, RefusedIs DEF PC
<1>8. ASSUME NEW c \in Callers, Establish(c) PROVE Basics'
  <2>1. /\ made' = made + 1 /\ cached' = made' /\ made' \in Sessions
        /\ conn' \in [Sessions -> ConnRec]
        /\ Turn(c, PC \ {"establish", "processing", "handing"}) /\ AttemptInv'
        /\ shown' = shown
        BY <1>8, EstablishIs
  <2>2. ShapeOK' /\ made' \in 0 .. MaxSessions /\ made' >= made
        BY <2>1, SteamSessionAssumption
        DEF SteamSessionAssumption, Turn, ShapeOK, Sessions
  <2> QED
      BY <2>1, <2>2, TurnFine DEF Basics
<1>9. ASSUME NEW c \in Callers, Mild(c), Still(c) \/ Routes(c)
      PROVE  Basics'
  <2>1. shown # {} => shown' # {}
        BY <1>9
        DEF Routes, Still, Reuse, Locates, Houses, HouseDetails, HouseKnown, Answered, Routed,
            app
  <2> QED
      BY <1>3, <1>9, <2>1 DEF Mild
<1> QED
    BY <1>1, <1>2, <1>4, <1>5, <1>6, <1>7, <1>8, <1>9 DEF Steps

-----------------------------------------------------------------------------
(* Only the session made last can be alive, whoever establishes one holds  *)
(* the mutex and has seen that one dead, and the first logon was the last  *)
(* with the password.                                                      *)
ConnInv ==
    /\ \A s \in Sessions : conn[s].alive => s = made
    /\ connecting \in Callers \cup {Nobody}
    /\ \A c \in Callers : call[c].pc = "establish" => connecting = c
    /\ connecting # Nobody =>
          call[connecting].pc = "establish" /\ (made > 0 => ~conn[made].alive)
    /\ secret \in {"password", "token"}
    /\ made > 0 => secret = "token"

(* There is no session to be alive.                                        *)
LEMMA ConnInit == Init => ConnInv
BY DEF Init, ConnInv, NoConn, NoCall

(* A step that does not concern the mutex keeps it.                        *)
LEMMA ConnKept ==
    ASSUME Basics, ConnInv, Tends, UNCHANGED <<connecting, secret>>,
           \A c \in Callers : call'[c].pc = "establish" <=> call[c].pc = "establish"
    PROVE  ConnInv'
<1>1. made > 0 => made \in Sessions
      BY SteamSessionAssumption DEF SteamSessionAssumption, Basics, ShapeOK, Sessions
<1> QED
    BY <1>1 DEF ConnInv, Tends

(* Only Rebuild, Establish and Refused concern the mutex.                  *)
LEMMA ConnStep == Basics /\ ConnInv /\ Steps => ConnInv'
<1> SUFFICES ASSUME Basics, ConnInv, Steps PROVE ConnInv'
    OBVIOUS
<1>0. ShapeOK /\ CallInv /\ AttemptInv
      BY DEF Basics
<1>1. CASE Quietly
      BY <1>1, ConnKept DEF Quietly
<1>2. CASE PushText
      BY <1>0, <1>2, PushTextIs, ConnKept
<1>3. ASSUME NEW c \in Callers, NEW k \in Kinds \ {"none", "next"}, Start(c, k)
      PROVE  ConnInv'
  <2>1. /\ Tends /\ UNCHANGED <<connecting, secret>>
        /\ call[c].pc = "off" /\ call'[c].pc = "connect"
        /\ \A d \in Callers : d # c => call'[d] = call[d]
        BY <1>0, <1>3, StartIs
  <2>2. \A d \in Callers : call'[d].pc = "establish" <=> call[d].pc = "establish"
        BY <2>1
  <2> QED
      BY <2>1, <2>2, ConnKept
<1>4. ASSUME NEW c \in Callers, TakeText(c) PROVE ConnInv'
  <2>1. /\ Tends /\ UNCHANGED <<connecting, secret>>
        /\ call[c].pc = "taking" /\ call'[c].pc = "processing"
        /\ \A d \in Callers : d # c => call'[d] = call[d]
        BY <1>0, <1>4, TakeTextIs
  <2>2. \A d \in Callers : call'[d].pc = "establish" <=> call[d].pc = "establish"
        BY <2>1
  <2> QED
      BY <2>1, <2>2, ConnKept
<1>5. ASSUME NEW c \in Callers, Mild(c) PROVE ConnInv'
  <2>1. /\ Tends /\ UNCHANGED <<connecting, secret>>
        /\ call[c].pc # "establish" /\ call'[c].pc # "establish"
        /\ \A d \in Callers : d # c => call'[d] = call[d]
        BY <1>5 DEF Mild, Turn
  <2>2. \A d \in Callers : call'[d].pc = "establish" <=> call[d].pc = "establish"
        BY <2>1
  <2> QED
      BY <2>1, <2>2, ConnKept
<1>6. made > 0 => made \in Sessions
      BY <1>0, SteamSessionAssumption DEF SteamSessionAssumption, ShapeOK, Sessions
<1>7. ASSUME NEW c \in Callers, Rebuild(c) PROVE ConnInv'
  <2>1. /\ connecting = Nobody /\ ~Live /\ connecting' = c /\ Tends
        /\ UNCHANGED secret /\ call'[c].pc = "establish"
        /\ \A d \in Callers : d # c => call'[d] = call[d]
        BY <1>0, <1>7, RebuildIs DEF Turn
  <2>2. made > 0 => ~conn[made].alive
        BY <1>0, <2>1 DEF Live, ShapeOK
  <2>3. \A d \in Callers : call[d].pc # "establish"
        BY <2>1, SteamSessionAssumption DEF SteamSessionAssumption, ConnInv, Callers
  <2> QED
      BY <1>6, <2>1, <2>2, <2>3 DEF ConnInv, Tends
<1>8. ASSUME NEW c \in Callers, Refused(c) PROVE ConnInv'
  <2>1. /\ connecting' = Nobody /\ call[c].pc = "establish" /\ Tends /\ UNCHANGED secret
        /\ call'[c].pc # "establish" /\ \A d \in Callers : d # c => call'[d] = call[d]
        BY <1>0, <1>8, RefusedIs DEF Turn
  <2>2. \A d \in Callers : call'[d].pc # "establish"
        BY <2>1 DEF ConnInv
  <2> QED
      BY <1>6, <2>1, <2>2 DEF ConnInv, Tends
<1>9. ASSUME NEW c \in Callers, Establish(c) PROVE ConnInv'
  <2>1. /\ made' = made + 1 /\ made' \in Sessions
        /\ \A s \in Sessions : s # made' => conn'[s] = conn[s]
        /\ connecting' = Nobody /\ secret' = "token" /\ call'[c].pc # "establish"
        /\ \A d \in Callers : d # c => call'[d] = call[d]
        BY <1>0, <1>9, EstablishIs DEF Turn
  <2>2. call[c].pc = "establish" /\ connecting = c /\ connecting # Nobody
        BY <1>9, SteamSessionAssumption
        DEF SteamSessionAssumption, Establish, At, ConnInv, Callers
  <2>3. \A d \in Callers : call'[d].pc # "establish"
        BY <2>1, <2>2 DEF ConnInv
  <2>4. \A s \in Sessions : ~conn[s].alive
    <3> SUFFICES ASSUME NEW s \in Sessions, conn[s].alive PROVE FALSE
        OBVIOUS
    <3>1. s = made /\ made > 0
          BY SteamSessionAssumption DEF SteamSessionAssumption, ConnInv, Sessions
    <3> QED
        BY <2>2, <3>1 DEF ConnInv
  <2> QED
      BY <2>1, <2>3, <2>4 DEF ConnInv
<1> QED
    BY <1>1, <1>2, <1>3, <1>4, <1>5, <1>7, <1>8, <1>9 DEF Steps

-----------------------------------------------------------------------------
(* What is true of the record r of a caller: the session of an answer has  *)
(* the room's location, and whoever calls in a room got a session no older *)
(* than one that has shown it.                                             *)
RoomFine(r) ==
    /\ r.pc = "answering" => conn[r.sess].located
    /\ r.pc = "asking" /\ r.kind = "room" => \E s \in shown : s <= r.sess

(* A session that has shown the room knows where it is; chat_groups never  *)
(* has the group without that; and a call goes wrong only in a session     *)
(* made after one that has shown the room.                                 *)
RouteInv ==
    /\ shown \subseteq 1 .. made
    /\ \A s \in shown : conn[s].located
    /\ \A s \in Sessions : conn[s].known => conn[s].located
    /\ \A c \in Callers : RoomFine(call[c])
    /\ RoutedWithinSession

(* Nothing is shown and nothing was asked.                                 *)
LEMMA RouteInit == Init => RouteInv
BY DEF Init, RouteInv, RoomFine, RoutedWithinSession, NoConn, NoCall

(* A step that misroutes nothing keeps it, if the room it shows has a      *)
(* location there and the call that moves is in order.                     *)
LEMMA RouteKept ==
    ASSUME Basics, RouteInv, Tends, UNCHANGED misrouted, shown \subseteq shown',
           \A s \in shown' \ shown : s \in 1 .. made /\ conn'[s].located,
           \A c \in Callers : call'[c] = call[c] \/ RoomFine(call[c])'
    PROVE  RouteInv'
<1>0. 1 .. made \subseteq Sessions /\ made' = made
      BY SteamSessionAssumption DEF SteamSessionAssumption, Basics, ShapeOK, Sessions, Tends
<1>1. shown' \subseteq 1 .. made' /\ \A s \in shown' : conn'[s].located
      BY <1>0 DEF RouteInv, Tends
<1>2. \A s \in Sessions : conn'[s].known => conn'[s].located
      BY DEF RouteInv, Tends
<1>3. ASSUME NEW c \in Callers, call'[c] = call[c] PROVE RoomFine(call[c])'
  <2>1. call[c].pc = "answering" => call[c].sess \in Sessions
        BY <1>0 DEF Basics, CallInv, CallFine, InSession
  <2> QED
      BY <1>3, <2>1 DEF RouteInv, RoomFine, Tends
<1>4. RoutedWithinSession'
      BY DEF RouteInv, RoutedWithinSession
<1> QED
    BY <1>1, <1>2, <1>3, <1>4 DEF RouteInv

(* A step of one caller, to where nothing is asked or answered.            *)
LEMMA RouteStill ==
    ASSUME Basics, RouteInv, Tends, UNCHANGED <<shown, misrouted>>, NEW c \in Callers,
           call'[c].pc \notin {"asking", "answering"},
           \A d \in Callers : d # c => call'[d] = call[d]
    PROVE  RouteInv'
<1>1. RoomFine(call[c])'
      BY DEF RoomFine
<1> QED
    BY <1>1, RouteKept

(* A call goes wrong only in a session made after the showing.             *)
LEMMA RouteStep == Basics /\ RouteInv /\ Steps => RouteInv'
<1> SUFFICES ASSUME Basics, RouteInv, Steps PROVE RouteInv'
    OBVIOUS
<1>0. ShapeOK /\ CallInv /\ AttemptInv /\ made \in Nat /\ 1 .. made \subseteq Sessions
      BY SteamSessionAssumption DEF SteamSessionAssumption, Basics, ShapeOK, Sessions
<1>1. CASE Quietly
      BY <1>1, RouteKept DEF Quietly
<1>2. CASE PushText
      BY <1>0, <1>2, PushTextIs, RouteKept
<1>3. ASSUME NEW c \in Callers, NEW k \in Kinds \ {"none", "next"}, Start(c, k)
      PROVE  RouteInv'
      BY <1>0, <1>3, StartIs, RouteStill
<1>4. ASSUME NEW c \in Callers, TakeText(c) PROVE RouteInv'
      BY <1>0, <1>4, TakeTextIs, RouteStill
<1>5. ASSUME NEW c \in Callers, Rebuild(c) PROVE RouteInv'
      BY <1>0, <1>5, RebuildIs, RouteStill DEF Turn
<1>6. ASSUME NEW c \in Callers, Refused(c) PROVE RouteInv'
      BY <1>0, <1>6, RefusedIs, RouteStill DEF Turn
(* A session the caller c gets is as new as any that has shown the room.   *)
<1>7. ASSUME NEW c \in Callers, call'[c].kind \in {"none", "next", call[c].kind},
             call'[c].pc \in InSession => call'[c].sess = made',
             call'[c].pc # "answering", made' \in Nat, made' >= made, shown' = shown
      PROVE  RoomFine(call[c])'
  <2>1. call'[c].kind = "room" => shown # {}
        BY <1>0, <1>7 DEF CallInv, CallFine
  <2>2. ASSUME NEW s \in shown PROVE s <= made'
    <3>1. s \in 1 .. made
          BY DEF RouteInv
    <3> QED
        BY <1>0, <1>7, <3>1
  <2> QED
      BY <1>7, <2>1, <2>2 DEF RoomFine, InSession
<1>8. ASSUME NEW c \in Callers, Establish(c) PROVE RouteInv'
  <2>1. /\ made' = made + 1 /\ made' \in Sessions /\ UNCHANGED <<shown, misrouted>>
        /\ \A s \in Sessions : s # made' => conn'[s] = conn[s]
        /\ conn'[made'].known = FALSE
        /\ (call'[c].pc \in InSession => call'[c].sess = made')
        /\ Turn(c, PC \ {"establish", "processing", "handing"})
        BY <1>0, <1>8, EstablishIs
  <2>2. call'[c].pc # "answering"
    <3>1. Got(c, made + 1)
          BY <1>8 DEF Establish
    <3>2. Turn(c, {"top", "ready", "polling", "asking", "ended"})
          BY <1>0, <1>8, <2>1, <3>1, GotTurn DEF Establish, At
    <3> QED
        BY <3>2 DEF Turn
  <2>3. RoomFine(call[c])'
        BY <1>0, <1>7, <2>1, <2>2 DEF Turn
  <2>4. ASSUME NEW d \in Callers, d # c PROVE RoomFine(call[d])'
    <3>1. call'[d] = call[d]
          BY <2>1, <2>4 DEF Turn
    <3>2. call[d].pc = "answering" => call[d].sess \in Sessions /\ call[d].sess # made'
          BY <1>0, <2>1 DEF CallInv, CallFine, InSession
    <3> QED
        BY <2>1, <3>1, <3>2 DEF RouteInv, RoomFine
  <2>5. \A s \in shown' : s \in 1 .. made' /\ conn'[s].located
    <3> SUFFICES ASSUME NEW s \in shown PROVE s \in 1 .. made' /\ conn'[s].located
        BY <2>1
    <3>1. s \in 1 .. made /\ s \in Sessions /\ s # made'
          BY <1>0, <2>1 DEF RouteInv
    <3> QED
        BY <1>0, <2>1, <3>1 DEF RouteInv
  <2>6. RoutedWithinSession'
        BY <2>1 DEF RouteInv, RoutedWithinSession
  <2> QED
      BY <2>1, <2>3, <2>4, <2>5, <2>6 DEF RouteInv
<1>9. ASSUME NEW c \in Callers, Mild(c)
      PROVE  Tends /\ \A d \in Callers : d # c => call'[d] = call[d]
      BY <1>9 DEF Mild, Turn
<1>10. ASSUME NEW c \in Callers, Mild(c), Still(c) PROVE RouteInv'
      BY <1>9, <1>10, RouteStill DEF Still
<1>11. ASSUME NEW c \in Callers, Mild(c), Reuse(c) PROVE RouteInv'
  <2>1. cached \in Sessions /\ cached \in 1 .. made' /\ cached = made /\ made' = made
        BY <1>0, <1>9, <1>11, SteamSessionAssumption
        DEF SteamSessionAssumption, Reuse, Live, ShapeOK, Sessions, Tends
  <2>2. /\ Turn(c, {"top", "ready", "polling", "asking", "ended"})
        /\ (call'[c].pc \in InSession => call'[c].sess = cached)
        BY <1>0, <1>11, <2>1, GotTurn DEF Reuse, At
  <2>3. UNCHANGED <<shown, misrouted>>
        BY <1>11 DEF Reuse, app
  <2>4. RoomFine(call[c])'
        BY <1>0, <1>7, <2>1, <2>2, <2>3 DEF Turn
  <2> QED
      BY <1>9, <1>11, <2>3, <2>4, RouteKept
<1>12. ASSUME NEW c \in Callers, Mild(c), Locates(c) PROVE RouteInv'
  <2>1. /\ call[c].pc = "asking" /\ Goto(c, "answering")
        /\ UNCHANGED <<shown, misrouted, made>>
        BY <1>12 DEF Locates, Houses, HouseDetails, HouseKnown, At, app
  <2>2. call[c].pc \in InSession
        BY <2>1 DEF InSession
  <2>3. call[c].sess \in Sessions /\ Conn(c) \in ConnRec
        BY <1>0, <2>2, ConnIs
  <2>4. conn'[call[c].sess].located
    <3>1. CASE HouseKnown(c)
          BY <2>3, <3>1 DEF HouseKnown, RouteInv, Conn
    <3>2. CASE Houses(c) \/ HouseDetails(c)
      <4> DEFINE r == [Conn(c) EXCEPT !.known = TRUE, !.located = TRUE]
      <4>1. SetConn(c, r)
            BY <3>2 DEF Houses, HouseDetails
      <4>2. r \in ConnRec /\ r.located
            BY <2>3 DEF ConnRec
      <4> QED
          BY <1>0, <2>2, <4>1, <4>2, SetConnIs
    <3> QED
        BY <1>12, <3>1, <3>2 DEF Locates
  <2>5. Turn(c, {"answering"}) /\ call'[c].sess = call[c].sess
        BY <1>0, <2>1, GotoTurn DEF PC, InSession
  <2>6. RoomFine(call[c])'
        BY <2>4, <2>5 DEF Turn, RoomFine
  <2> QED
      BY <1>9, <1>12, <2>1, <2>6, RouteKept
<1>13. ASSUME NEW c \in Callers, Mild(c), Answered(c) PROVE RouteInv'
  <2>1. /\ call[c].pc = "answering" /\ End(c) /\ UNCHANGED <<misrouted, conn>>
        /\ shown' \in {shown, shown \cup {call[c].sess}}
        BY <1>13 DEF Answered, At
  <2>2. call[c].sess \in 1 .. made /\ conn[call[c].sess].located
        BY <1>0, <2>1 DEF CallInv, CallFine, InSession, RouteInv, RoomFine
  <2>3. call'[c].pc = "ended"
        BY <1>0, <2>1, EndTurn DEF Turn
  <2>4. RoomFine(call[c])'
        BY <2>3 DEF RoomFine
  <2> QED
      BY <1>9, <1>13, <2>1, <2>2, <2>4, RouteKept
<1>14. ASSUME NEW c \in Callers, Mild(c), Routed(c) PROVE RouteInv'
  <2>1. /\ call[c].pc = "asking" /\ call[c].kind = "room" /\ End(c)
        /\ UNCHANGED <<conn, made, shown>>
        BY <1>14 DEF Routed, At
  <2>2. call'[c].pc = "ended"
        BY <1>0, <2>1, EndTurn DEF Turn
  <2>3. /\ shown' \subseteq 1 .. made' /\ \A s \in shown' : conn'[s].located
        /\ \A s \in Sessions : conn'[s].known => conn'[s].located
        BY <2>1 DEF RouteInv
  <2>4. \A d \in Callers : RoomFine(call[d])'
        BY <1>9, <1>14, <2>1, <2>2 DEF RouteInv, RoomFine
  <2>5. RoutedWithinSession'
    <3>1. CASE misrouted' = misrouted
          BY <3>1 DEF RouteInv, RoutedWithinSession
    <3>2. CASE /\ ~Conn(c).located
               /\ misrouted' = misrouted \cup {[sess |-> call[c].sess, shown |-> shown]}
      <4>1. call[c].sess \notin shown
            BY <3>2 DEF RouteInv, Conn
      <4>2. PICK s \in shown : s <= call[c].sess
            BY <2>1 DEF RouteInv, RoomFine
      <4>3. s < call[c].sess
        <5>1. s \in Nat /\ call[c].sess \in Nat
              BY <1>0, <2>1 DEF RouteInv, CallInv, CallFine, InSession
        <5> QED
            BY <4>1, <4>2, <5>1
      <4> QED
          BY <3>2, <4>1, <4>3 DEF RouteInv, RoutedWithinSession
    <3> QED
        BY <1>14, <3>1, <3>2 DEF Routed
  <2> QED
      BY <2>3, <2>4, <2>5 DEF RouteInv
<1>15. ASSUME NEW c \in Callers, Mild(c), Routes(c) PROVE RouteInv'
      BY <1>10, <1>11, <1>12, <1>13, <1>14, <1>15 DEF Routes
<1> QED
    BY <1>1, <1>2, <1>3, <1>4, <1>5, <1>6, <1>8, <1>10, <1>15 DEF Steps

-----------------------------------------------------------------------------
(* What the steps do to the texts.                                         *)
LEMMA TimeoutIs ==
    ASSUME Basics, NEW c \in Callers, Timeout(c)
    PROVE  /\ KeepsTexts /\ call'[c].hand = NoText
           /\ \A d \in Callers : d # c => call'[d] = call[d]
           /\ delivered' = delivered
           /\ dropped' = dropped \cup ({call[c].hand} \ {NoText})
<1>0. ShapeOK /\ CallInv /\ call[c].pc \in InSession /\ made' = made
      BY DEF Basics, Timeout, At, InSession
<1>1. Turn(c, {"top", "polling", "ended"}) /\ call'[c].hand = NoText
      BY <1>0, PolledTurn DEF Timeout
<1>2. Conn(c) \in ConnRec
      BY <1>0, ConnIs
<1>3. KeepsTexts
  <2>1. PICK b \in BOOLEAN : SetConn(c, [Conn(c) EXCEPT !.lock = Nobody, !.located = @ \/ b])
        BY DEF Timeout
  <2> QED
      BY <1>0, <1>2, <2>1, LockedRecords, TendedTends
<1> QED
    BY <1>1, <1>3 DEF Timeout, Turn

(* A text that is ready is shown by the stream or kept by the query.       *)
LEMMA ProcessedIs ==
    ASSUME Basics, NEW c \in Callers, Processed(c)
    PROVE  /\ KeepsTexts /\ call[c].hand \in Texts
           /\ \A d \in Callers : d # c => call'[d] = call[d]
           /\ dropped' = dropped
           /\ \/ delivered' = Append(delivered, call[c].hand) /\ call'[c].hand = NoText
              \/ delivered' = delivered /\ call'[c].hand = call[c].hand
<1>0. ShapeOK /\ CallInv /\ call[c].pc = "processing" /\ call[c].pc \in InSession /\ made' = made
      BY DEF Basics, Processed, At, InSession
<1>1. Conn(c) \in ConnRec
      BY <1>0, ConnIs
<1>2. KeepsTexts
  <2> DEFINE b == call[c].hand \in GroupTexts
  <2>1. b \in BOOLEAN /\ SetConn(c, [Conn(c) EXCEPT !.lock = Nobody, !.located = @ \/ b])
        BY DEF Processed
  <2> HIDE DEF b
  <2> QED
      BY <1>0, <1>1, <2>1, LockedRecords, TendedTends
<1>3. CASE c = Stream
  <2>1. Turn(c, {"top", "polling", "ended"}) /\ call'[c].hand = NoText
        BY <1>0, <1>3, PolledTurn DEF Processed
  <2> QED
      BY <1>0, <1>2, <1>3, <2>1 DEF Processed, Turn, CallInv, CallFine
<1>4. CASE c # Stream
  <2>1. Turn(c, {"handing"}) /\ call'[c].hand = call[c].hand
        BY <1>0, <1>4, GotoTurn DEF Processed, PC
  <2> QED
      BY <1>0, <1>2, <1>4, <2>1 DEF Processed, Turn, CallInv, CallFine
<1> QED
    BY <1>3, <1>4

(* A query puts its text at the end of pending.                            *)
LEMMA HandOverIs ==
    ASSUME Basics, NEW c \in Callers, HandOver(c)
    PROVE  /\ call[c].hand \in Texts /\ call'[c].hand = NoText /\ call[c].sess \in Sessions
           /\ \A d \in Callers : d # c => call'[d] = call[d]
           /\ \A s \in Sessions : s # call[c].sess => conn'[s] = conn[s]
           /\ conn'[call[c].sess].pending = Append(Conn(c).pending, call[c].hand)
           /\ conn'[call[c].sess].direct = Conn(c).direct
           /\ conn'[call[c].sess].group = Conn(c).group
           /\ UNCHANGED <<delivered, dropped>>
<1>0. /\ ShapeOK /\ CallInv /\ call[c].pc = "handing" /\ call[c].pc \in InSession
      /\ made' = made /\ call[c].hand \in Texts
      BY DEF Basics, HandOver, At, InSession, CallInv, CallFine
<1>1. Conn(c) \in ConnRec /\ call[c].sess \in Sessions
      BY <1>0, ConnIs
<1>2. Turn(c, {"top", "polling", "ended"}) /\ call'[c].hand = NoText
      BY <1>0, PolledTurn DEF HandOver
<1> DEFINE p == Append(Conn(c).pending, call[c].hand)
           r == [Conn(c) EXCEPT !.pending = p]
<1>3. p \in Seq(Texts) /\ SetConn(c, r)
      BY <1>0, <1>1 DEF ConnRec, HandOver
<1> HIDE DEF p
<1>4. r \in ConnRec /\ r.pending = p /\ r.direct = Conn(c).direct /\ r.group = Conn(c).group
      BY <1>1, <1>3 DEF ConnRec
<1> HIDE DEF r
<1>5. conn'[call[c].sess] = r /\ \A s \in Sessions : s # call[c].sess => conn'[s] = conn[s]
      BY <1>0, <1>3, <1>4, SetConnIs
<1> QED
    BY <1>0, <1>1, <1>2, <1>4, <1>5 DEF HandOver, Turn, p

(* next() shows the first text of pending, or polls.                       *)
LEMMA NextTextIs ==
    ASSUME Basics, NextText
    PROVE  /\ call'[Stream].hand \in {call[Stream].hand, NoText}
           /\ \A d \in Callers : d # Stream => call'[d] = call[d]
           /\ dropped' = dropped
           /\ \/ KeepsTexts /\ delivered' = delivered
              \/ /\ Conn(Stream).pending # <<>> /\ call[Stream].sess \in Sessions
                 /\ \A s \in Sessions : s # call[Stream].sess => conn'[s] = conn[s]
                 /\ conn'[call[Stream].sess].pending = Tail(Conn(Stream).pending)
                 /\ conn'[call[Stream].sess].direct = Conn(Stream).direct
                 /\ conn'[call[Stream].sess].group = Conn(Stream).group
                 /\ delivered' = Append(delivered, Head(Conn(Stream).pending))
<1>0. /\ ShapeOK /\ CallInv /\ call[Stream].pc = "ready" /\ call[Stream].pc \in InSession
      /\ made' = made /\ Stream \in Callers /\ dropped' = dropped
      BY DEF Basics, NextText, At, InSession, Callers
<1>1. Conn(Stream) \in ConnRec /\ call[Stream].sess \in Sessions
      BY <1>0, ConnIs
<1>2. CASE Conn(Stream).pending = <<>>
  <2>1. Turn(Stream, {"polling"}) /\ call'[Stream].hand = call[Stream].hand
        BY <1>0, <1>2, GotoTurn DEF NextText, PC
  <2> QED
      BY <1>0, <1>2, <2>1, UnchangedTends DEF NextText, Turn
<1>3. CASE Conn(Stream).pending # <<>>
  <2>1. Turn(Stream, {"top", "polling", "ended"}) /\ call'[Stream].hand = NoText
        BY <1>0, <1>3, PolledTurn DEF NextText
  <2> DEFINE p == Tail(Conn(Stream).pending)
             r == [Conn(Stream) EXCEPT !.pending = p]
  <2>2. p \in Seq(Texts) /\ SetConn(Stream, r)
        BY <1>1, <1>3 DEF ConnRec, NextText
  <2> HIDE DEF p
  <2>3. /\ r \in ConnRec /\ r.pending = p /\ r.direct = Conn(Stream).direct
        /\ r.group = Conn(Stream).group
        BY <1>1, <2>2 DEF ConnRec
  <2> HIDE DEF r
  <2>4. /\ conn'[call[Stream].sess] = r
        /\ \A s \in Sessions : s # call[Stream].sess => conn'[s] = conn[s]
        BY <1>0, <2>2, <2>3, SetConnIs
  <2> QED
      BY <1>0, <1>1, <1>3, <2>1, <2>3, <2>4 DEF NextText, Turn, p
<1> QED
    BY <1>2, <1>3

-----------------------------------------------------------------------------
(* Sequences without repetition.                                           *)
Distinct(q) == \A i, j \in DOMAIN q : q[i] = q[j] => i = j

(* Append adds its element, and no repetition if it is new.                *)
LEMMA AppendDistinct ==
    ASSUME NEW S, NEW q \in Seq(S), NEW e \in S
    PROVE  /\ ToSet(Append(q, e)) = ToSet(q) \cup {e}
           /\ Distinct(q) /\ e \notin ToSet(q) => Distinct(Append(q, e))
<1> DEFINE n == Len(q)
           a == Append(q, e)
<1>1. /\ n \in Nat /\ DOMAIN q = 1 .. n /\ DOMAIN a = 1 .. n + 1 /\ a[n + 1] = e
      /\ \A i \in 1 .. n : a[i] = q[i] /\ i \in 1 .. n + 1
      /\ \A i \in 1 .. n + 1 : i \in 1 .. n \/ i = n + 1
      BY SMT
<1> HIDE DEF n, a
<1>2. n + 1 \in 1 .. n + 1
      BY <1>1
<1>3. ToSet(a) = ToSet(q) \cup {e}
  <2>1. \A x : x \in ToSet(a) <=> \E i \in 1 .. n + 1 : x = a[i]
        BY <1>1 DEF ToSet
  <2>2. \A x : x \in ToSet(q) <=> \E i \in 1 .. n : x = q[i]
        BY <1>1 DEF ToSet
  <2> QED
      BY <1>1, <1>2, <2>1, <2>2
<1>4. Distinct(q) /\ e \notin ToSet(q) => Distinct(a)
      BY <1>1 DEF Distinct, ToSet
<1> QED
    BY <1>3, <1>4 DEF a

(* Without repetitions, the tail does not have the head.                   *)
LEMMA TailDistinct ==
    ASSUME NEW S, NEW q \in Seq(S), q # <<>>
    PROVE  /\ Head(q) \in ToSet(q) /\ ToSet(Tail(q)) \subseteq ToSet(q)
           /\ Distinct(q) => Distinct(Tail(q)) /\ Head(q) \notin ToSet(Tail(q))
<1> DEFINE n == Len(q)
           a == Tail(q)
<1>1. /\ n \in Nat /\ n # 0 /\ DOMAIN q = 1 .. n /\ DOMAIN a = 1 .. n - 1 /\ Head(q) = q[1]
      /\ \A i \in 1 .. n - 1 : a[i] = q[i + 1] /\ i + 1 \in 1 .. n /\ i + 1 # 1
      /\ \A i, j \in 1 .. n - 1 : i + 1 = j + 1 => i = j
      /\ 1 \in 1 .. n
      BY SMT
<1> DEFINE h == Head(q)
<1> HIDE DEF n, a, h
<1>2. h = q[1]
      BY <1>1 DEF h
<1>3. h \in ToSet(q) /\ ToSet(a) \subseteq ToSet(q)
      BY <1>1, <1>2 DEF ToSet
<1>4. ASSUME Distinct(q) PROVE Distinct(a)
  <2> SUFFICES ASSUME NEW i \in 1 .. n - 1, NEW j \in 1 .. n - 1, a[i] = a[j] PROVE i = j
      BY <1>1 DEF Distinct
  <2>1. q[i + 1] = q[j + 1] /\ i + 1 \in DOMAIN q /\ j + 1 \in DOMAIN q
        BY <1>1
  <2>2. i + 1 = j + 1
        BY <1>4, <2>1 DEF Distinct
  <2> QED
      BY <1>1, <2>2
<1>5. ASSUME Distinct(q) PROVE h \notin ToSet(a)
  <2> SUFFICES ASSUME NEW i \in 1 .. n - 1, a[i] = h PROVE FALSE
      BY <1>1 DEF ToSet
  <2>1. q[i + 1] = q[1] /\ i + 1 \in DOMAIN q /\ 1 \in DOMAIN q /\ i + 1 # 1
        BY <1>1, <1>2
  <2> QED
      BY <1>5, <2>1 DEF Distinct
<1> QED
    BY <1>3, <1>4, <1>5 DEF a, h

(* The empty sequence has no elements.                                     *)
LEMMA EmptyDistinct == ToSet(<<>>) = {} /\ Distinct(<<>>)
BY DEF ToSet, Distinct

-----------------------------------------------------------------------------
(* The places a text can be in: kind k, session or caller i.               *)
PlaceKinds == {"direct", "group", "pending", "hand", "shown", "dropped"}
Indices == Sessions \cup Callers \cup {0}

In(k, i, m) ==
    \/ k = "direct" /\ i \in Sessions /\ m \in ToSet(conn[i].direct)
    \/ k = "group" /\ i \in Sessions /\ m \in ToSet(conn[i].group)
    \/ k = "pending" /\ i \in Sessions /\ m \in ToSet(conn[i].pending)
    \/ k = "hand" /\ i \in Callers /\ call[i].hand = m
    \/ k = "shown" /\ i = 0 /\ m \in ToSet(delivered)
    \/ k = "dropped" /\ i = 0 /\ m \in dropped

OnePlace ==
    \A m \in Texts : \A k, l \in PlaceKinds : \A i, j \in Indices :
        In(k, i, m) /\ In(l, j, m) => k = l /\ i = j
NoRepeats ==
    /\ \A s \in Sessions :
          Distinct(conn[s].direct) /\ Distinct(conn[s].group) /\ Distinct(conn[s].pending)
    /\ Distinct(delivered)
Shown == delivered \in Seq(Texts) /\ dropped \subseteq Texts

(* A text is in one place, and there once.                                 *)
TextInv == OnePlace /\ NoRepeats /\ Shown

(* No text comes to a place, or only t, that has come from another.        *)
StayOrVanish ==
    \A m \in Texts : \A k \in PlaceKinds : \A i \in Indices : In(k, i, m)' => In(k, i, m)
MovesTo(t, q, p) ==
    \A m \in Texts : \A k \in PlaceKinds : \A i \in Indices :
        In(k, i, m)' => (In(k, i, m) /\ m # t) \/ (k = q /\ i = p /\ m = t)

(* A text that leaves a place as it comes to another is in one.            *)
LEMMA MovesKeepOnePlace ==
    ASSUME OnePlace, StayOrVanish \/ \E t, q, p : MovesTo(t, q, p)
    PROVE  OnePlace'
<1> SUFFICES ASSUME NEW m \in Texts, NEW k \in PlaceKinds, NEW l \in PlaceKinds,
                    NEW i \in Indices, NEW j \in Indices, In(k, i, m)', In(l, j, m)'
             PROVE  k = l /\ i = j
    BY DEF OnePlace
<1>1. CASE StayOrVanish
      BY <1>1 DEF StayOrVanish, OnePlace
<1>2. CASE \E t, q, p : MovesTo(t, q, p)
  <2>1. PICK t, q, p : MovesTo(t, q, p)
        BY <1>2
  <2> QED
      BY <2>1 DEF MovesTo, OnePlace
<1> QED
    BY <1>1, <1>2

(* Where nobody takes a text and the sequences are kept, texts stay.       *)
LEMMA StillTexts ==
    ASSUME KeepsTexts, UNCHANGED <<delivered, dropped>>, TextInv,
           \A c \in Callers : call'[c].hand \in {call[c].hand, NoText}
    PROVE  TextInv'
<1>1. NoText \notin Texts
      BY SteamSessionAssumption DEF SteamSessionAssumption
<1>2. StayOrVanish
      BY <1>1 DEF StayOrVanish, In, KeepsTexts
<1>3. NoRepeats' /\ Shown'
      BY DEF NoRepeats, Shown, KeepsTexts, TextInv
<1> QED
    BY <1>2, <1>3, MovesKeepOnePlace DEF TextInv

(* There are no texts.                                                     *)
LEMMA TextInit == Init => TextInv
<1> SUFFICES ASSUME Init PROVE TextInv
    OBVIOUS
<1>1. \A s \in Sessions : conn[s].direct = <<>> /\ conn[s].group = <<>> /\ conn[s].pending = <<>>
      BY DEF Init, NoConn
<1>2. \A c \in Callers : call[c].hand = NoText
      BY DEF Init, NoCall
<1>3. delivered = <<>> /\ dropped = {} /\ NoText \notin Texts
      BY SteamSessionAssumption DEF SteamSessionAssumption, Init
<1> QED
    BY <1>1, <1>2, <1>3, EmptyDistinct DEF TextInv, OnePlace, NoRepeats, Shown, In

(* A text that is nowhere is in no place.                                  *)
LEMMA NowhereIn ==
    ASSUME NEW m \in Texts \ Somewhere, NEW k \in PlaceKinds, NEW i \in Indices
    PROVE  ~In(k, i, m)
<1>1. /\ \A s \in Sessions : /\ m \notin ToSet(conn[s].direct) /\ m \notin ToSet(conn[s].group)
                             /\ m \notin ToSet(conn[s].pending)
      /\ \A c \in Callers : m # call[c].hand
      /\ m \notin ToSet(delivered) /\ m \notin dropped
  <2>1. ASSUME NEW s \in Sessions,
               m \in ToSet(conn[s].direct) \cup ToSet(conn[s].group) \cup ToSet(conn[s].pending)
        PROVE  m \in Somewhere
        BY <2>1 DEF Somewhere
  <2>2. ASSUME NEW c \in Callers, m = call[c].hand
        PROVE  m \in Somewhere
        BY <2>2 DEF Somewhere
  <2>3. m \in ToSet(delivered) \/ m \in dropped => m \in Somewhere
        BY DEF Somewhere
  <2> QED
      BY <2>1, <2>2, <2>3
<1> QED
    BY <1>1 DEF In

(* Pushed: the text was nowhere.                                           *)
LEMMA PushText_Texts ==
    ASSUME Basics, TextInv, PushText
    PROVE  TextInv'
<1> DEFINE s == made
<1>1. PICK m \in Texts \ Somewhere :
          /\ conn'[made].pending = conn[made].pending
          /\ \/ /\ conn'[made].direct = Append(conn[made].direct, m)
                /\ conn'[made].group = conn[made].group
             \/ /\ conn'[made].group = Append(conn[made].group, m)
                /\ conn'[made].direct = conn[made].direct
      BY PushTextIs DEF Basics
<1>2. /\ made \in Sessions /\ UNCHANGED <<call, delivered, dropped>>
      /\ \A t \in Sessions : t # made => conn'[t] = conn[t]
      BY PushTextIs DEF Basics
<1>3. conn[made].direct \in Seq(Texts) /\ conn[made].group \in Seq(Texts)
      BY <1>2 DEF Basics, ShapeOK, ConnRec
<1>4. \A k \in PlaceKinds, i \in Indices : ~In(k, i, m)
      BY NowhereIn
<1>5. m \notin ToSet(conn[made].direct) /\ m \notin ToSet(conn[made].group)
  <2>1. "direct" \in PlaceKinds /\ "group" \in PlaceKinds /\ made \in Indices
        BY <1>2 DEF PlaceKinds, Indices
  <2> QED
      BY <1>2, <1>4, <2>1 DEF In
<1>6. NoRepeats' /\ Shown'
  <2>1. /\ Distinct(conn[made].direct) /\ Distinct(conn[made].group)
        /\ Distinct(conn[made].pending)
        BY <1>2 DEF TextInv, NoRepeats
  <2>2. Distinct(Append(conn[made].direct, m)) /\ Distinct(Append(conn[made].group, m))
        BY <1>3, <1>5, <2>1, AppendDistinct
  <2> QED
      BY <1>1, <1>2, <2>1, <2>2 DEF TextInv, NoRepeats, Shown
<1>7. MovesTo(m, "direct", made) \/ MovesTo(m, "group", made)
  <2>1. CASE /\ conn'[made].direct = Append(conn[made].direct, m)
             /\ conn'[made].group = conn[made].group
    <3>1. ToSet(conn'[made].direct) = ToSet(conn[made].direct) \cup {m}
          BY <1>3, <2>1, AppendDistinct
    <3>2. ASSUME NEW x \in Texts, NEW k \in PlaceKinds, NEW i \in Indices, In(k, i, x)'
          PROVE  (In(k, i, x) /\ x # m) \/ (k = "direct" /\ i = made /\ x = m)
      <4>1. In(k, i, x) \/ (k = "direct" /\ i = made /\ x = m)
            BY <1>1, <1>2, <2>1, <3>1, <3>2 DEF In
      <4> QED
          BY <1>4, <4>1
    <3> QED
        BY <3>2 DEF MovesTo
  <2>2. CASE /\ conn'[made].group = Append(conn[made].group, m)
             /\ conn'[made].direct = conn[made].direct
    <3>1. ToSet(conn'[made].group) = ToSet(conn[made].group) \cup {m}
          BY <1>3, <2>2, AppendDistinct
    <3>2. ASSUME NEW x \in Texts, NEW k \in PlaceKinds, NEW i \in Indices, In(k, i, x)'
          PROVE  (In(k, i, x) /\ x # m) \/ (k = "group" /\ i = made /\ x = m)
      <4>1. In(k, i, x) \/ (k = "group" /\ i = made /\ x = m)
            BY <1>1, <1>2, <2>2, <3>1, <3>2 DEF In
      <4> QED
          BY <1>4, <4>1
    <3> QED
        BY <3>2 DEF MovesTo
  <2> QED
      BY <1>1, <2>1, <2>2
<1> QED
    BY <1>6, <1>7, MovesKeepOnePlace DEF TextInv

(* Taken: out of a queue into a hand.                                      *)
LEMMA TakeText_Texts ==
    ASSUME Basics, TextInv, NEW c \in Callers, TakeText(c)
    PROVE  TextInv'
<1> DEFINE s == call[c].sess
           t == call'[c].hand
<1>1. /\ s \in Sessions /\ UNCHANGED <<delivered, dropped>>
      /\ \A d \in Callers : d # c => call'[d] = call[d]
      /\ \A e \in Sessions : e # s => conn'[e] = conn[e]
      /\ conn'[s].pending = conn[s].pending
      /\ \/ /\ conn[s].direct # <<>> /\ t = Head(conn[s].direct)
            /\ conn'[s].direct = Tail(conn[s].direct)
            /\ conn'[s].group = conn[s].group
         \/ /\ conn[s].group # <<>> /\ t = Head(conn[s].group)
            /\ conn'[s].group = Tail(conn[s].group)
            /\ conn'[s].direct = conn[s].direct
      BY TakeTextIs DEF Basics, Conn
<1>2. conn[s].direct \in Seq(Texts) /\ conn[s].group \in Seq(Texts)
      /\ Distinct(conn[s].direct) /\ Distinct(conn[s].group)
      BY <1>1 DEF Basics, ShapeOK, ConnRec, TextInv, NoRepeats
<1>3. "direct" \in PlaceKinds /\ "group" \in PlaceKinds /\ s \in Indices
      /\ "direct" # "group"
      BY <1>1 DEF PlaceKinds, Indices
<1> HIDE DEF s, t
<1>4. \/ /\ t \in ToSet(conn[s].direct) /\ conn'[s].group = conn[s].group
         /\ ToSet(conn'[s].direct) \subseteq ToSet(conn[s].direct) \ {t}
         /\ Distinct(conn'[s].direct)
      \/ /\ t \in ToSet(conn[s].group) /\ conn'[s].direct = conn[s].direct
         /\ ToSet(conn'[s].group) \subseteq ToSet(conn[s].group) \ {t}
         /\ Distinct(conn'[s].group)
  <2>1. CASE conn[s].direct # <<>> /\ t = Head(conn[s].direct)
             /\ conn'[s].direct = Tail(conn[s].direct) /\ conn'[s].group = conn[s].group
    <3>1. /\ Head(conn[s].direct) \in ToSet(conn[s].direct)
          /\ ToSet(Tail(conn[s].direct)) \subseteq ToSet(conn[s].direct)
          /\ Distinct(Tail(conn[s].direct))
          /\ Head(conn[s].direct) \notin ToSet(Tail(conn[s].direct))
          BY <1>2, <2>1, TailDistinct
    <3> QED
        BY <2>1, <3>1
  <2>2. CASE conn[s].group # <<>> /\ t = Head(conn[s].group)
             /\ conn'[s].group = Tail(conn[s].group) /\ conn'[s].direct = conn[s].direct
    <3>1. /\ Head(conn[s].group) \in ToSet(conn[s].group)
          /\ ToSet(Tail(conn[s].group)) \subseteq ToSet(conn[s].group)
          /\ Distinct(Tail(conn[s].group))
          /\ Head(conn[s].group) \notin ToSet(Tail(conn[s].group))
          BY <1>2, <2>2, TailDistinct
    <3> QED
        BY <2>2, <3>1
  <2> QED
      BY <1>1, <2>1, <2>2
<1>5. NoRepeats' /\ Shown'
  <2>1. Distinct(conn'[s].direct) /\ Distinct(conn'[s].group) /\ Distinct(conn'[s].pending)
        BY <1>1, <1>2, <1>4 DEF TextInv, NoRepeats
  <2> QED
      BY <1>1, <2>1 DEF TextInv, NoRepeats, Shown
<1>6. MovesTo(t, "hand", c)
  <2> SUFFICES ASSUME NEW m \in Texts, NEW k \in PlaceKinds, NEW i \in Indices, In(k, i, m)'
               PROVE  (In(k, i, m) /\ m # t) \/ (k = "hand" /\ i = c /\ m = t)
      BY DEF MovesTo
  <2>1. CASE k = "hand" /\ i = c
        BY <2>1 DEF In, t
  <2>2. CASE ~(k = "hand" /\ i = c)
    <3>1. In(k, i, m)
          BY <1>1, <1>4, <2>2 DEF In
    <3>2. ASSUME m = t PROVE FALSE
      <4>1. In("direct", s, t) \/ In("group", s, t)
            BY <1>1, <1>4 DEF In
      <4>2. (k = "direct" \/ k = "group") /\ i = s
            BY <1>3, <3>1, <3>2, <4>1 DEF OnePlace, TextInv
      <4>3. k = "direct" => In("direct", s, t) /\ t \in ToSet(conn'[s].direct)
            BY <3>1, <3>2, <4>2 DEF In
      <4>4. k = "group" => In("group", s, t) /\ t \in ToSet(conn'[s].group)
            BY <3>1, <3>2, <4>2 DEF In
      <4>5. ~(In("direct", s, t) /\ In("group", s, t))
            BY <1>3, <3>2 DEF OnePlace, TextInv
      <4> QED
          BY <1>1, <1>4, <4>2, <4>3, <4>4, <4>5 DEF In
    <3> QED
        BY <3>1, <3>2
  <2> QED
      BY <2>1, <2>2
<1> QED
    BY <1>5, <1>6, MovesKeepOnePlace DEF TextInv

(* Dropped: out of a hand.                                                 *)
LEMMA Timeout_Texts ==
    ASSUME Basics, TextInv, NEW c \in Callers, Timeout(c)
    PROVE  TextInv'
<1> DEFINE t == call[c].hand
<1>1. /\ KeepsTexts /\ call'[c].hand = NoText
      /\ \A d \in Callers : d # c => call'[d] = call[d]
      /\ delivered' = delivered /\ dropped' = dropped \cup ({t} \ {NoText})
      BY TimeoutIs
<1>2. t \in Texts \cup {NoText} /\ NoText \notin Texts
      BY SteamSessionAssumption DEF SteamSessionAssumption, Basics, ShapeOK, CallRec
<1>3. CASE t = NoText
      BY <1>1, <1>3, StillTexts
<1>4. CASE t \in Texts
  <2>1. NoRepeats' /\ Shown'
        BY <1>1, <1>4 DEF NoRepeats, Shown, KeepsTexts, TextInv
  <2>2. "hand" \in PlaceKinds /\ c \in Indices /\ In("hand", c, t)
        BY DEF PlaceKinds, Indices, In
  <2> HIDE DEF t
  <2>3. ASSUME NEW m \in Texts, NEW k \in PlaceKinds, NEW i \in Indices, In(k, i, m)'
        PROVE  (In(k, i, m) /\ m # t) \/ (k = "dropped" /\ i = 0 /\ m = t)
    <3>1. (In(k, i, m) /\ ~(k = "hand" /\ i = c)) \/ (k = "dropped" /\ i = 0 /\ m = t)
          BY <1>1, <1>2, <2>3 DEF In, KeepsTexts
    <3> QED
        BY <1>4, <2>2, <3>1 DEF OnePlace, TextInv
  <2>4. MovesTo(t, "dropped", 0)
        BY <2>3 DEF MovesTo
  <2> QED
      BY <2>1, <2>4, MovesKeepOnePlace DEF TextInv
<1> QED
    BY <1>2, <1>3, <1>4

(* Ready: shown by the stream, or still in the query's hand.               *)
LEMMA Processed_Texts ==
    ASSUME Basics, TextInv, NEW c \in Callers, Processed(c)
    PROVE  TextInv'
<1> DEFINE t == call[c].hand
<1>1. /\ KeepsTexts /\ t \in Texts /\ dropped' = dropped
      /\ \A d \in Callers : d # c => call'[d] = call[d]
      /\ \/ delivered' = Append(delivered, t) /\ call'[c].hand = NoText
         \/ delivered' = delivered /\ call'[c].hand = t
      BY ProcessedIs
<1>2. CASE delivered' = delivered /\ call'[c].hand = t
      BY <1>1, <1>2, StillTexts
<1>3. CASE delivered' = Append(delivered, t) /\ call'[c].hand = NoText
  <2>1. "hand" \in PlaceKinds /\ "shown" \in PlaceKinds /\ c \in Indices /\ 0 \in Indices
        /\ "hand" # "shown" /\ In("hand", c, t) /\ NoText \notin Texts
        BY SteamSessionAssumption DEF SteamSessionAssumption, PlaceKinds, Indices, In
  <2> HIDE DEF t
  <2>2. t \notin ToSet(delivered)
        BY <1>1, <2>1 DEF OnePlace, TextInv, In
  <2>3. /\ ToSet(delivered') = ToSet(delivered) \cup {t} /\ Distinct(delivered')
        /\ delivered' \in Seq(Texts)
        BY <1>1, <1>3, <2>2, AppendDistinct DEF TextInv, NoRepeats, Shown
  <2>4. NoRepeats' /\ Shown'
        BY <1>1, <2>3 DEF NoRepeats, Shown, KeepsTexts, TextInv
  <2>5. ASSUME NEW m \in Texts, NEW k \in PlaceKinds, NEW i \in Indices, In(k, i, m)'
        PROVE  (In(k, i, m) /\ m # t) \/ (k = "shown" /\ i = 0 /\ m = t)
    <3>1. (In(k, i, m) /\ ~(k = "hand" /\ i = c)) \/ (k = "shown" /\ i = 0 /\ m = t)
          BY <1>1, <1>3, <2>1, <2>3, <2>5 DEF In, KeepsTexts
    <3> QED
        BY <1>1, <2>1, <3>1 DEF OnePlace, TextInv
  <2>6. MovesTo(t, "shown", 0)
        BY <2>5 DEF MovesTo
  <2> QED
      BY <2>4, <2>6, MovesKeepOnePlace DEF TextInv
<1> QED
    BY <1>1, <1>2, <1>3

(* Handed over: out of a query's hand into pending.                        *)
LEMMA HandOver_Texts ==
    ASSUME Basics, TextInv, NEW c \in Callers, HandOver(c)
    PROVE  TextInv'
<1> DEFINE t == call[c].hand
           s == call[c].sess
<1>1. /\ t \in Texts /\ call'[c].hand = NoText /\ s \in Sessions
      /\ \A d \in Callers : d # c => call'[d] = call[d]
      /\ \A e \in Sessions : e # s => conn'[e] = conn[e]
      /\ conn'[s].pending = Append(conn[s].pending, t)
      /\ conn'[s].direct = conn[s].direct /\ conn'[s].group = conn[s].group
      /\ UNCHANGED <<delivered, dropped>>
      BY HandOverIs DEF Conn
<1>2. "hand" \in PlaceKinds /\ "pending" \in PlaceKinds /\ c \in Indices /\ s \in Indices
      /\ "hand" # "pending" /\ In("hand", c, t) /\ NoText \notin Texts
      BY <1>1, SteamSessionAssumption DEF SteamSessionAssumption, PlaceKinds, Indices, In
<1>3. conn[s].pending \in Seq(Texts) /\ Distinct(conn[s].pending)
      BY <1>1 DEF Basics, ShapeOK, ConnRec, TextInv, NoRepeats
<1> HIDE DEF t, s
<1>4. t \notin ToSet(conn[s].pending)
      BY <1>1, <1>2 DEF OnePlace, TextInv, In
<1>5. ToSet(conn'[s].pending) = ToSet(conn[s].pending) \cup {t} /\ Distinct(conn'[s].pending)
      BY <1>1, <1>3, <1>4, AppendDistinct
<1>6. NoRepeats' /\ Shown'
      BY <1>1, <1>5 DEF NoRepeats, Shown, TextInv
<1>7. ASSUME NEW m \in Texts, NEW k \in PlaceKinds, NEW i \in Indices, In(k, i, m)'
      PROVE  (In(k, i, m) /\ m # t) \/ (k = "pending" /\ i = s /\ m = t)
  <2>1. (In(k, i, m) /\ ~(k = "hand" /\ i = c)) \/ (k = "pending" /\ i = s /\ m = t)
    <3>1. CASE i = s /\ k = "pending"
          BY <1>1, <1>5, <1>7, <3>1 DEF In
    <3>2. CASE k = "hand"
          BY <1>1, <1>2, <1>7, <3>2 DEF In
    <3>3. CASE k # "hand" /\ ~(i = s /\ k = "pending")
          BY <1>1, <1>7, <3>3 DEF In
    <3> QED
        BY <3>1, <3>2, <3>3
  <2> QED
      BY <1>1, <1>2, <2>1 DEF OnePlace, TextInv
<1>8. MovesTo(t, "pending", s)
      BY <1>7 DEF MovesTo
<1> QED
    BY <1>6, <1>8, MovesKeepOnePlace DEF TextInv

(* Resolved: out of pending, shown.                                        *)
LEMMA NextText_Texts ==
    ASSUME Basics, TextInv, NextText
    PROVE  TextInv'
<1> DEFINE s == call[Stream].sess
           t == Head(conn[s].pending)
<1>1. /\ call'[Stream].hand \in {call[Stream].hand, NoText} /\ dropped' = dropped
      /\ \A d \in Callers : d # Stream => call'[d] = call[d]
      BY NextTextIs
<1>2. CASE KeepsTexts /\ delivered' = delivered
      BY <1>1, <1>2, StillTexts
<1>3. CASE /\ conn[s].pending # <<>> /\ s \in Sessions
           /\ \A e \in Sessions : e # s => conn'[e] = conn[e]
           /\ conn'[s].pending = Tail(conn[s].pending)
           /\ conn'[s].direct = conn[s].direct /\ conn'[s].group = conn[s].group
           /\ delivered' = Append(delivered, t)
  <2>1. conn[s].pending \in Seq(Texts) /\ Distinct(conn[s].pending)
        BY <1>3 DEF Basics, ShapeOK, ConnRec, TextInv, NoRepeats
  <2>2. /\ t \in ToSet(conn[s].pending) /\ t \in Texts
        /\ ToSet(conn'[s].pending) \subseteq ToSet(conn[s].pending)
        /\ t \notin ToSet(conn'[s].pending) /\ Distinct(conn'[s].pending)
        BY <1>3, <2>1, TailDistinct
  <2>3. /\ "pending" \in PlaceKinds /\ "shown" \in PlaceKinds /\ s \in Indices /\ 0 \in Indices
        /\ "pending" # "shown" /\ In("pending", s, t) /\ NoText \notin Texts
        BY <1>3, <2>2, SteamSessionAssumption
        DEF SteamSessionAssumption, PlaceKinds, Indices, In
  <2> HIDE DEF s, t
  <2>4. t \notin ToSet(delivered)
        BY <2>2, <2>3 DEF OnePlace, TextInv, In
  <2>5. /\ ToSet(delivered') = ToSet(delivered) \cup {t} /\ Distinct(delivered')
        /\ delivered' \in Seq(Texts)
        BY <1>3, <2>2, <2>4, AppendDistinct DEF TextInv, NoRepeats, Shown
  <2>6. NoRepeats' /\ Shown'
        BY <1>1, <1>3, <2>2, <2>5 DEF NoRepeats, Shown, TextInv
  <2>7. ASSUME NEW m \in Texts, NEW k \in PlaceKinds, NEW i \in Indices, In(k, i, m)'
        PROVE  (In(k, i, m) /\ m # t) \/ (k = "shown" /\ i = 0 /\ m = t)
    <3>1. \/ In(k, i, m) /\ ~(k = "pending" /\ i = s /\ m = t)
          \/ k = "shown" /\ i = 0 /\ m = t
          BY <1>1, <1>3, <2>2, <2>3, <2>5, <2>7 DEF In
    <3> QED
        BY <2>2, <2>3, <3>1 DEF OnePlace, TextInv
  <2>8. MovesTo(t, "shown", 0)
        BY <2>7 DEF MovesTo
  <2> QED
      BY <2>6, <2>8, MovesKeepOnePlace DEF TextInv
<1> QED
    BY <1>2, <1>3, NextTextIs DEF Conn

(* Every step leaves the texts where they are, or moves one.               *)
LEMMA TextStep == Basics /\ TextInv /\ Steps => TextInv'
<1> SUFFICES ASSUME Basics, TextInv, Steps PROVE TextInv'
    OBVIOUS
<1>0. ShapeOK /\ CallInv /\ AttemptInv
      BY DEF Basics
<1>1. CASE Quietly
      BY <1>1, StillTexts DEF Quietly, Plain
<1>2. CASE PushText
      BY <1>2, PushText_Texts
<1>3. ASSUME NEW c \in Callers, KeepsTexts, UNCHANGED <<delivered, dropped>>,
             call'[c].hand \in {call[c].hand, NoText},
             \A d \in Callers : d # c => call'[d] = call[d]
      PROVE  TextInv'
  <2>1. \A d \in Callers : call'[d].hand \in {call[d].hand, NoText}
        BY <1>3
  <2> QED
      BY <1>3, <2>1, StillTexts
<1>4. ASSUME NEW c \in Callers, NEW k \in Kinds \ {"none", "next"}, Start(c, k)
      PROVE  TextInv'
  <2>1. /\ KeepsTexts /\ UNCHANGED <<delivered, dropped>> /\ call'[c].hand = call[c].hand
        /\ \A d \in Callers : d # c => call'[d] = call[d]
        BY <1>0, <1>4, StartIs
  <2> QED
      BY <1>3, <2>1
<1>5. ASSUME NEW c \in Callers, Rebuild(c) \/ Refused(c) PROVE TextInv'
  <2>1. KeepsTexts /\ UNCHANGED <<delivered, dropped>> /\ \E pcs : Turn(c, pcs)
        BY <1>0, <1>5, RebuildIs, RefusedIs
  <2> QED
      BY <1>3, <2>1 DEF Turn
<1>6. ASSUME NEW c \in Callers, Mild(c), Plain PROVE TextInv'
      BY <1>3, <1>6 DEF Mild, Plain, Turn
<1>7. ASSUME NEW c \in Callers, Establish(c) PROVE TextInv'
  <2>1. /\ made' \in Sessions /\ UNCHANGED <<delivered, dropped>>
        /\ \A s \in Sessions : s # made' => conn'[s] = conn[s]
        /\ conn'[made'].direct = <<>> /\ conn'[made'].group = <<>>
        /\ conn'[made'].pending = <<>>
        /\ call'[c].hand \in {call[c].hand, NoText}
        /\ \A d \in Callers : d # c => call'[d] = call[d]
        BY <1>0, <1>7, EstablishIs DEF Turn
  <2>2. NoRepeats' /\ Shown'
        BY <2>1, EmptyDistinct DEF NoRepeats, Shown, TextInv
  <2>3. NoText \notin Texts
        BY SteamSessionAssumption DEF SteamSessionAssumption
  <2>4. StayOrVanish
    <3> SUFFICES ASSUME NEW m \in Texts, NEW k \in PlaceKinds, NEW i \in Indices, In(k, i, m)'
                 PROVE  In(k, i, m)
        BY DEF StayOrVanish
    <3>1. CASE k = "hand"
          BY <2>1, <2>3, <3>1 DEF In
    <3>2. CASE k \in {"direct", "group", "pending"}
          BY <2>1, <3>2, EmptyDistinct DEF In
    <3>3. CASE k \in {"shown", "dropped"}
          BY <2>1, <3>3 DEF In
    <3> QED
        BY <3>1, <3>2, <3>3 DEF PlaceKinds
  <2> QED
      BY <2>2, <2>4, MovesKeepOnePlace DEF TextInv
<1> QED
    BY <1>1, <1>2, <1>4, <1>5, <1>6, <1>7, TakeText_Texts, Timeout_Texts, Processed_Texts,
       HandOver_Texts, NextText_Texts
    DEF Steps

-----------------------------------------------------------------------------
(* The rest of TypeOK: what the app holds, lists, and where it was         *)
(* answered wrongly.                                                       *)
RestOK ==
    /\ held \in BOOLEAN /\ listed \in BOOLEAN
    /\ misrouted \subseteq [sess : Sessions, shown : SUBSET Sessions]

(* The app's handle is only ever dropped.                                  *)
LEMMA HeldStep == [Next]_vars => held' \in {held, FALSE}
BY DEF Next, vars, app, PushText, LogOff, SteamStep, DropHandle, Start, QueryStep, CallerStep,
       StreamStep, Reuse, Rebuild, Establish, Refused, Lock, TakeText, TakePush, TakeLogOff,
       Timeout, Processed, HandOver, NoAnswer, Houses, HouseDetails, HouseKnown, Answered,
       Routed, Top, NextText, Wake

(* Every step keeps the types of the app's part.                           *)
LEMMA RestStep ==
    Basics /\ RouteInv /\ RestOK /\ Steps /\ held' \in {held, FALSE} => RestOK'
<1> SUFFICES ASSUME Basics, RouteInv, RestOK, Steps, held' \in {held, FALSE} PROVE RestOK'
    OBVIOUS
<1>0. ShapeOK /\ CallInv /\ AttemptInv
      BY DEF Basics
<1>1. CASE UNCHANGED <<listed, shown, misrouted>>
      BY <1>1 DEF RestOK
<1>2. ASSUME NEW c \in Callers, Routes(c) PROVE RestOK'
  <2>1. CASE Still(c) \/ Reuse(c) \/ Locates(c)
        BY <2>1 DEF RestOK, Still, Reuse, Locates, Houses, HouseDetails, HouseKnown, app
  <2>2. CASE Answered(c)
        BY <2>2 DEF RestOK, Answered
  <2>3. CASE Routed(c)
    <3>1. call[c].sess \in Sessions
          BY <1>0, <2>3, ConnIs DEF Routed, At, InSession
    <3>2. shown \in SUBSET Sessions
          BY SteamSessionAssumption
          DEF SteamSessionAssumption, Basics, ShapeOK, RouteInv, Sessions
    <3> QED
        BY <2>3, <3>1, <3>2 DEF RestOK, Routed
  <2> QED
      BY <1>2, <2>1, <2>2, <2>3 DEF Routes
<1>3. UNCHANGED <<listed, shown, misrouted>> \/ \E c \in Callers : Routes(c)
  <2>1. Quietly => UNCHANGED <<listed, shown, misrouted>>
        BY DEF Quietly
  <2>2. PushText => UNCHANGED <<listed, shown, misrouted>>
        BY <1>0, PushTextIs
  <2>3. ASSUME NEW c \in Callers, NEW k \in Kinds \ {"none", "next"}, Start(c, k)
        PROVE  UNCHANGED <<listed, shown, misrouted>>
        BY <1>0, <2>3, StartIs
  <2>4. ASSUME NEW c \in Callers, TakeText(c) \/ Rebuild(c) \/ Establish(c) \/ Refused(c)
        PROVE  UNCHANGED <<listed, shown, misrouted>>
        BY <1>0, <2>4, TakeTextIs, RebuildIs, EstablishIs, RefusedIs
  <2> QED
      BY <2>1, <2>2, <2>3, <2>4 DEF Steps, Still
<1> QED
    BY <1>1, <1>2, <1>3

-----------------------------------------------------------------------------
IInv == Basics /\ ConnInv /\ RouteInv /\ TextInv /\ RestOK

(* The invariant holds at the start.                                       *)
LEMMA InitInv == Init => IInv
<1> SUFFICES ASSUME Init PROVE IInv
    OBVIOUS
<1>1. RestOK
      BY DEF Init, RestOK
<1> QED
    BY <1>1, BasicsInit, ConnInit, RouteInit, TextInit DEF IInv

(* Every step keeps it.                                                    *)
LEMMA StepInv == IInv /\ [Next]_vars => IInv'
<1> SUFFICES ASSUME IInv, [Next]_vars PROVE IInv'
    OBVIOUS
<1>1. Steps /\ held' \in {held, FALSE}
      BY StepKinds, HeldStep DEF IInv, Basics
<1> QED
    BY <1>1, BasicsStep, ConnStep, RouteStep, TextStep, RestStep DEF IInv

(* The inductive invariant of the session.                                 *)
LEMMA Invariant == Spec => []IInv
<1> QED
    BY InitInv, StepInv, PTL DEF Spec

(* Every variable stays in its type: the newest session is the cached one, *)
(* the friends-list polls and the reconnects stay within their budgets.    *)
THEOREM SteamSessionTypeOK == Spec => []TypeOK
<1>1. IInv => TypeOK
  <2> SUFFICES ASSUME IInv PROVE TypeOK
      OBVIOUS
  <2>1. attempts \in 0 .. MaxAttempts + 1
        BY SteamSessionAssumption DEF SteamSessionAssumption, IInv, Basics, AttemptInv
  <2>2. shown \subseteq Sessions
        BY SteamSessionAssumption
        DEF SteamSessionAssumption, IInv, Basics, ShapeOK, RouteInv, Sessions
  <2> QED
      BY <2>1, <2>2
      DEF IInv, Basics, ShapeOK, ConnInv, TextInv, Shown, RestOK, TypeOK, ConnRec, CallRec
<1> QED
    BY <1>1, Invariant, PTL

(* However callers overlap in connected(), at most one session is alive,   *)
(* only the holder of the mutex logs in, and the one-time code is not used *)
(* again once it has bought a token.                                       *)
THEOREM SteamSessionOneSession == Spec => []OneSession
<1>1. IInv => OneSession
  <2> SUFFICES ASSUME IInv PROVE OneSession
      OBVIOUS
  <2> DEFINE A == {s \in Sessions : conn[s].alive}
  <2>1. A \subseteq {made}
        BY DEF IInv, ConnInv
  <2>2. IsFiniteSet({made}) /\ Cardinality({made}) = 1
        BY FS_Singleton
  <2>3. Cardinality(A) <= Cardinality({made})
        BY <2>1, <2>2, FS_Subset
  <2>4. Cardinality(A) <= 1
        BY <2>2, <2>3
  <2>5. \A c \in Callers : At(c, "establish") => connecting = c /\ (made > 0 => secret = "token")
        BY DEF IInv, ConnInv, At
  <2> QED
      BY <2>4, <2>5 DEF OneSession
<1> QED
    BY <1>1, Invariant, PTL

(* In every session that has shown the room, the first or a later one, it  *)
(* is read, written to and called in its group, however the calls and the  *)
(* replacements of the session interleave.                                 *)
THEOREM SteamSessionRoutedWithinSession == Spec => []RoutedWithinSession
<1>1. IInv => RoutedWithinSession
      BY DEF IInv, RouteInv, RoutedWithinSession
<1> QED
    BY <1>1, Invariant, PTL

(* However queries and the stream take turns at the session's updates, no  *)
(* text is in two places: neither the hand-over through pending nor a      *)
(* timeout nor a new session doubles one or shows it twice.                *)
THEOREM SteamSessionNeverTwice == Spec => []NeverTwice
<1>1. IInv => NeverTwice
  <2> SUFFICES ASSUME IInv, NEW m \in Texts PROVE Cardinality(Places(m)) <= 1
      BY DEF NeverTwice
  <2>0. OnePlace /\ NoRepeats /\ Shown
        BY DEF IInv, TextInv
  <2> DEFINE Slot(p, k, i) == k \in PlaceKinds /\ i \in Indices /\ In(k, i, m)
                              /\ \/ p = <<"queue", i>> /\ k \in {"direct", "group"}
                                 \/ p = <<"pending", i>> /\ k = "pending"
                                 \/ p = <<"hand", i>> /\ k = "hand"
                                 \/ k = "dropped" /\ p = <<"dropped", i>>
                                 \/ /\ k = "shown"
                                    /\ \E j \in DOMAIN delivered :
                                           delivered[j] = m /\ p = <<"shown", j>>
  <2>1. ASSUME NEW p \in Places(m)
        PROVE  \E k, i : Slot(p, k, i)
    <3>1. CASE p \in {<<"queue", s>> : s \in {t \in Sessions :
                        m \in ToSet(conn[t].direct) \cup ToSet(conn[t].group)}}
      <4>1. PICK s \in Sessions : m \in ToSet(conn[s].direct) \cup ToSet(conn[s].group)
                                  /\ p = <<"queue", s>>
            BY <3>1
      <4>2. Slot(p, "direct", s) \/ Slot(p, "group", s)
            BY <4>1 DEF PlaceKinds, Indices, In
      <4> QED
          BY <4>2
    <3>2. CASE p \in {<<"pending", s>> : s \in {t \in Sessions : m \in ToSet(conn[t].pending)}}
      <4>1. PICK s \in Sessions : m \in ToSet(conn[s].pending) /\ p = <<"pending", s>>
            BY <3>2
      <4>2. Slot(p, "pending", s)
            BY <4>1 DEF PlaceKinds, Indices, In
      <4> QED
          BY <4>2
    <3>3. CASE p \in {<<"hand", c>> : c \in {d \in Callers : call[d].hand = m}}
      <4>1. PICK c \in Callers : call[c].hand = m /\ p = <<"hand", c>>
            BY <3>3
      <4>2. Slot(p, "hand", c)
            BY <4>1 DEF PlaceKinds, Indices, In
      <4> QED
          BY <4>2
    <3>4. CASE p \in {<<"shown", i>> : i \in {j \in DOMAIN delivered : delivered[j] = m}}
      <4>1. PICK i \in DOMAIN delivered : delivered[i] = m /\ p = <<"shown", i>>
            BY <3>4
      <4>2. Slot(p, "shown", 0)
            BY <4>1 DEF PlaceKinds, Indices, In, ToSet
      <4> QED
          BY <4>2
    <3>5. CASE p \in {<<"dropped", i>> : i \in {j \in {0} : m \in dropped}}
      <4>1. m \in dropped /\ p = <<"dropped", 0>>
            BY <3>5
      <4>2. Slot(p, "dropped", 0)
            BY <4>1 DEF PlaceKinds, Indices, In
      <4> QED
          BY <4>2
    <3> QED
        BY <3>1, <3>2, <3>3, <3>4, <3>5 DEF Places
  <2>2. ASSUME NEW p \in Places(m), NEW q \in Places(m)
        PROVE  p = q
    <3>1. PICK k, i : Slot(p, k, i)
          BY <2>1
    <3>2. PICK l, j : Slot(q, l, j)
          BY <2>1
    <3>3. k = l /\ i = j
          BY <2>0, <3>1, <3>2 DEF OnePlace
    <3>4. CASE k # "shown"
          BY <3>1, <3>2, <3>3, <3>4
    <3>5. CASE k = "shown"
          BY <2>0, <3>1, <3>2, <3>3, <3>5 DEF NoRepeats, Distinct
    <3> QED
        BY <3>4, <3>5
  <2>3. CASE Places(m) = {}
        BY <2>3, FS_EmptySet
  <2>4. CASE Places(m) # {}
    <3>1. PICK p \in Places(m) : TRUE
          BY <2>4
    <3>2. Places(m) = {p}
          BY <2>2, <3>1
    <3> QED
        BY <3>2, FS_Singleton
  <2> QED
      BY <2>3, <2>4
<1> QED
    BY <1>1, Invariant, PTL
=============================================================================
