-------------------------- MODULE VoiceRosterProofs --------------------------
(***************************************************************************)
(* Proofs about VoiceRoster.tla, for any users, channels, fetches and      *)
(* calls: the adapter's roster follows the server.                         *)
(***************************************************************************)
EXTENDS VoiceRoster, FiniteSetTheorems, TLAPS

-----------------------------------------------------------------------------
(* The part of TypeOK the roster depends on.                               *)
AdapterOK ==
    /\ where \in [Users -> Places]
    /\ states \in [Users -> Places]
    /\ roster \in [Channels -> SUBSET Users]
    /\ handling \subseteq Futures
    /\ cut \subseteq Users

RosterInv == \A c \in Channels : \A u \in roster[c] : states[u] = c

(* A suspended handler brings what both maps of the adapter and the server *)
(* say already: nobody handles another event of its user meanwhile.        *)
HandlingInv ==
    \A h \in handling : states[h.user] = h.room /\ where[h.user] = h.room

(* Who was not cut is listed, or about to be.                              *)
CutInv ==
    \A u \in Users \ cut :
        /\ states[u] = where[u]
        /\ \A c \in Channels :
             where[u] = c => u \in roster[c] \/ [user |-> u, room |-> c] \in handling

IInv == AdapterOK /\ RosterInv /\ HandlingInv /\ CutInv

(* Before the first event nobody is anywhere.                              *)
LEMMA InitInv == Init => IInv
BY VoiceRosterAssumption
DEF Init, IInv, AdapterOK, RosterInv, HandlingInv, CutInv, Places, Futures

(* A future is determined by its user and its room.                        *)
LEMMA FutureFields ==
    ASSUME NEW h \in Futures
    PROVE  /\ h.user \in Users /\ h.room \in Channels
           /\ h = [user |-> h.user, room |-> h.room]
BY DEF Futures

(* evict_voice_participant takes out one user, and puts nobody in.         *)
LEMMA EvictLemma ==
    ASSUME IInv, NEW u \in Users, NEW r \in Places
    PROVE  /\ Evict(u, r) \in [Channels -> SUBSET Users]
           /\ \A c \in Channels : \A v \in Users \ {u} :
                v \in Evict(u, r)[c] <=> v \in roster[c]
           /\ \A c \in Channels : u \in Evict(u, r)[c] <=> u \in roster[c] /\ c = r
BY VoiceRosterAssumption DEF Evict, IInv, AdapterOK, RosterInv, Places

(* A leave clears the roster before its handler returns.                   *)
LEMMA LeaveInv ==
    ASSUME IInv, NEW u \in Users, VoiceStateUpdate(u, Nowhere)
    PROVE  IInv'
<1> Nowhere \in Places /\ Nowhere \notin Channels
  BY VoiceRosterAssumption DEF Places
<1> USE DEF IInv
<1>1. /\ handling = {} /\ handling' = {}
      /\ where' = [where EXCEPT ![u] = Nowhere]
      /\ states' = [states EXCEPT ![u] = Nowhere]
      /\ roster' = Evict(u, Nowhere)
      /\ cut' = cut \ {u}
  BY DEF VoiceStateUpdate, Leave, Join, ForcePush
<1>2. AdapterOK'
  BY <1>1, EvictLemma DEF AdapterOK, Futures
<1>3. RosterInv'
  BY <1>1, <1>2, EvictLemma DEF AdapterOK, RosterInv
<1>4. HandlingInv'
  BY <1>1 DEF HandlingInv
<1>5. CutInv'
  BY <1>1, EvictLemma DEF AdapterOK, CutInv
<1>6. QED
  BY <1>2, <1>3, <1>4, <1>5

(* A join lists the user later, in the handler's future, or at once.       *)
LEMMA JoinInv ==
    ASSUME IInv, NEW u \in Users, NEW r \in Channels, VoiceStateUpdate(u, r)
    PROVE  IInv'
<1> r \in Places /\ r # Nowhere
  BY VoiceRosterAssumption DEF Places
<1> USE DEF IInv
<1> DEFINE h == [user |-> u, room |-> r]
<1>1. /\ handling = {}
      /\ where' = [where EXCEPT ![u] = r]
      /\ states' = [states EXCEPT ![u] = r]
      /\ roster' = Evict(u, r)
      /\ \/ handling' = {h} /\ cut' = cut
         \/ handling' = handling /\ cut' = IF u \in roster[r] THEN cut ELSE cut \cup {u}
  BY DEF VoiceStateUpdate, Leave, Join, history
<1>2. h \in Futures /\ h.user = u /\ h.room = r
  BY DEF Futures
<1>3. AdapterOK'
  BY <1>1, <1>2, EvictLemma DEF AdapterOK
<1>4. RosterInv'
  BY <1>1, <1>3, EvictLemma DEF AdapterOK, RosterInv
<1>5. HandlingInv'
  BY <1>1, <1>2 DEF HandlingInv, AdapterOK
<1>6. CutInv'
  <2> SUFFICES ASSUME NEW v \in Users, v \notin cut'
               PROVE  /\ states'[v] = where'[v]
                      /\ \A c \in Channels : where'[v] = c =>
                           v \in roster'[c] \/ [user |-> v, room |-> c] \in handling'
    BY DEF CutInv
  <2>1. CASE v = u
    BY <1>1, <2>1, EvictLemma DEF AdapterOK
  <2>2. CASE v # u
    BY <1>1, <2>2, EvictLemma DEF AdapterOK, CutInv
  <2>3. QED
    BY <2>1, <2>2
<1>7. QED
  BY <1>3, <1>4, <1>5, <1>6

(* READY rebuilds the roster from its guilds' voice states.                *)
LEMMA ReadyInv ==
    ASSUME IInv, NEW now \in [Users -> Places],
           NEW known \in SUBSET {u \in Users : now[u] # Nowhere}, Ready(now, known)
    PROVE  IInv'
<1> USE DEF IInv
<1>1. AdapterOK'
  BY DEF Ready, AdapterOK, Wiped
<1>2. RosterInv'
  BY DEF Ready, RosterInv, Wiped
<1>3. HandlingInv'
  BY DEF Ready, HandlingInv
<1>4. CutInv'
  BY VoiceRosterAssumption DEF Ready, CutInv
<1>5. QED
  BY <1>1, <1>2, <1>3, <1>4

(* A READY that cannot be read leaves the roster wiped.                    *)
LEMMA ReadyUnreadableInv ==
    ASSUME IInv, NEW now \in [Users -> Places], ReadyUnreadable(now)
    PROVE  IInv'
<1> USE VoiceRosterAssumption DEF IInv, ReadyUnreadable
<1>1. AdapterOK'
  BY DEF AdapterOK, Wiped, Places
<1>2. RosterInv' /\ HandlingInv'
  BY DEF RosterInv, HandlingInv, Wiped
<1>3. CutInv'
  BY DEF CutInv
<1>4. QED
  BY <1>1, <1>2, <1>3

(* A handler's future that completes lists its user in its room.           *)
LEMMA CompleteInv ==
    ASSUME IInv, NEW h \in handling, Complete(h)
    PROVE  IInv'
<1> USE DEF IInv
<1>1. /\ handling' = handling \ {h}
      /\ roster' = [roster EXCEPT ![h.room] = @ \cup {h.user}]
      /\ cut' = cut \ {h.user}
      /\ UNCHANGED <<where, states>>
  BY DEF Complete, ForcePush, server
<1>2. h.user \in Users /\ h.room \in Channels /\ h \in Futures
  BY FutureFields DEF AdapterOK
<1>3. states[h.user] = h.room /\ where[h.user] = h.room
  BY DEF HandlingInv
<1>4. AdapterOK'
  BY <1>1, <1>2 DEF AdapterOK
<1>5. RosterInv'
  BY <1>1, <1>2, <1>3 DEF RosterInv, AdapterOK
<1>6. HandlingInv'
  BY <1>1 DEF HandlingInv
<1>7. CutInv'
  <2> SUFFICES ASSUME NEW u \in Users, u \notin cut'
               PROVE  /\ states[u] = where[u]
                      /\ \A c \in Channels : where[u] = c =>
                           u \in roster'[c] \/ [user |-> u, room |-> c] \in handling'
    BY <1>1 DEF CutInv
  <2>1. CASE u = h.user
    BY <1>1, <1>2, <1>3, <2>1 DEF AdapterOK
  <2>2. CASE u # h.user
    <3>1. u \notin cut
      BY <1>1, <2>2
    <3>2. \A c \in Channels : [user |-> u, room |-> c] # h
      BY <2>2
    <3>3. QED
      BY <1>1, <1>2, <3>1, <3>2 DEF CutInv, AdapterOK
  <2>3. QED
    BY <2>1, <2>2
<1>8. QED
  BY <1>4, <1>5, <1>6, <1>7

(* Dropped with the poll, the futures leave their users unlisted.          *)
LEMMA CancelInv ==
    ASSUME IInv, Cancel
    PROVE  IInv'
<1> USE DEF IInv
<1>1. /\ handling' = {}
      /\ cut' = cut \cup {h.user : h \in {h \in handling : h.user \notin roster[h.room]}}
      /\ UNCHANGED <<where, states, roster>>
  BY DEF Cancel, server
<1>2. AdapterOK'
  BY <1>1 DEF AdapterOK, Futures
<1>3. RosterInv' /\ HandlingInv'
  BY <1>1 DEF RosterInv, HandlingInv
<1>4. CutInv'
  <2> SUFFICES ASSUME NEW u \in Users, u \notin cut', NEW c \in Channels, where[u] = c
               PROVE  u \in roster[c]
    BY <1>1 DEF CutInv
  <2> DEFINE h == [user |-> u, room |-> c]
  <2>1. u \in roster[c] \/ h \in handling
    BY <1>1 DEF CutInv
  <2>2. CASE h \in handling
    <3>1. h.user \in roster[h.room]
      BY <1>1, <2>2
    <3>2. QED
      BY <3>1
  <2>3. QED
    BY <2>1, <2>2
<1>5. QED
  BY <1>2, <1>3, <1>4

(* Nothing else touches the adapter's maps.                                *)
LEMMA ElsewhereInv ==
    ASSUME IInv, UNCHANGED <<where, states, roster, handling, cut>>
    PROVE  IInv'
BY DEF IInv, AdapterOK, RosterInv, HandlingInv, CutInv

(* Every step keeps the invariant of the adapter's half.                   *)
LEMMA NextInv == IInv /\ [Next]_vars => IInv'
<1> SUFFICES ASSUME IInv, [Next]_vars PROVE IInv'
  OBVIOUS
<1>1. CASE Dispatch
  <2>1. ASSUME NEW u \in Users, NEW r \in Places, VoiceStateUpdate(u, r) PROVE IInv'
    BY <2>1, LeaveInv, JoinInv DEF Places
  <2>2. ASSUME NEW now \in [Users -> Places],
               NEW known \in SUBSET {u \in Users : now[u] # Nowhere}, Ready(now, known)
        PROVE  IInv'
    BY <2>2, ReadyInv
  <2>3. ASSUME NEW now \in [Users -> Places], ReadyUnreadable(now) PROVE IInv'
    BY <2>3, ReadyUnreadableInv
  <2>4. ASSUME NEW h \in handling, Complete(h) PROVE IInv'
    BY <2>4, CompleteInv
  <2>5. QED
    BY <1>1, <2>1, <2>2, <2>3, <2>4, CancelInv DEF Dispatch
<1>2. CASE Fetch
  BY <1>2, ElsewhereInv
  DEF Fetch, GetGuild, GetGuildFails, RestFails, GuildRoomsLoaded, Seed, server, adapter, history
<1>3. CASE Call
  BY <1>3, ElsewhereInv DEF Call, PushCall, Dial, HangUp, server, adapter, history
<1>4. CASE Consume
  BY <1>4, ElsewhereInv DEF Consume, server
<1>5. CASE UNCHANGED vars
  BY <1>5, ElsewhereInv DEF vars, server, adapter, history
<1>6. QED
  BY <1>1, <1>2, <1>3, <1>4, <1>5 DEF Next

(* The inductive invariant of the adapter's half.                          *)
LEMMA VoiceRosterInvariant == Spec => []IInv
BY InitInv, NextInv, PTL DEF Spec

(* The roster never shows anybody where voice_states does not have them,   *)
(* and between two dispatches everybody is listed where they are, except   *)
(* those whose handler was dropped or had no member data (voice_state.rs,  *)
(* the Ready handler in general/events.rs).                                *)
THEOREM VoiceRosterFollows == Spec => []RosterFollows
<1>1. IInv => RosterFollows
  BY DEF IInv, AdapterOK, RosterInv, CutInv, RosterFollows
<1>2. QED
  BY <1>1, VoiceRosterInvariant, PTL

-----------------------------------------------------------------------------
(* The rest of TypeOK: what the queue, the fetches, the rooms and the calls*)
(* keep.                                                                   *)
QueueOK == queue \in Seq(Events) /\ Len(queue) <= QueueCap
FetchOK ==
    /\ fpc \in [Fetches -> {"idle", "reading", "read"}]
    /\ rooms \in [Fetches -> RoomLists]
    /\ opened \in BOOLEAN
    /\ view \in RoomLists
CallsOK ==
    /\ cpc \in [Calls -> {"idle", "dialing", "open"}]
    /\ croom \in [Calls -> Places]
    /\ cusers \in [Calls -> SUBSET Users]
    /\ \A k \in Calls : cpc[k] # "idle" => croom[k] \in Channels
HistoryOK ==
    /\ missed \subseteq Users /\ deaf \in [Calls -> SUBSET Users] /\ joined \subseteq Calls

RestOK == changes \in 0 .. MaxChanges /\ QueueOK /\ FetchOK /\ CallsOK /\ HistoryOK

(* The last event of the user in q has the user in r.                      *)
Latest(q, u, r) ==
    \E i \in DOMAIN q :
        /\ q[i].user = u /\ q[i].room = r
        /\ \A j \in DOMAIN q : j > i => q[j].user # u

(* An event names a user and a place.                                      *)
LEMMA EventFields ==
    ASSUME NEW e \in Events
    PROVE  e.user \in Users /\ e.room \in Places
BY DEF Events

(* What is taken from the front was the last event of its user, or tells   *)
(* nothing that the rest does not.                                         *)
LEMMA TailEvents ==
    ASSUME NEW q \in Seq(Events), q # <<>>
    PROVE  /\ Tail(q) \in Seq(Events) /\ Len(Tail(q)) = Len(q) - 1
           /\ Head(q) \in Events
           /\ UsersOf(q) = UsersOf(Tail(q)) \cup {Head(q).user}
           /\ \A u \in UsersOf(Tail(q)) : \A r : Latest(q, u, r) => Latest(Tail(q), u, r)
           /\ \A u : u \notin UsersOf(Tail(q)) => \A r : Latest(q, u, r) =>
                 Head(q).user = u /\ Head(q).room = r
<1> DEFINE t == Tail(q)
<1>1. t \in Seq(Events) /\ Len(t) = Len(q) - 1 /\ Head(q) = q[1] /\ Head(q) \in Events
      OBVIOUS
<1>2. Len(q) \in Nat /\ Len(q) > 0 /\ DOMAIN q = 1 .. Len(q) /\ DOMAIN t = 1 .. Len(q) - 1
      BY <1>1
<1>3. \A i \in DOMAIN t : t[i] = q[i + 1] /\ i + 1 \in DOMAIN q
      BY <1>1, <1>2
<1>4. \A i \in DOMAIN q : i # 1 => i - 1 \in DOMAIN t /\ t[i - 1] = q[i]
      BY <1>2, <1>3
<1>5. UsersOf(q) = UsersOf(t) \cup {Head(q).user}
  <2>1. ASSUME NEW u \in UsersOf(q)
        PROVE  u \in UsersOf(t) \cup {Head(q).user}
    <3>1. PICK i \in DOMAIN q : u = q[i].user
          BY <2>1 DEF UsersOf
    <3> QED
        BY <1>1, <1>4, <3>1 DEF UsersOf
  <2>2. Head(q).user \in UsersOf(q)
        BY <1>1, <1>2 DEF UsersOf
  <2>3. UsersOf(t) \subseteq UsersOf(q)
        BY <1>3 DEF UsersOf
  <2> QED
      BY <2>1, <2>2, <2>3
<1>6. ASSUME NEW u, NEW r, Latest(q, u, r), u \in UsersOf(t)
      PROVE  Latest(t, u, r)
  <2>1. PICK i \in DOMAIN q :
            /\ q[i].user = u /\ q[i].room = r
            /\ \A j \in DOMAIN q : j > i => q[j].user # u
        BY <1>6 DEF Latest
  <2>2. PICK j \in DOMAIN t : t[j].user = u
        BY <1>6 DEF UsersOf
  <2>3. i # 1
        BY <1>2, <1>3, <2>1, <2>2
  <2>4. i - 1 \in DOMAIN t /\ t[i - 1] = q[i]
        BY <1>4, <2>3
  <2>5. \A k \in DOMAIN t : k > i - 1 => t[k].user # u
        BY <1>2, <1>3, <2>1
  <2> QED
      BY <2>1, <2>4, <2>5 DEF Latest
<1>7. ASSUME NEW u, NEW r, Latest(q, u, r), u \notin UsersOf(t)
      PROVE  Head(q).user = u /\ Head(q).room = r
  <2>1. PICK i \in DOMAIN q : q[i].user = u /\ q[i].room = r
        BY <1>7 DEF Latest
  <2>2. i = 1
        BY <1>4, <1>7, <2>1 DEF UsersOf
  <2> QED
      BY <1>1, <2>1, <2>2
<1> QED
    BY <1>1, <1>5, <1>6, <1>7

(* What is appended is the last event of its user.                         *)
LEMMA AppendEvents ==
    ASSUME NEW q \in Seq(Events), NEW e \in Events
    PROVE  /\ Append(q, e) \in Seq(Events) /\ Len(Append(q, e)) = Len(q) + 1
           /\ UsersOf(Append(q, e)) = UsersOf(q) \cup {e.user}
           /\ Latest(Append(q, e), e.user, e.room)
           /\ \A u : u # e.user => \A r : Latest(q, u, r) => Latest(Append(q, e), u, r)
<1> DEFINE a == Append(q, e)
           n == Len(q) + 1
<1>1. /\ a \in Seq(Events) /\ Len(a) = n /\ Len(q) \in Nat
      /\ DOMAIN a = 1 .. n /\ DOMAIN q = 1 .. Len(q)
      /\ a[n] = e /\ \A i \in DOMAIN q : a[i] = q[i]
      OBVIOUS
<1> HIDE DEF a
<1>2. UsersOf(a) = UsersOf(q) \cup {e.user}
  <2>1. n \in DOMAIN a /\ \A i \in DOMAIN a : i = n \/ i \in DOMAIN q
        BY <1>1
  <2>2. \A i \in DOMAIN q : i \in DOMAIN a
        BY <1>1
  <2>3. ASSUME NEW u \in UsersOf(a)
        PROVE  u \in UsersOf(q) \cup {e.user}
        BY <1>1, <2>1, <2>3 DEF UsersOf
  <2>4. e.user \in UsersOf(a) /\ UsersOf(q) \subseteq UsersOf(a)
        BY <1>1, <2>1, <2>2 DEF UsersOf
  <2> QED
      BY <2>3, <2>4
<1>3. Latest(a, e.user, e.room)
      BY <1>1 DEF Latest
<1>4. ASSUME NEW u, NEW r, u # e.user, Latest(q, u, r)
      PROVE  Latest(a, u, r)
  <2>1. PICK i \in DOMAIN q :
            /\ q[i].user = u /\ q[i].room = r
            /\ \A j \in DOMAIN q : j > i => q[j].user # u
        BY <1>4 DEF Latest
  <2>2. i \in DOMAIN a /\ a[i] = q[i]
        BY <1>1
  <2>3. \A j \in DOMAIN a : j > i => a[j].user # u
        BY <1>1, <1>4, <2>1
  <2> QED
      BY <2>1, <2>2, <2>3 DEF Latest
<1> QED
    BY <1>1, <1>2, <1>3, <1>4 DEF a

(* force_push makes e the last event of its user; the others keep theirs,  *)
(* or the user is marked as missed.                                        *)
LEMMA PushEffect ==
    ASSUME QueueOK, HistoryOK, NEW e \in Events, ForcePush(e)
    PROVE  /\ QueueOK' /\ missed' \subseteq Users /\ deaf' \in [Calls -> SUBSET Users]
           /\ e.user \in UsersOf(queue') /\ Latest(queue', e.user, e.room)
           /\ \A u \in Users : u # e.user /\ u \notin missed' =>
                 /\ u \notin missed
                 /\ u \in UsersOf(queue') <=> u \in UsersOf(queue)
                 /\ \A r : Latest(queue, u, r) => Latest(queue', u, r)
                 /\ \A k \in Calls : u \in deaf'[k] <=> u \in deaf[k]
<1> DEFINE full == Len(queue) = QueueCap
           q == IF full THEN Tail(queue) ELSE queue
           kept == Append(q, e)
           lost == IF full THEN {Head(queue).user} \ UsersOf(kept) ELSE {}
<1>0. queue \in Seq(Events) /\ Len(queue) \in Nat /\ Len(queue) <= QueueCap
      /\ QueueCap \in Nat /\ QueueCap > 0
      BY VoiceRosterAssumption DEF QueueOK
<1>1. queue' = kept /\ missed' = (missed \cup lost) \ {e.user}
      /\ deaf' = [k \in Calls |-> deaf[k] \ {e.user}]
      BY DEF ForcePush
<1>2. deaf' \in [Calls -> SUBSET Users]
      /\ \A u : u # e.user => \A k \in Calls : u \in deaf'[k] <=> u \in deaf[k]
      BY <1>1 DEF HistoryOK
<1>3. CASE ~full
  <2>1. q = queue /\ lost = {} /\ Len(queue) + 1 <= QueueCap
        BY <1>0, <1>3
  <2>2. /\ kept \in Seq(Events) /\ Len(kept) = Len(queue) + 1
        /\ UsersOf(kept) = UsersOf(queue) \cup {e.user}
        /\ Latest(kept, e.user, e.room)
        /\ \A u : u # e.user => \A r : Latest(queue, u, r) => Latest(kept, u, r)
        BY <1>0, <2>1, AppendEvents
  <2>3. QueueOK'
        BY <1>1, <2>1, <2>2 DEF QueueOK
  <2>4. missed' \subseteq Users /\ \A u : u # e.user /\ u \notin missed' => u \notin missed
        BY <1>1, <2>1 DEF HistoryOK
  <2> HIDE DEF kept, lost, q, full
  <2> QED
      BY <1>1, <1>2, <2>2, <2>3, <2>4
<1>4. CASE full
  <2>1. q = Tail(queue) /\ lost = {Head(queue).user} \ UsersOf(kept) /\ queue # <<>>
        BY <1>0, <1>4
  <2>2. /\ q \in Seq(Events) /\ Len(q) = Len(queue) - 1 /\ Head(queue) \in Events
        /\ UsersOf(queue) = UsersOf(q) \cup {Head(queue).user}
        /\ \A u \in UsersOf(q) : \A r : Latest(queue, u, r) => Latest(q, u, r)
        /\ \A u : u \notin UsersOf(q) => \A r : Latest(queue, u, r) => Head(queue).user = u
        BY <1>0, <2>1, TailEvents
  <2>3. /\ kept \in Seq(Events) /\ Len(kept) = Len(q) + 1
        /\ UsersOf(kept) = UsersOf(q) \cup {e.user}
        /\ Latest(kept, e.user, e.room)
        /\ \A u : u # e.user => \A r : Latest(q, u, r) => Latest(kept, u, r)
        BY <2>2, AppendEvents
  <2>4. Head(queue).user \in Users
        BY <2>2, EventFields
  <2> HIDE DEF kept, q, full
  <2>5. QueueOK'
        BY <1>0, <1>1, <2>2, <2>3 DEF QueueOK
  <2>6. missed' \subseteq Users
        BY <1>1, <2>1, <2>4 DEF HistoryOK
  <2>7. ASSUME NEW u \in Users, u # e.user, u \notin missed'
        PROVE  /\ u \notin missed
               /\ u \in UsersOf(queue') <=> u \in UsersOf(queue)
               /\ \A r : Latest(queue, u, r) => Latest(queue', u, r)
    <3>1. u \notin missed /\ u \notin lost
          BY <1>1, <2>7
    <3>2. u = Head(queue).user => u \in UsersOf(q)
          BY <2>1, <2>3, <2>7, <3>1
    <3> HIDE DEF lost
    <3>3. u \in UsersOf(queue') <=> u \in UsersOf(queue)
          BY <1>1, <2>2, <2>3, <2>7, <3>2
    <3>4. ASSUME NEW r, Latest(queue, u, r)
          PROVE  Latest(queue', u, r)
      <4>1. u \in UsersOf(q)
            BY <2>2, <3>2, <3>4
      <4> QED
          BY <1>1, <2>2, <2>3, <2>7, <3>4, <4>1
    <3> QED
        BY <3>1, <3>3, <3>4
  <2> QED
      BY <1>1, <1>2, <2>3, <2>5, <2>6, <2>7
<1> QED
    BY <1>3, <1>4

-----------------------------------------------------------------------------
(* Lists of rooms: what keeps the channels of one, or adds one.            *)
LEMMA RoomListFields ==
    ASSUME NEW list \in RoomLists
    PROVE  DOMAIN list \subseteq Channels /\ list \in [DOMAIN list -> SUBSET Users]
BY DEF RoomLists

(* A function from channels to users is a list of rooms.                   *)
LEMMA RoomListIs ==
    ASSUME NEW C \in SUBSET Channels, NEW list \in [C -> SUBSET Users]
    PROVE  list \in RoomLists
BY DEF RoomLists

(* There is an empty one.                                                  *)
LEMMA NoRoomsIs == NoRooms \in RoomLists /\ DOMAIN NoRooms = {}
<1>1. NoRooms \in [{} -> SUBSET Users]
      BY DEF NoRooms
<1> QED
    BY <1>1, RoomListIs DEF NoRooms

(* Taking a user out of all rooms, and putting one into a room, is what it *)
(* says.                                                                   *)
LEMMA WithoutIs ==
    ASSUME NEW list \in RoomLists, NEW u \in Users
    PROVE  /\ Without(list, u) \in RoomLists
           /\ DOMAIN Without(list, u) = DOMAIN list
           /\ \A c \in DOMAIN list : Without(list, u)[c] = list[c] \ {u}
<1>1. Without(list, u) \in [DOMAIN list -> SUBSET Users]
      BY RoomListFields DEF Without
<1> QED
    BY <1>1, RoomListFields, RoomListIs DEF Without

(* With adds a user to one room of a list and keeps the others.            *)
LEMMA WithIs ==
    ASSUME NEW list \in RoomLists, NEW u \in Users, NEW r
    PROVE  /\ With(list, u, r) \in RoomLists
           /\ DOMAIN With(list, u, r) = DOMAIN list
           /\ \A c \in DOMAIN list :
                 With(list, u, r)[c] = IF c = r THEN list[c] \cup {u} ELSE list[c]
<1>1. With(list, u, r) \in [DOMAIN list -> SUBSET Users]
      BY RoomListFields DEF With
<1> QED
    BY <1>1, RoomListFields, RoomListIs DEF With

(* Seed adds the roster of one channel.                                    *)
LEMMA SeedIs ==
    ASSUME AdapterOK, FetchOK, NEW f \in Fetches, NEW c \in Channels, Seed(f, c)
    PROVE  /\ rooms' \in [Fetches -> RoomLists]
           /\ DOMAIN rooms'[f] = DOMAIN rooms[f] \cup {c}
           /\ rooms'[f][c] = roster[c]
           /\ \A d \in DOMAIN rooms[f] : rooms'[f][d] = rooms[f][d]
           /\ \A g \in Fetches \ {f} : rooms'[g] = rooms[g]
<1> DEFINE old == rooms[f]
           new == [d \in DOMAIN old \cup {c} |-> IF d = c THEN roster[c] ELSE old[d]]
<1>1. old \in RoomLists
      BY DEF FetchOK
<1>2. DOMAIN old \subseteq Channels /\ old \in [DOMAIN old -> SUBSET Users]
      BY <1>1, RoomListFields
<1>3. new \in [DOMAIN old \cup {c} -> SUBSET Users]
      BY <1>2 DEF AdapterOK
<1>4. new \in RoomLists
      BY <1>2, <1>3, RoomListIs
<1>5. rooms' = [rooms EXCEPT ![f] = new] /\ c \notin DOMAIN old
      BY DEF Seed
<1>6. DOMAIN new = DOMAIN old \cup {c} /\ new[c] = roster[c]
      /\ \A d \in DOMAIN old : d # c => new[d] = old[d]
      OBVIOUS
<1> HIDE DEF new
<1>7. rooms' \in [Fetches -> RoomLists] /\ rooms'[f] = new
      /\ \A g \in Fetches \ {f} : rooms'[g] = rooms[g]
      BY <1>4, <1>5 DEF FetchOK
<1> QED
    BY <1>5, <1>6, <1>7

(* What process_voice_event does to the rooms and the calls.               *)
LEMMA JoinedIs ==
    ASSUME FetchOK, CallsOK, NEW u \in Users, NEW r \in Channels, ParticipantJoined(u, r)
    PROVE  /\ view' \in RoomLists /\ DOMAIN view' = DOMAIN view
           /\ \A c \in DOMAIN view : \A v \in Users :
                 v \in view'[c] <=> IF v = u THEN c = r ELSE v \in view[c]
           /\ UNCHANGED <<cpc, croom>> /\ CallsOK'
           /\ \A k \in Calls : \A v \in Users :
                 v \in cusers'[k] <=>
                    IF v = u /\ cpc[k] = "open" THEN croom[k] = r ELSE v \in cusers[k]
<1>1. view \in RoomLists
      BY DEF FetchOK
<1>2. /\ view' \in RoomLists /\ DOMAIN view' = DOMAIN view
      /\ \A c \in DOMAIN view :
            view'[c] = IF c = r THEN (view[c] \ {u}) \cup {u} ELSE view[c] \ {u}
  <2> DEFINE out == Without(view, u)
  <2>1. /\ out \in RoomLists /\ DOMAIN out = DOMAIN view
        /\ \A c \in DOMAIN view : out[c] = view[c] \ {u}
        BY <1>1, WithoutIs
  <2>2. view' = With(out, u, r)
        BY DEF ParticipantJoined
  <2> HIDE DEF out
  <2>3. /\ With(out, u, r) \in RoomLists /\ DOMAIN With(out, u, r) = DOMAIN out
        /\ \A c \in DOMAIN out :
              With(out, u, r)[c] = IF c = r THEN out[c] \cup {u} ELSE out[c]
        BY <2>1, WithIs
  <2> QED
      BY <2>1, <2>2, <2>3
<1>3. UNCHANGED <<cpc, croom>>
      BY DEF ParticipantJoined
<1>4. cusers' = [k \in Calls |->
                   CASE cpc[k] # "open" -> cusers[k]
                     [] cpc[k] = "open" /\ croom[k] = r -> cusers[k] \cup {u}
                     [] OTHER -> cusers[k] \ {u}]
      BY DEF ParticipantJoined
<1>5. \A k \in Calls : cusers'[k] = IF cpc[k] # "open" THEN cusers[k]
                                     ELSE IF croom[k] = r THEN cusers[k] \cup {u}
                                     ELSE cusers[k] \ {u}
  <2> TAKE k \in Calls
  <2>1. CASE cpc[k] # "open"
        BY <1>4, <2>1
  <2>2. CASE cpc[k] = "open" /\ croom[k] = r
        BY <1>4, <2>2
  <2>3. CASE cpc[k] = "open" /\ croom[k] # r
    <3>1. cusers'[k] = CASE cpc[k] # "open" -> cusers[k]
                         [] cpc[k] = "open" /\ croom[k] = r -> cusers[k] \cup {u}
                         [] OTHER -> cusers[k] \ {u}
          BY <1>4
    <3> QED
        BY <2>3, <3>1
  <2> QED
      BY <2>1, <2>2, <2>3
<1>6. CallsOK'
  <2>1. cusers' \in [Calls -> SUBSET Users]
    <3>1. \A k \in Calls : cusers'[k] \in SUBSET Users
          BY <1>5 DEF CallsOK
    <3>2. cusers' = [k \in Calls |-> cusers'[k]]
          BY <1>4
    <3> QED
        BY <3>1, <3>2
  <2> QED
      BY <1>3, <2>1 DEF CallsOK
<1> QED
    BY <1>2, <1>3, <1>5, <1>6

(* End takes the calls of K away.                                          *)
LEMMA EndIs ==
    ASSUME CallsOK, NEW K \in SUBSET Calls, NEW users \in [Calls -> SUBSET Users],
           End(K, users)
    PROVE  /\ CallsOK'
           /\ \A k \in K : cpc'[k] = "idle"
           /\ \A k \in Calls \ K :
                 cpc'[k] = cpc[k] /\ croom'[k] = croom[k] /\ cusers'[k] = users[k]
<1>1. Nowhere \in Places
      BY DEF Places
<1>2. cpc' \in [Calls -> {"idle", "dialing", "open"}] /\ croom' \in [Calls -> Places]
      BY <1>1 DEF End, CallsOK
<1>3. cusers' \in [Calls -> SUBSET Users]
      BY DEF End
<1>4. /\ \A k \in K : cpc'[k] = "idle"
      /\ \A k \in Calls \ K :
            cpc'[k] = cpc[k] /\ croom'[k] = croom[k] /\ cusers'[k] = users[k]
      BY DEF End
<1> QED
    BY <1>2, <1>3, <1>4 DEF CallsOK

(* What process_voice_event does when somebody has left.                   *)
LEMMA LeftIs ==
    ASSUME FetchOK, CallsOK, NEW u \in Users, ParticipantLeft(u)
    PROVE  /\ view' \in RoomLists /\ DOMAIN view' = DOMAIN view
           /\ \A c \in DOMAIN view : view'[c] = view[c] \ {u}
           /\ CallsOK'
           /\ \A k \in Calls : cpc'[k] # "idle" => cpc'[k] = cpc[k] /\ croom'[k] = croom[k]
           /\ \A k \in Calls : cpc'[k] # "idle" =>
                 cusers'[k] = IF cpc[k] = "open" THEN cusers[k] \ {u} ELSE cusers[k]
           /\ \A k \in Open : u = Self /\ k \in Ended(LeftRooms(u)) => cpc'[k] = "idle"
           /\ u # Self => UNCHANGED croom
<1> DEFINE K == IF u = Self THEN Ended(LeftRooms(u)) ELSE {}
           users == [k \in Calls |-> IF k \in Open THEN cusers[k] \ {u} ELSE cusers[k]]
<1>1. view \in RoomLists
      BY DEF FetchOK
<1>2. /\ view' \in RoomLists /\ DOMAIN view' = DOMAIN view
      /\ \A c \in DOMAIN view : view'[c] = view[c] \ {u}
      BY <1>1, WithoutIs DEF ParticipantLeft
<1>3. K \in SUBSET Calls
      BY DEF Ended, Open
<1>4. users \in [Calls -> SUBSET Users]
      BY DEF CallsOK
<1>5. End(K, users)
      BY DEF ParticipantLeft
<1>6. u # Self => UNCHANGED croom
      BY <1>5 DEF End, CallsOK
<1>7. \A k \in Calls : users[k] = IF cpc[k] = "open" THEN cusers[k] \ {u} ELSE cusers[k]
      BY DEF Open
<1>8. u = Self => K = Ended(LeftRooms(u))
      OBVIOUS
<1> HIDE DEF K, users
<1>9. /\ CallsOK'
      /\ \A k \in K : cpc'[k] = "idle"
      /\ \A k \in Calls \ K :
            cpc'[k] = cpc[k] /\ croom'[k] = croom[k] /\ cusers'[k] = users[k]
      BY <1>3, <1>4, <1>5, EndIs
<1> QED
    BY <1>2, <1>6, <1>7, <1>8, <1>9

(* A future is an event that somebody is in a room.                        *)
LEMMA FutureIsEvent == Futures \subseteq Events /\ \A u \in Users : [user |-> u, room |-> Nowhere] \in Events
BY DEF Futures, Events, Places

(* What Consume takes: the event at the front, and what it changes.        *)
LEMMA ConsumeIs ==
    ASSUME RestOK, Consume
    PROVE  /\ queue \in Seq(Events) /\ queue # <<>> /\ queue' = Tail(queue)
           /\ Head(queue).user \in Users /\ Head(queue).room \in Places
           /\ \/ Head(queue).room \in Channels
                 /\ ParticipantJoined(Head(queue).user, Head(queue).room)
              \/ Head(queue).room = Nowhere /\ ParticipantLeft(Head(queue).user)
           /\ UNCHANGED <<server, states, roster, handling, fetching, opened, cut>>
<1>1. queue \in Seq(Events) /\ queue # <<>>
      BY DEF Consume, RestOK, QueueOK
<1>2. Head(queue) \in Events
      BY <1>1, TailEvents
<1>3. Head(queue).user \in Users /\ Head(queue).room \in Places
      BY <1>2, EventFields
<1> QED
    BY <1>1, <1>3 DEF Consume, Places

(* Every step keeps the types of the queue, the rooms and the calls.       *)
LEMMA RestInit == Init => RestOK
<1> SUFFICES ASSUME Init PROVE RestOK
    OBVIOUS
<1>1. QueueOK
      BY VoiceRosterAssumption DEF Init, QueueOK
<1>2. FetchOK
      BY NoRoomsIs DEF Init, FetchOK
<1>3. CallsOK
      BY DEF Init, CallsOK, Places
<1>4. HistoryOK /\ changes \in 0 .. MaxChanges
      BY VoiceRosterAssumption DEF Init, HistoryOK
<1> QED
    BY <1>1, <1>2, <1>3, <1>4 DEF RestOK

(* What the gateway dispatches is well-typed.                              *)
LEMMA DispatchRest == AdapterOK /\ RestOK /\ Dispatch => RestOK'
<1> SUFFICES ASSUME AdapterOK, RestOK, Dispatch PROVE RestOK'
    OBVIOUS
<1>0. QueueOK /\ FetchOK /\ CallsOK /\ HistoryOK /\ changes \in 0 .. MaxChanges
      /\ MaxChanges \in Nat /\ MaxReady \in 0 .. MaxChanges
      BY VoiceRosterAssumption DEF RestOK
<1>1. FetchOK' /\ CallsOK'
  <2>1. UNCHANGED <<fpc, rooms, opened, view, cpc, croom, cusers>>
        BY DEF Dispatch, VoiceStateUpdate, Ready, ReadyUnreadable, Complete, Cancel,
               fetching, calls
  <2> QED
      BY <1>0, <2>1 DEF FetchOK, CallsOK
<1>2. changes' \in 0 .. MaxChanges
      BY <1>0 DEF Dispatch, VoiceStateUpdate, Ready, ReadyUnreadable, Complete, Cancel, server
<1>3. joined' = joined
      BY DEF Dispatch, VoiceStateUpdate, Leave, Join, Ready, ReadyUnreadable, Complete,
             Cancel, history
<1>4. ASSUME NEW e \in Events, ForcePush(e)
      PROVE  QueueOK' /\ HistoryOK'
      BY <1>0, <1>3, <1>4, PushEffect DEF HistoryOK
<1>5. ASSUME UNCHANGED <<queue, deaf>>, missed' \subseteq Users
      PROVE  QueueOK' /\ HistoryOK'
      BY <1>0, <1>3, <1>5 DEF QueueOK, HistoryOK
<1>6. QueueOK' /\ HistoryOK'
  <2>0. missed \subseteq Users
        BY <1>0 DEF HistoryOK
  <2>1. ASSUME NEW u \in Users, NEW r \in Places, VoiceStateUpdate(u, r)
        PROVE  QueueOK' /\ HistoryOK'
    <3>1. CASE Leave(u)
          BY <1>4, <3>1, FutureIsEvent DEF Leave
    <3>2. CASE Join(u, r)
          BY <1>5, <2>0, <3>2 DEF Join, history
    <3> QED
        BY <2>1, <3>1, <3>2 DEF VoiceStateUpdate
  <2>2. ASSUME NEW now \in [Users -> Places], NEW known, Ready(now, known)
        PROVE  QueueOK' /\ HistoryOK'
        BY <1>5, <2>0, <2>2 DEF Ready
  <2>3. ASSUME NEW now \in [Users -> Places], ReadyUnreadable(now)
        PROVE  QueueOK' /\ HistoryOK'
        BY <1>5, <2>3 DEF ReadyUnreadable
  <2>4. ASSUME NEW h \in handling, Complete(h)
        PROVE  QueueOK' /\ HistoryOK'
        BY <1>4, <2>4, FutureIsEvent DEF Complete, AdapterOK
  <2>5. CASE Cancel
        BY <1>5, <2>0, <2>5 DEF Cancel
  <2> QED
      BY <2>1, <2>2, <2>3, <2>4, <2>5 DEF Dispatch
<1> QED
    BY <1>1, <1>2, <1>6 DEF RestOK

(* So is what a fetch of the guild's rooms collects.                       *)
LEMMA FetchRest == AdapterOK /\ RestOK /\ Fetch => RestOK'
<1> SUFFICES ASSUME AdapterOK, RestOK, NEW f \in Fetches,
                    \/ GetGuild(f) \/ GetGuildFails(f) \/ RestFails(f) \/ GuildRoomsLoaded(f)
                    \/ \E c \in Channels : Seed(f, c)
             PROVE  RestOK'
    BY DEF Fetch
<1>0. QueueOK /\ FetchOK /\ CallsOK /\ HistoryOK /\ changes \in 0 .. MaxChanges
      BY DEF RestOK
<1>1. UNCHANGED <<changes, queue, missed, deaf, cpc, croom, cusers>> /\ joined' \subseteq joined
      BY DEF GetGuild, GetGuildFails, RestFails, GuildRoomsLoaded, Seed, server, adapter,
             calls, history
<1>2. QueueOK' /\ CallsOK' /\ HistoryOK' /\ changes' \in 0 .. MaxChanges
      BY <1>0, <1>1 DEF QueueOK, CallsOK, HistoryOK
<1>3. CASE GetGuild(f) \/ GetGuildFails(f) \/ RestFails(f)
      BY <1>0, <1>2, <1>3 DEF GetGuild, GetGuildFails, RestFails, FetchOK, RestOK
<1>4. CASE GuildRoomsLoaded(f)
      BY <1>0, <1>2, <1>4, NoRoomsIs DEF GuildRoomsLoaded, FetchOK, RestOK
<1>5. ASSUME NEW c \in Channels, Seed(f, c)
      PROVE  RestOK'
  <2>1. rooms' \in [Fetches -> RoomLists]
        BY <1>0, <1>5, SeedIs
  <2>2. fpc' = [fpc EXCEPT ![f] = IF DOMAIN rooms'[f] = Channels THEN "read" ELSE fpc[f]]
        /\ UNCHANGED <<opened, view>>
        BY <1>5 DEF Seed
  <2> QED
      BY <1>0, <1>2, <2>1, <2>2 DEF FetchOK, RestOK
<1> QED
    BY <1>3, <1>4, <1>5

(* So are the calls the user begins and ends.                              *)
LEMMA CallRest == AdapterOK /\ RestOK /\ Call => RestOK'
<1> SUFFICES ASSUME AdapterOK, RestOK, Call PROVE RestOK'
    OBVIOUS
<1>0. QueueOK /\ FetchOK /\ CallsOK /\ HistoryOK /\ changes \in 0 .. MaxChanges
      BY DEF RestOK
<1>1. UNCHANGED <<changes, queue, fpc, rooms, opened, view, missed>>
      BY DEF Call, PushCall, Dial, HangUp, server, adapter, fetching, history
<1>2. QueueOK' /\ FetchOK' /\ changes' \in 0 .. MaxChanges /\ missed' \subseteq Users
      BY <1>0, <1>1 DEF QueueOK, FetchOK, HistoryOK
<1>3. ASSUME NEW k \in Calls, PushCall(k)
      PROVE  RestOK'
      BY <1>0, <1>2, <1>3 DEF PushCall, CallsOK, HistoryOK, RestOK, history
<1>4. ASSUME NEW k \in Calls, NEW c \in Channels, Dial(k, c)
      PROVE  RestOK'
  <2>1. view[c] \in SUBSET Users
        BY <1>0, <1>4, RoomListFields DEF Dial, FetchOK
  <2>2. CallsOK'
        BY <1>0, <1>4, <2>1 DEF Dial, CallsOK, Places
  <2> QED
      BY <1>0, <1>2, <1>4, <2>2 DEF Dial, HistoryOK, RestOK, history
<1>5. ASSUME NEW c \in Channels, HangUp(c)
      PROVE  RestOK'
  <2> DEFINE K == {k \in Calls : cpc[k] = "open" /\ croom[k] = c}
  <2>1. End(K, cusers) /\ joined' = joined \ K
        /\ deaf' = [k \in Calls |-> IF k \in K THEN {} ELSE deaf[k]]
        BY <1>5 DEF HangUp
  <2>2. K \in SUBSET Calls /\ cusers \in [Calls -> SUBSET Users]
        BY <1>0 DEF CallsOK
  <2> HIDE DEF K
  <2>3. CallsOK'
        BY <1>0, <2>1, <2>2, EndIs
  <2> QED
      BY <1>0, <1>2, <2>1, <2>3 DEF HistoryOK, RestOK
<1> QED
    BY <1>3, <1>4, <1>5 DEF Call

(* The histories of process_voice_event.                                   *)
LEMMA ConsumeHistory ==
    ASSUME RestOK, Consume
    PROVE  LET last == {Head(queue).user} \ UsersOf(Tail(queue))
           IN  /\ missed' = IF Reading THEN missed \cup last ELSE missed
               /\ DOMAIN deaf' = Calls
               /\ deaf' \in [Calls -> SUBSET Users]
               /\ \A k \in Calls :
                     /\ cpc[k] = "dialing" => deaf'[k] = deaf[k] \cup last
                     /\ cpc[k] # "dialing" /\ cpc'[k] # "idle" => deaf'[k] = deaf[k]
<1> DEFINE last == {Head(queue).user} \ UsersOf(Tail(queue))
<1>1. missed' = IF Reading THEN missed \cup last ELSE missed
      BY DEF Consume
<1>2. deaf' = [k \in Calls |-> CASE cpc[k] = "dialing" -> deaf[k] \cup last
                                 [] cpc'[k] = "idle" -> {}
                                 [] OTHER -> deaf[k]]
      BY DEF Consume
<1>3. last \subseteq Users
      BY ConsumeIs
<1>4. deaf \in [Calls -> SUBSET Users]
      BY DEF RestOK, HistoryOK
<1> HIDE DEF last
<1>5. \A k \in Calls : cpc[k] = "dialing" => cpc'[k] # "idle"
  <2> SUFFICES ASSUME NEW k \in Calls, cpc[k] = "dialing" PROVE cpc'[k] = "dialing"
      OBVIOUS
  <2>1. CallsOK
        BY DEF RestOK
  <2>2. ASSUME NEW u, NEW r, ParticipantJoined(u, r)
        PROVE  cpc'[k] = "dialing"
        BY <2>2 DEF ParticipantJoined
  <2>3. ASSUME NEW u, ParticipantLeft(u)
        PROVE  cpc'[k] = "dialing"
        BY <2>3 DEF ParticipantLeft, End, Ended, Open
  <2> QED
      BY <2>2, <2>3, ConsumeIs
<1>6. ASSUME NEW k \in Calls
      PROVE  /\ cpc[k] = "dialing" => deaf'[k] = deaf[k] \cup last
             /\ cpc[k] # "dialing" /\ cpc'[k] # "idle" => deaf'[k] = deaf[k]
             /\ deaf'[k] \in SUBSET Users
  <2>1. CASE cpc[k] = "dialing"
        BY <1>2, <1>3, <1>4, <1>5, <2>1
  <2>2. CASE cpc[k] # "dialing" /\ cpc'[k] = "idle"
        BY <1>2, <2>2
  <2>3. CASE cpc[k] # "dialing" /\ cpc'[k] # "idle"
        BY <1>2, <1>4, <2>3
  <2> QED
      BY <2>1, <2>2, <2>3
<1>7. deaf' = [k \in Calls |-> deaf'[k]]
      BY <1>2
<1>8. deaf' \in [Calls -> SUBSET Users]
      BY <1>6, <1>7
<1> QED
    BY <1>1, <1>6, <1>8 DEF last

(* So is what the UI makes of an event.                                    *)
LEMMA ConsumeRest == AdapterOK /\ RestOK /\ Consume => RestOK'
<1> SUFFICES ASSUME AdapterOK, RestOK, Consume PROVE RestOK'
    OBVIOUS
<1>0. QueueOK /\ FetchOK /\ CallsOK /\ HistoryOK /\ changes \in 0 .. MaxChanges
      BY DEF RestOK
<1> DEFINE u == Head(queue).user
           r == Head(queue).room
<1>1. /\ queue \in Seq(Events) /\ queue # <<>> /\ queue' = Tail(queue) /\ u \in Users
      /\ UNCHANGED <<fpc, rooms, opened, changes>>
      BY ConsumeIs DEF server, fetching
<1>2. QueueOK'
      BY <1>0, <1>1, TailEvents, VoiceRosterAssumption DEF QueueOK
<1>3. view' \in RoomLists /\ CallsOK' /\ joined' \subseteq Calls
  <2>1. CASE r \in Channels /\ ParticipantJoined(u, r)
        BY <1>0, <1>1, <2>1, JoinedIs DEF ParticipantJoined, HistoryOK
  <2>2. CASE ParticipantLeft(u)
        BY <1>0, <1>1, <2>2, LeftIs DEF ParticipantLeft, HistoryOK
  <2> QED
      BY <2>1, <2>2, ConsumeIs
<1>4. missed' \subseteq Users /\ deaf' \in [Calls -> SUBSET Users]
  <2>1. missed' \subseteq missed \cup {u}
        BY ConsumeHistory
  <2> QED
      BY <1>0, <1>1, <2>1, ConsumeHistory DEF HistoryOK
<1>5. FetchOK'
      BY <1>0, <1>1, <1>3 DEF FetchOK
<1> QED
    BY <1>0, <1>1, <1>2, <1>3, <1>4, <1>5 DEF RestOK, HistoryOK

(* Every step keeps the types.                                             *)
LEMMA RestStep == AdapterOK /\ RestOK /\ [Next]_vars => RestOK'
<1>1. RestOK /\ UNCHANGED vars => RestOK'
      BY DEF RestOK, QueueOK, FetchOK, CallsOK, HistoryOK, vars, server, adapter, fetching,
             calls, history
<1> QED
    BY <1>1, DispatchRest, FetchRest, CallRest, ConsumeRest DEF Next

-----------------------------------------------------------------------------
(* The calls that the user was last seen joining are there, and no room    *)
(* but theirs shows the user.                                              *)
JoinedInv ==
    \A k \in joined :
        /\ cpc[k] # "idle"
        /\ \A c \in DOMAIN view : Self \in view[c] => c = croom[k]

(* Every step keeps the user out of the other rooms.                       *)
LEMMA JoinedStep == AdapterOK /\ RestOK /\ JoinedInv /\ [Next]_vars => JoinedInv'
<1> SUFFICES ASSUME AdapterOK, RestOK, JoinedInv, [Next]_vars PROVE JoinedInv'
    OBVIOUS
<1>0. FetchOK /\ CallsOK /\ joined \subseteq Calls
      BY DEF RestOK, HistoryOK
<1>1. CASE UNCHANGED <<joined, cpc, croom, view>>
      BY <1>1 DEF JoinedInv
<1>2. CASE Dispatch
  <2>1. UNCHANGED <<joined, cpc, croom, view>>
        BY <1>2 DEF Dispatch, VoiceStateUpdate, Leave, Join, Ready, ReadyUnreadable,
                    Complete, Cancel, history, calls
  <2> QED
      BY <1>1, <2>1
<1>3. ASSUME NEW f \in Fetches, GuildRoomsLoaded(f)
      PROVE  JoinedInv'
      BY <1>3 DEF GuildRoomsLoaded, JoinedInv, calls
<1>4. CASE Fetch
  <2>1. UNCHANGED <<joined, cpc, croom, view>> \/ \E f \in Fetches : GuildRoomsLoaded(f)
        BY <1>4 DEF Fetch, GetGuild, GetGuildFails, RestFails, Seed, history, calls
  <2> QED
      BY <1>1, <1>3, <2>1
<1>5. ASSUME NEW k \in Calls, PushCall(k) \/ \E c \in Channels : Dial(k, c)
      PROVE  JoinedInv'
      BY <1>0, <1>5 DEF PushCall, Dial, JoinedInv, CallsOK, history
<1>6. ASSUME NEW c \in Channels, HangUp(c)
      PROVE  JoinedInv'
  <2> DEFINE K == {k \in Calls : cpc[k] = "open" /\ croom[k] = c}
  <2>1. End(K, cusers) /\ joined' = joined \ K /\ view' = view
        BY <1>6 DEF HangUp
  <2>2. K \in SUBSET Calls /\ cusers \in [Calls -> SUBSET Users]
        BY <1>0 DEF CallsOK
  <2> HIDE DEF K
  <2>3. \A k \in Calls \ K : cpc'[k] = cpc[k] /\ croom'[k] = croom[k]
        BY <1>0, <2>1, <2>2, EndIs
  <2> QED
      BY <1>0, <2>1, <2>3 DEF JoinedInv
<1>7. CASE Consume
  <2> DEFINE u == Head(queue).user
             r == Head(queue).room
  <2>1. u \in Users
        BY <1>7, ConsumeIs
  <2>2. CASE r \in Channels /\ ParticipantJoined(u, r)
    <3>1. /\ DOMAIN view' = DOMAIN view
          /\ \A c \in DOMAIN view : \A v \in Users :
                v \in view'[c] <=> IF v = u THEN c = r ELSE v \in view[c]
          /\ UNCHANGED <<cpc, croom>>
          BY <1>0, <2>1, <2>2, JoinedIs
    <3>2. CASE u = Self
      <4>1. joined' = {k \in Calls : cpc[k] \in {"dialing", "open"} /\ croom[k] = r}
            BY <2>2, <3>2 DEF ParticipantJoined
      <4> QED
          BY <3>1, <3>2, <4>1, VoiceRosterAssumption DEF JoinedInv, VoiceRosterAssumption
    <3>3. CASE u # Self
      <4>1. joined' = joined
            BY <2>2, <3>3 DEF ParticipantJoined
      <4> QED
          BY <3>1, <3>3, <4>1, VoiceRosterAssumption DEF JoinedInv, VoiceRosterAssumption
    <3> QED
        BY <3>2, <3>3
  <2>3. CASE ParticipantLeft(u)
    <3>1. CASE u = Self
          BY <2>3, <3>1 DEF ParticipantLeft, JoinedInv
    <3>2. CASE u # Self
      <4>1. joined' = joined /\ \A k \in Calls : cpc'[k] = cpc[k]
            BY <1>0, <2>3, <3>2 DEF ParticipantLeft, End, CallsOK
      <4>2. croom' = croom /\ DOMAIN view' = DOMAIN view
            /\ \A c \in DOMAIN view : view'[c] = view[c] \ {u}
            BY <1>0, <2>1, <2>3, <3>2, LeftIs
      <4> QED
          BY <1>0, <4>1, <4>2 DEF JoinedInv
    <3> QED
        BY <3>1, <3>2
  <2> QED
      BY <1>7, <2>2, <2>3, ConsumeIs
<1> QED
    BY <1>1, <1>2, <1>4, <1>5, <1>6, <1>7 DEF Next, Call, vars, history, calls

(* A step that consumes the user's own leave ends the call the user is in. *)
LEMMA OwnLeaveStep ==
    ASSUME RestOK, JoinedInv, Consume, Head(queue) = [user |-> Self, room |-> Nowhere],
           NEW k \in joined \cap Open \cap Open'
    PROVE  Cardinality(Open) > 1 /\ Self \notin cusers[k]
<1>0. FetchOK /\ CallsOK /\ Self \in Users /\ Nowhere \notin Channels /\ IsFiniteSet(Calls)
      BY VoiceRosterAssumption DEF RestOK
<1>1. ParticipantLeft(Self)
      BY <1>0, ConsumeIs
<1>2. cpc[k] = "open" /\ cpc'[k] = "open" /\ k \in Calls
      BY DEF Open
<1>3. k \notin Ended(LeftRooms(Self))
  <2> SUFFICES ASSUME k \in Ended(LeftRooms(Self)) PROVE FALSE
      OBVIOUS
  <2>1. cpc'[k] = "idle"
        BY <1>0, <1>1, LeftIs
  <2> QED
      BY <1>2, <2>1
<1>4. Self \notin cusers[k]
  <2> SUFFICES ASSUME Self \in cusers[k] PROVE FALSE
      OBVIOUS
  <2>1. croom[k] \in LeftRooms(Self)
        BY DEF LeftRooms, InCopy
  <2> QED
      BY <1>3, <2>1 DEF Ended
<1>5. Cardinality(Open) > 1
  <2> SUFFICES ASSUME ~(Cardinality(Open) > 1) PROVE FALSE
      OBVIOUS
  <2>1. IsFiniteSet(Open)
        BY <1>0, FS_Subset DEF Open
  <2>2. Cardinality(Open) \in Nat /\ Cardinality(Open) # 0
        BY <2>1, FS_CardinalityType, FS_EmptySet
  <2>3. Cardinality(Open) = 1
        BY <2>2
  <2>4. PICK o : Open = {o}
        BY <2>1, <2>3, FS_Singleton
  <2>5. InCopy(Self) = {}
        BY <1>4, <2>4 DEF InCopy
  <2>6. \A c \in LeftRooms(Self) : c = croom[k]
        BY <2>5 DEF LeftRooms, JoinedInv
  <2>7. LeftRooms(Self) # {}
        BY <1>3, <2>3 DEF Ended
  <2>8. croom[k] \in LeftRooms(Self)
        BY <2>6, <2>7
  <2> QED
      BY <1>3, <2>8 DEF Ended
<1> QED
    BY <1>4, <1>5

-----------------------------------------------------------------------------
(* The user is at r, as far as the list knows.                             *)
InList(list, u, r) == \A c \in DOMAIN list : u \in list[c] <=> c = r

(* The roster has the user where voice_states does.                        *)
Listed(u) == states[u] = Nowhere \/ u \in roster[states[u]]

(* All that knows of the user knows the newest.                            *)
Delivered(u) ==
    /\ InList(view, u, states[u])
    /\ \A f \in Fetches : InList(rooms[f], u, states[u])
    /\ \A k \in Calls :
          cpc[k] # "idle" /\ u \notin deaf[k] => (u \in cusers[k] <=> croom[k] = states[u])

(* What the roster knows of a user is the last of the user's events under  *)
(* way, or has been delivered: to the rooms, to the fetches that have      *)
(* looked, and to the calls.                                               *)
DeliveryInv ==
    \A u \in Users \ missed :
        Listed(u) => IF u \in UsersOf(queue) THEN Latest(queue, u, states[u]) ELSE Delivered(u)

(* A dispatch either has just pushed the newest event of a user, or leaves *)
(* all there is of the user as it was.                                     *)
Pushed(u) == u \in UsersOf(queue') /\ Latest(queue', u, states'[u])
Undisturbed(u) ==
    /\ u \notin missed /\ Listed(u) /\ states'[u] = states[u]
    /\ u \in UsersOf(queue') <=> u \in UsersOf(queue)
    /\ Latest(queue, u, states[u]) => Latest(queue', u, states[u])
    /\ \A k \in Calls : u \in deaf'[k] <=> u \in deaf[k]

(* A dispatch announces what it changes for a user, or changes nothing.    *)
LEMMA DispatchPushes ==
    ASSUME IInv, RestOK, Dispatch, NEW u \in Users, u \notin missed', Listed(u)'
    PROVE  Pushed(u) \/ Undisturbed(u)
<1>0. AdapterOK /\ RosterInv /\ HandlingInv /\ QueueOK /\ HistoryOK
      BY DEF IInv, RestOK
<1>1. ASSUME NEW v \in Users, NEW r \in Places, VoiceStateUpdate(v, r)
      PROVE  Pushed(u) \/ Undisturbed(u)
  <2>1. CASE r = Nowhere /\ Leave(v)
    <3> DEFINE e == [user |-> v, room |-> Nowhere]
    <3>1. e \in Events /\ ForcePush(e) /\ roster' = Evict(v, Nowhere)
          /\ states' = [states EXCEPT ![v] = Nowhere]
          BY <2>1, FutureIsEvent DEF Leave
    <3>2. e.user = v /\ e.room = Nowhere
          OBVIOUS
    <3> HIDE DEF e
    <3>3. CASE u = v
          BY <1>0, <3>1, <3>2, <3>3, PushEffect DEF Pushed, AdapterOK
    <3>4. CASE u # v
      <4>1. states'[u] = states[u]
            BY <1>0, <3>1, <3>4 DEF AdapterOK
      <4>2. Listed(u)
        <5>1. states[u] = Nowhere \/ states[u] \in Channels
              BY <1>0 DEF AdapterOK, Places
        <5>2. Nowhere \in Places /\ \A c \in Channels : u \in roster'[c] <=> u \in roster[c]
              BY <3>1, <3>4, EvictLemma DEF Places
        <5> QED
            BY <4>1, <5>1, <5>2 DEF Listed
      <4> QED
          BY <1>0, <3>1, <3>2, <3>4, <4>1, <4>2, PushEffect DEF Undisturbed
    <3> QED
        BY <3>3, <3>4
  <2>2. CASE r # Nowhere /\ Join(v, r)
    <3>1. UNCHANGED <<queue, missed, deaf>> /\ roster' = Evict(v, r)
          /\ states' = [states EXCEPT ![v] = r] /\ r \in Channels
          BY <2>2 DEF Join, history, Places
    <3>2. states[u] = Nowhere \/ states[u] \in Channels
          BY <1>0 DEF AdapterOK, Places
    <3>3. CASE u = v
      <4>1. states'[u] = r
            BY <1>0, <3>1, <3>3 DEF AdapterOK
      <4>2. u \in Evict(v, r)[r]
            BY <2>2, <3>1, <4>1 DEF Listed
      <4>3. u \in roster[r]
            BY <3>1, <3>3, <4>2, EvictLemma
      <4>4. states[u] = r
            BY <1>0, <3>1, <4>3 DEF RosterInv
      <4> QED
          BY <3>1, <4>1, <4>3, <4>4 DEF Undisturbed, Listed
    <3>4. CASE u # v
      <4>1. states'[u] = states[u]
            BY <1>0, <3>1, <3>4 DEF AdapterOK
      <4>2. \A c \in Channels : u \in roster'[c] <=> u \in roster[c]
            BY <3>1, <3>4, EvictLemma
      <4> QED
          BY <3>1, <3>2, <4>1, <4>2 DEF Undisturbed, Listed
    <3> QED
        BY <3>3, <3>4
  <2> QED
      BY <1>1, <2>1, <2>2 DEF VoiceStateUpdate
<1>2. ASSUME NEW now \in [Users -> Places], NEW known, Ready(now, known)
      PROVE  Pushed(u) \/ Undisturbed(u)
  <2>1. states' = now /\ roster' = [c \in Channels |-> {}] /\ UNCHANGED <<queue, deaf>>
        /\ missed' = missed \cup {v \in Users : states[v] # Nowhere /\ now[v] = Nowhere}
        BY <1>2 DEF Ready, Wiped
  <2>2. now[u] = Nowhere
        BY <2>1 DEF Listed, Places
  <2>3. states[u] = Nowhere /\ u \notin missed
        BY <2>1, <2>2
  <2> QED
      BY <2>1, <2>2, <2>3 DEF Undisturbed, Listed
<1>3. ASSUME NEW now \in [Users -> Places], ReadyUnreadable(now)
      PROVE  Pushed(u) \/ Undisturbed(u)
      BY <1>3 DEF ReadyUnreadable
<1>4. ASSUME NEW h \in handling, Complete(h)
      PROVE  Pushed(u) \/ Undisturbed(u)
  <2>1. h \in Events /\ ForcePush(h) /\ h.user \in Users /\ h.room \in Channels
        BY <1>0, <1>4, FutureIsEvent, FutureFields DEF Complete, AdapterOK
  <2>2. states' = states /\ roster' = [roster EXCEPT ![h.room] = @ \cup {h.user}]
        BY <1>4 DEF Complete
  <2>3. CASE u = h.user
        BY <1>0, <2>1, <2>2, <2>3, PushEffect DEF Pushed, HandlingInv
  <2>4. CASE u # h.user
    <3>1. \A c \in Channels : u \in roster'[c] <=> u \in roster[c]
          BY <1>0, <2>1, <2>2, <2>4 DEF AdapterOK
    <3>2. Listed(u)
          BY <1>0, <2>2, <3>1 DEF Listed, AdapterOK, Places
    <3> QED
        BY <1>0, <2>1, <2>2, <2>4, <3>2, PushEffect DEF Undisturbed
  <2> QED
      BY <2>3, <2>4
<1>5. CASE Cancel
      BY <1>5 DEF Cancel, Undisturbed, Listed
<1> QED
    BY <1>1, <1>2, <1>3, <1>4, <1>5 DEF Dispatch

(* The dispatches leave the rooms and the calls alone.                     *)
LEMMA DispatchDelivery == IInv /\ RestOK /\ DeliveryInv /\ Dispatch => DeliveryInv'
<1> SUFFICES ASSUME IInv, RestOK, DeliveryInv, Dispatch,
                    NEW u \in Users, u \notin missed', Listed(u)'
             PROVE  IF u \in UsersOf(queue') THEN Latest(queue', u, states'[u])
                                             ELSE Delivered(u)'
    BY DEF DeliveryInv
<1>1. UNCHANGED <<rooms, view, cpc, croom, cusers>>
      BY DEF Dispatch, VoiceStateUpdate, Ready, ReadyUnreadable, Complete, Cancel, fetching, calls
<1>2. CASE Pushed(u)
      BY <1>2 DEF Pushed
<1>3. CASE Undisturbed(u)
  <2>1. IF u \in UsersOf(queue) THEN Latest(queue, u, states[u]) ELSE Delivered(u)
        BY <1>3 DEF Undisturbed, DeliveryInv
  <2>2. CASE u \in UsersOf(queue')
        BY <1>3, <2>1, <2>2 DEF Undisturbed
  <2>3. CASE u \notin UsersOf(queue')
    <3>1. Delivered(u)
          BY <1>3, <2>1, <2>3 DEF Undisturbed
    <3>2. states'[u] = states[u] /\ \A k \in Calls : u \in deaf'[k] <=> u \in deaf[k]
          BY <1>3 DEF Undisturbed
    <3>3. Delivered(u)'
          BY <1>1, <3>1, <3>2 DEF Delivered
    <3> QED
        BY <2>3, <3>3
  <2> QED
      BY <2>2, <2>3
<1> QED
    BY <1>2, <1>3, DispatchPushes

(* A fetch reads the roster, and the rooms get what a fetch has read.      *)
LEMMA FetchDelivery == IInv /\ RestOK /\ DeliveryInv /\ Fetch => DeliveryInv'
<1> SUFFICES ASSUME IInv, RestOK, DeliveryInv, NEW f \in Fetches,
                    \/ GetGuild(f) \/ GetGuildFails(f) \/ RestFails(f) \/ GuildRoomsLoaded(f)
                    \/ \E c \in Channels : Seed(f, c)
             PROVE  DeliveryInv'
    BY DEF Fetch
<1>0. AdapterOK /\ RosterInv /\ FetchOK
      BY DEF IInv, RestOK
<1>1. UNCHANGED <<states, roster, queue, cpc, croom, cusers, missed, deaf>>
      BY DEF GetGuild, GetGuildFails, RestFails, GuildRoomsLoaded, Seed, adapter, calls, history
<1> SUFFICES ASSUME NEW u \in Users, Listed(u), Delivered(u)
             PROVE  InList(view', u, states[u]) /\ \A g \in Fetches : InList(rooms'[g], u, states[u])
    BY <1>1 DEF DeliveryInv, Listed, Delivered
<1>2. CASE GetGuild(f) \/ GetGuildFails(f) \/ RestFails(f)
  <2>1. UNCHANGED <<view, rooms>>
        BY <1>2 DEF GetGuild, GetGuildFails, RestFails
  <2> QED
      BY <2>1 DEF Delivered
<1>3. CASE GuildRoomsLoaded(f)
  <2>1. view' = rooms[f] /\ rooms' = [rooms EXCEPT ![f] = NoRooms]
        BY <1>3 DEF GuildRoomsLoaded
  <2>2. InList(NoRooms, u, states[u])
        BY NoRoomsIs DEF InList
  <2> QED
      BY <1>0, <2>1, <2>2 DEF Delivered, FetchOK
<1>4. ASSUME NEW c \in Channels, Seed(f, c)
      PROVE  InList(view', u, states[u]) /\ \A g \in Fetches : InList(rooms'[g], u, states[u])
  <2>1. view' = view
        BY <1>4 DEF Seed
  <2>2. u \in roster[c] <=> c = states[u]
        BY <1>0, VoiceRosterAssumption DEF RosterInv, Listed
  <2>3. InList(rooms'[f], u, states[u])
        BY <1>0, <1>4, <2>2, SeedIs DEF InList, Delivered
  <2>4. \A g \in Fetches \ {f} : InList(rooms'[g], u, states[u])
        BY <1>0, <1>4, SeedIs DEF Delivered
  <2> QED
      BY <2>1, <2>3, <2>4 DEF Delivered
<1> QED
    BY <1>2, <1>3, <1>4

(* A call copies what the rooms show.                                      *)
LEMMA CallDelivery == IInv /\ RestOK /\ DeliveryInv /\ Call => DeliveryInv'
<1> SUFFICES ASSUME IInv, RestOK, DeliveryInv, Call PROVE DeliveryInv'
    OBVIOUS
<1>0. CallsOK /\ deaf \in [Calls -> SUBSET Users]
      BY DEF RestOK, HistoryOK
<1>1. UNCHANGED <<states, roster, queue, rooms, view, missed>>
      BY DEF Call, PushCall, Dial, HangUp, adapter, fetching, history
<1> SUFFICES ASSUME NEW u \in Users, Delivered(u),
                    NEW k \in Calls, cpc'[k] # "idle", u \notin deaf'[k]
             PROVE  u \in cusers'[k] <=> croom'[k] = states[u]
    BY <1>1 DEF DeliveryInv, Listed, Delivered
<1>2. ASSUME NEW l \in Calls, PushCall(l)
      PROVE  u \in cusers'[k] <=> croom'[k] = states[u]
      BY <1>0, <1>2 DEF PushCall, Delivered, CallsOK, history
<1>3. ASSUME NEW l \in Calls, NEW c \in Channels, Dial(l, c)
      PROVE  u \in cusers'[k] <=> croom'[k] = states[u]
  <2>1. /\ croom' = [croom EXCEPT ![l] = c] /\ cusers' = [cusers EXCEPT ![l] = view[c]]
        /\ cpc' = [cpc EXCEPT ![l] = "dialing"] /\ deaf' = deaf /\ c \in DOMAIN view
        BY <1>3 DEF Dial, history
  <2>2. u \in view[c] <=> c = states[u]
        BY <2>1 DEF Delivered, InList
  <2> QED
      BY <1>0, <2>1, <2>2 DEF CallsOK, Delivered
<1>4. ASSUME NEW c \in Channels, HangUp(c)
      PROVE  u \in cusers'[k] <=> croom'[k] = states[u]
  <2> DEFINE K == {l \in Calls : cpc[l] = "open" /\ croom[l] = c}
  <2>1. End(K, cusers) /\ deaf' = [l \in Calls |-> IF l \in K THEN {} ELSE deaf[l]]
        BY <1>4 DEF HangUp
  <2>2. K \in SUBSET Calls /\ cusers \in [Calls -> SUBSET Users]
        BY <1>0 DEF CallsOK
  <2> HIDE DEF K
  <2>3. k \notin K /\ cpc'[k] = cpc[k] /\ croom'[k] = croom[k] /\ cusers'[k] = cusers[k]
        BY <1>0, <2>1, <2>2, EndIs
  <2> QED
      BY <2>1, <2>3 DEF Delivered
<1> QED
    BY <1>2, <1>3, <1>4 DEF Call

(* process_voice_event delivers the last event of a user to the rooms and  *)
(* to the open calls; the fetches and the calls it does not reach are      *)
(* those the histories name.                                               *)
LEMMA ConsumeDelivery == IInv /\ RestOK /\ DeliveryInv /\ Consume => DeliveryInv'
<1> SUFFICES ASSUME IInv, RestOK, DeliveryInv, Consume,
                    NEW v \in Users, v \notin missed', Listed(v)'
             PROVE  IF v \in UsersOf(queue') THEN Latest(queue', v, states'[v])
                                             ELSE Delivered(v)'
    BY DEF DeliveryInv
<1> DEFINE u == Head(queue).user
           r == Head(queue).room
           last == {u} \ UsersOf(Tail(queue))
<1>0. AdapterOK /\ FetchOK /\ CallsOK
      BY DEF IInv, RestOK
<1>1. /\ queue \in Seq(Events) /\ queue # <<>> /\ queue' = Tail(queue)
      /\ u \in Users
      /\ \/ r \in Channels /\ ParticipantJoined(u, r)
         \/ r = Nowhere /\ ParticipantLeft(u)
      /\ UNCHANGED <<states, roster, rooms>>
      BY ConsumeIs DEF fetching
<1>2. /\ UsersOf(queue) = UsersOf(queue') \cup {u}
      /\ \A w \in UsersOf(queue') : \A x : Latest(queue, w, x) => Latest(queue', w, x)
      /\ \A w : w \notin UsersOf(queue') => \A x : Latest(queue, w, x) => u = w /\ r = x
      BY <1>1, TailEvents
<1>3. /\ missed' = IF Reading THEN missed \cup last ELSE missed
      /\ \A k \in Calls :
            /\ cpc[k] = "dialing" => deaf'[k] = deaf[k] \cup last
            /\ cpc[k] # "dialing" /\ cpc'[k] # "idle" => deaf'[k] = deaf[k]
      BY ConsumeHistory
<1>4. v \notin missed /\ Listed(v) /\ states'[v] = states[v]
      BY <1>1, <1>3 DEF Listed
<1>5. IF v \in UsersOf(queue) THEN Latest(queue, v, states[v]) ELSE Delivered(v)
      BY <1>4 DEF DeliveryInv
<1>6. CASE v \in UsersOf(queue')
      BY <1>2, <1>4, <1>5, <1>6
<1>7. CASE v \notin UsersOf(queue') /\ v # u
  <2>1. Delivered(v)
        BY <1>2, <1>5, <1>7
  <2>2. CASE r \in Channels /\ ParticipantJoined(u, r)
    <3>1. /\ DOMAIN view' = DOMAIN view /\ \A c \in DOMAIN view : v \in view'[c] <=> v \in view[c]
          /\ UNCHANGED <<cpc, croom>>
          /\ \A k \in Calls : v \in cusers'[k] <=> v \in cusers[k]
          BY <1>0, <1>1, <1>7, <2>2, JoinedIs
    <3>2. \A k \in Calls : cpc'[k] # "idle" /\ v \notin deaf'[k] => v \notin deaf[k]
          BY <1>0, <1>3, <3>1 DEF CallsOK
    <3> QED
        BY <1>1, <1>4, <1>7, <2>1, <3>1, <3>2 DEF Delivered, InList
  <2>3. CASE ParticipantLeft(u)
    <3>0. /\ DOMAIN view' = DOMAIN view /\ \A c \in DOMAIN view : view'[c] = view[c] \ {u}
          /\ \A k \in Calls : cpc'[k] # "idle" => cpc'[k] = cpc[k] /\ croom'[k] = croom[k]
          /\ \A k \in Calls : cpc'[k] # "idle" =>
                cusers'[k] = IF cpc[k] = "open" THEN cusers[k] \ {u} ELSE cusers[k]
          BY <1>0, <1>1, <2>3, LeftIs
    <3>1. /\ DOMAIN view' = DOMAIN view /\ \A c \in DOMAIN view : v \in view'[c] <=> v \in view[c]
          /\ \A k \in Calls : cpc'[k] # "idle" =>
                /\ cpc'[k] = cpc[k] /\ croom'[k] = croom[k]
                /\ v \in cusers'[k] <=> v \in cusers[k]
          BY <1>7, <3>0
    <3>2. \A k \in Calls : cpc'[k] # "idle" /\ v \notin deaf'[k] => v \notin deaf[k]
          BY <1>3
    <3> QED
        BY <1>1, <1>4, <1>7, <2>1, <3>1, <3>2 DEF Delivered, InList
  <2> QED
      BY <1>1, <2>2, <2>3
<1>8. CASE v \notin UsersOf(queue') /\ v = u
  <2>1. r = states[v] /\ v \in last
        BY <1>1, <1>2, <1>5, <1>8
  <2>2. ~Reading
        BY <1>3, <2>1
  <2>3. \A f \in Fetches : InList(rooms'[f], v, states[v])
        BY <1>1, <2>2, NoRoomsIs DEF Reading, InList
  <2>4. \A k \in Calls : cpc'[k] # "idle" /\ v \notin deaf'[k] => cpc[k] # "dialing"
        BY <1>3, <2>1
  <2>5. CASE r \in Channels /\ ParticipantJoined(u, r)
    <3>1. /\ DOMAIN view' = DOMAIN view /\ \A c \in DOMAIN view : v \in view'[c] <=> c = r
          /\ UNCHANGED <<cpc, croom>>
          /\ \A k \in Calls : cpc[k] = "open" => (v \in cusers'[k] <=> croom[k] = r)
          BY <1>0, <1>1, <1>8, <2>5, JoinedIs
    <3>2. \A k \in Calls : cpc'[k] # "idle" /\ v \notin deaf'[k] => cpc[k] = "open"
          BY <1>0, <2>4, <3>1 DEF CallsOK
    <3> QED
        BY <1>4, <1>8, <2>1, <2>3, <3>1, <3>2 DEF Delivered, InList
  <2>6. CASE r = Nowhere /\ ParticipantLeft(u)
    <3>1. view \in RoomLists
          BY <1>0 DEF FetchOK
    <3>2. DOMAIN view \subseteq Channels
          BY <3>1, RoomListFields
    <3>0. /\ DOMAIN view' = DOMAIN view /\ \A c \in DOMAIN view : view'[c] = view[c] \ {u}
          /\ CallsOK'
          /\ \A k \in Calls : cpc'[k] # "idle" => cpc'[k] = cpc[k] /\ croom'[k] = croom[k]
          /\ \A k \in Calls : cpc'[k] # "idle" =>
                cusers'[k] = IF cpc[k] = "open" THEN cusers[k] \ {u} ELSE cusers[k]
          BY <1>0, <1>1, <2>6, LeftIs
    <3>3. /\ DOMAIN view' = DOMAIN view /\ \A c \in DOMAIN view : v \notin view'[c]
          /\ \A k \in Calls : cpc'[k] # "idle" =>
                /\ cpc'[k] = cpc[k] /\ croom'[k] = croom[k]
                /\ cpc[k] = "open" => v \notin cusers'[k]
          BY <1>8, <3>0
    <3>4. \A k \in Calls : cpc'[k] # "idle" /\ v \notin deaf'[k] => cpc[k] = "open"
          BY <1>0, <2>4, <3>3 DEF CallsOK
    <3>5. \A k \in Calls : cpc'[k] # "idle" => croom'[k] # Nowhere
          BY <1>0, <3>3, VoiceRosterAssumption DEF CallsOK
    <3> QED
        BY <1>4, <1>8, <2>1, <2>3, <2>6, <3>2, <3>3, <3>4, <3>5, VoiceRosterAssumption
        DEF Delivered, InList
  <2> QED
      BY <1>1, <2>5, <2>6
<1> QED
    BY <1>6, <1>7, <1>8

-----------------------------------------------------------------------------
(* At first nothing shows anybody anywhere.                                *)
LEMMA DeliveryInit == Init => JoinedInv /\ DeliveryInv
<1> SUFFICES ASSUME Init PROVE JoinedInv /\ DeliveryInv
    OBVIOUS
<1>1. JoinedInv
      BY DEF Init, JoinedInv
<1>2. UsersOf(queue) = {}
      BY DEF Init, UsersOf
<1>3. \A u \in Users : Delivered(u)
      BY NoRoomsIs DEF Init, Delivered, InList
<1> QED
    BY <1>1, <1>2, <1>3 DEF DeliveryInv

(* The invariant of the whole: the roster follows the server, and what it  *)
(* says is under way or delivered.                                         *)
LEMMA VoiceRosterDelivers == Spec => [](IInv /\ RestOK /\ JoinedInv /\ DeliveryInv)
<1> DEFINE Inv == IInv /\ RestOK /\ JoinedInv /\ DeliveryInv
<1>1. Init => Inv
      BY InitInv, RestInit, DeliveryInit
<1>2. Inv /\ [Next]_vars => Inv'
  <2> SUFFICES ASSUME Inv, [Next]_vars PROVE Inv'
      OBVIOUS
  <2>1. IInv' /\ RestOK' /\ JoinedInv'
        BY NextInv, RestStep, JoinedStep DEF IInv
  <2>2. ASSUME UNCHANGED vars
        PROVE  DeliveryInv'
    <3>1. UNCHANGED <<states, roster, queue, rooms, view, cpc, croom, cusers, missed, deaf>>
          BY <2>2 DEF vars, adapter, fetching, calls, history
    <3> QED
        BY <3>1 DEF DeliveryInv, Delivered, Listed
  <2>3. DeliveryInv'
        BY <2>2, DispatchDelivery, FetchDelivery, CallDelivery, ConsumeDelivery DEF Next
  <2> QED
      BY <2>1, <2>3
<1> QED
    BY <1>1, <1>2, PTL DEF Spec

(* Every variable of the roster, the queue, the rooms and the calls keeps  *)
(* its type; voice_events never holds more than EVENT_QUEUE_CAP.           *)
THEOREM VoiceRosterTypeOK == Spec => []TypeOK
<1>1. IInv /\ RestOK => TypeOK
      BY DEF IInv, AdapterOK, RestOK, QueueOK, FetchOK, CallsOK, HistoryOK, TypeOK
<1> QED
    BY <1>1, VoiceRosterDelivers, PTL

(* When everything is delivered, the rooms and the calls show who is       *)
(* there, but for the gaps the histories name (events.rs:221-265,          *)
(* messenger.rs:140-154, main.rs:301-332).                                 *)
THEOREM VoiceRosterConverged == Spec => []Converged
<1>1. IInv /\ RestOK /\ DeliveryInv => Converged
  <2> SUFFICES ASSUME IInv, RestOK, DeliveryInv, Quiet
               PROVE  RoomsConverged /\ CallsConverged
      BY DEF Converged
  <2>0. AdapterOK /\ CutInv /\ FetchOK /\ CallsOK
        BY DEF IInv, RestOK
  <2>1. UsersOf(queue) = {} /\ handling = {}
        BY DEF Quiet, UsersOf
  <2>2. ASSUME NEW u \in Users \ (cut \cup missed)
        PROVE  Delivered(u) /\ states[u] = where[u]
    <3>1. states[u] = where[u]
          BY <2>0 DEF CutInv
    <3>2. \A c \in Channels : where[u] = c => u \in roster[c]
          BY <2>0, <2>1 DEF CutInv
    <3>3. Listed(u)
          BY <2>0, <3>1, <3>2 DEF Listed, AdapterOK, Places
    <3> QED
        BY <2>1, <3>1, <3>3 DEF DeliveryInv
  <2>3. RoomsConverged
        BY <2>2 DEF RoomsConverged, Delivered, InList
  <2>4. CallsConverged
        BY <2>2 DEF CallsConverged, Delivered, Open
  <2> QED
      BY <2>3, <2>4
<1> QED
    BY <1>1, VoiceRosterDelivers, PTL

(* The user's own leave ends the call the user was last seen joining, but  *)
(* for the one case in which nothing tells which (record_v2/events.rs:     *)
(* 247-265).                                                               *)
THEOREM VoiceRosterOwnLeaveEndsCall == Spec => OwnLeaveEndsCall
<1> DEFINE Ends ==
        Consume /\ Head(queue) = [user |-> Self, room |-> Nowhere]
          => \A k \in joined \cap Open \cap Open' :
                 Cardinality(Open) > 1 /\ Self \notin cusers[k]
<1>1. RestOK /\ JoinedInv => Ends
      BY OwnLeaveStep
<1>2. RestOK /\ JoinedInv /\ [Next]_vars => [Ends]_vars
      BY <1>1
<1> QED
    BY <1>2, VoiceRosterDelivers, PTL DEF Spec, OwnLeaveEndsCall
=============================================================================
