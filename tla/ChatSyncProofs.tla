--------------------------- MODULE ChatSyncProofs ---------------------------
(***************************************************************************)
(* Proofs about ChatSync.tla, for any messages, fetches, revisions and     *)
(* capacity of the queue: the merge is fresh, the room never goes back,    *)
(* and it converges.                                                       *)
(*                                                                         *)
(* An event passes wire, handler and queue, in this order, so the events   *)
(* of one message are in flight in the order of their revisions; sequences *)
(* therefore only matter as sets, and Held(s) is what sequence s holds.    *)
(***************************************************************************)
EXTENDS ChatSync, TLAPS

Held(s) == {s[i] : i \in DOMAIN s}
About(S, m) == {e \in S : e.msg = m}
Event(m, v) == [msg |-> m, rev |-> v]

(* Revisions grow along a sequence, message by message.                    *)
Ordered(s) ==
    \A i, j \in DOMAIN s : i < j /\ s[i].msg = s[j].msg => s[i].rev < s[j].rev

(* Every message a set has events of has a newest event in it.             *)
Topped(S) ==
    \A e \in S : \E d \in About(S, e.msg) : \A x \in About(S, e.msg) : x.rev <= d.rev

InHand == IF hpc = "idle" THEN {} ELSE {handling}
Coming == Held(wire) \cup InHand          \* not in text_events yet
Pending == Held(queue) \cup Coming        \* not processed by the UI yet

(* What the window of f still has to record before it has seen everything  *)
(* that was dispatched.                                                    *)
Unlogged(f) ==
    Held(wire) \cup IF hpc = "record" /\ f \in owed[Poller] THEN {handling} ELSE {}

-----------------------------------------------------------------------------
(* Where the handler is, what the recorder is busy with and which windows  *)
(* are open is the same thing said three times.                            *)
HandlerInv ==
    /\ hpc = "idle" <=> handling = NoEvent
    /\ inflight[Poller] = IF hpc = "record" THEN handling ELSE NoEvent
    /\ hpc = "record" => handling.rev # 1
    /\ owed[Poller] \subseteq open
    /\ hpc # "record" => owed[Poller] = {}

WindowInv ==
    \A f \in Fetches :
        /\ f \in open <=> fpc[f] \in {"asked", "answered", "merged"}
        /\ f \notin open => log[f] = <<>>
        /\ hpc = "record" /\ f \in open \ owed[Poller] => log[f] = <<>>

(* What is in flight is newer than what has passed, and no newer than the  *)
(* server's version.                                                       *)
OrderInv ==
    /\ Ordered(wire) /\ Ordered(queue)
    /\ \A e \in Pending : seen[e.msg] < e.rev /\ e.rev <= server[e.msg]
    /\ \A e \in Held(queue) : e.rev <= emitted[e.msg]
    /\ \A e \in Coming : emitted[e.msg] < e.rev
    /\ \A e \in InHand, d \in Held(wire) : e.msg = d.msg => e.rev < d.rev
    /\ \A m \in Msgs : seen[m] <= emitted[m] /\ emitted[m] <= server[m]
    /\ \A m \in Msgs : view[m] <= server[m] /\ \A f \in Fetches : list[f][m] <= server[m]

LogInv ==
    \A f \in Fetches :
        /\ Ordered(log[f]) /\ Topped(Held(log[f]))
        /\ \A e \in Held(log[f]) : 2 <= e.rev /\ e.rev <= server[e.msg]
        /\ \A e \in Held(log[f]), d \in Unlogged(f) : e.msg = d.msg => e.rev < d.rev

(* Nothing is lost outside the gaps: while anything of a message is in     *)
(* flight its newest version is, and a window that has recorded something  *)
(* of it and waits for nothing more has recorded that.                     *)
ArrivalInv ==
    \A m \in Msgs \ missed :
        /\ About(Pending, m) # {} => Event(m, server[m]) \in Pending
        /\ \A f \in open : About(Held(log[f]), m) # {} /\ About(Unlogged(f), m) = {}
                              => Event(m, server[m]) \in Held(log[f])

-----------------------------------------------------------------------------
(* A window that has events of m has one as new as all that was emitted,   *)
(* and as what is about to be; an answer without such events is as new.    *)
Passed(m, v) ==
    /\ emitted[m] <= v
    /\ hpc = "emit" /\ handling.msg = m => handling.rev <= v

FreshInv ==
    \A f \in open, m \in Msgs :
        /\ About(Held(log[f]), m) # {} => \E e \in About(Held(log[f]), m) : Passed(m, e.rev)
        /\ fpc[f] = "answered" /\ About(Held(log[f]), m) = {} /\ list[f][m] # Absent =>
             /\ Passed(m, list[f][m])
             /\ hpc = "record" /\ f \notin owed[Poller] /\ handling.msg = m
                  => handling.rev <= list[f][m]

StaleInv ==
    /\ ~fetched => view = [m \in Msgs |-> Absent]
    /\ NeverStale
    /\ \A f \in Fetches : fpc[f] \in {"merged", "returning"} =>
         \A m \in Msgs \ gap[f] : list[f][m] # Absent => seen[m] <= list[f][m]

-----------------------------------------------------------------------------
(* A list that shows v for m, of which the server has s, where the events  *)
(* S are still to come to it: if it shows nothing, there is nothing, or    *)
(* the creation is in flight; if it shows something, that is what the      *)
(* server has, or there is more to come.                                   *)
Tracks(v, s, m, S, flying) ==
    /\ v = Absent /\ s \notin {Absent, Gone} => Event(m, 1) \in flying
    /\ v # Absent /\ About(S, m) = {} => v = s

Merged(f) == ApplyToMessages(list[f], log[f])

AnsweredInv ==
    \A f \in Fetches : fpc[f] = "answered" =>
        \A m \in Msgs \ (missed \cup gap[f]) : Tracks(Merged(f)[m], server[m], m, Unlogged(f), Pending)

TrackInv ==
    /\ fetched /\ ~partial => \A m \in Msgs \ missed : Tracks(view[m], server[m], m, Pending, Pending)
    /\ \A f \in Fetches : fpc[f] \in {"merged", "returning"} =>
         \A m \in Msgs \ (missed \cup gap[f]) : Tracks(list[f][m], server[m], m, Pending, Pending)

IInv == /\ TypeOK /\ HandlerInv /\ WindowInv /\ OrderInv /\ LogInv /\ ArrivalInv
        /\ FreshInv /\ StaleInv /\ AnsweredInv /\ TrackInv

-----------------------------------------------------------------------------
(* Sequences as the sets they hold.                                        *)

(* force_push and the dispatch of an event add one event to a sequence.    *)
LEMMA HeldAppend ==
    ASSUME NEW S, NEW s \in Seq(S), NEW e \in S
    PROVE  /\ Append(s, e) \in Seq(S)
           /\ Held(Append(s, e)) = Held(s) \cup {e}
<1>1. /\ Append(s, e) \in Seq(S)
      /\ DOMAIN Append(s, e) = 1 .. Len(s) + 1
      /\ \A i \in 1 .. Len(s) : Append(s, e)[i] = s[i]
      /\ Append(s, e)[Len(s) + 1] = e
  OBVIOUS
<1>2. DOMAIN s = 1 .. Len(s) /\ Len(s) \in Nat
  OBVIOUS
<1>3. 1 .. Len(s) + 1 = (1 .. Len(s)) \cup {Len(s) + 1}
  BY <1>2
<1>4. QED
  BY <1>1, <1>2, <1>3 DEF Held

(* Popping the oldest event takes it out of what the sequence holds.       *)
LEMMA HeldTail ==
    ASSUME NEW S, NEW s \in Seq(S), s # <<>>
    PROVE  /\ Head(s) \in S /\ Tail(s) \in Seq(S)
           /\ Held(s) = Held(Tail(s)) \cup {Head(s)}
<1>1. /\ Head(s) \in S /\ Tail(s) \in Seq(S) /\ Head(s) = s[1]
      /\ DOMAIN s = 1 .. Len(s) /\ Len(s) \in Nat /\ Len(s) >= 1
      /\ DOMAIN Tail(s) = 1 .. Len(s) - 1
      /\ \A i \in 1 .. Len(s) - 1 : Tail(s)[i] = s[i + 1]
  OBVIOUS
<1>2. ASSUME NEW x \in Held(s) PROVE x \in Held(Tail(s)) \cup {Head(s)}
  <2>1. PICK i \in 1 .. Len(s) : x = s[i]
    BY <1>1 DEF Held
  <2>2. CASE i = 1
    BY <1>1, <2>1, <2>2
  <2>3. CASE i # 1
    <3>1. i - 1 \in 1 .. Len(s) - 1 /\ Tail(s)[i - 1] = x
      BY <1>1, <2>1, <2>3
    <3>2. QED
      BY <1>1, <3>1 DEF Held
  <2>4. QED
    BY <2>2, <2>3
<1>3. ASSUME NEW x \in Held(Tail(s)) PROVE x \in Held(s)
  <2>1. PICK i \in 1 .. Len(s) - 1 : x = Tail(s)[i]
    BY <1>1 DEF Held
  <2>2. i + 1 \in DOMAIN s /\ x = s[i + 1]
    BY <1>1, <2>1
  <2>3. QED
    BY <2>2 DEF Held
<1>4. Head(s) \in Held(s)
  BY <1>1 DEF Held
<1>5. QED
  BY <1>2, <1>3, <1>4

(* What a sequence holds is of its type.                                   *)
LEMMA HeldType ==
    ASSUME NEW S, NEW s \in Seq(S)
    PROVE  Held(s) \subseteq S
BY DEF Held

(* An event newer than all of its message keeps a sequence in order.       *)
LEMMA OrderedAppend ==
    ASSUME NEW s \in Seq(GatewayEvents), NEW e \in GatewayEvents, Ordered(s),
           \A d \in Held(s) : d.msg = e.msg => d.rev < e.rev
    PROVE  Ordered(Append(s, e))
<1>1. /\ DOMAIN Append(s, e) = 1 .. Len(s) + 1
      /\ \A i \in 1 .. Len(s) : Append(s, e)[i] = s[i]
      /\ Append(s, e)[Len(s) + 1] = e
      /\ DOMAIN s = 1 .. Len(s) /\ Len(s) \in Nat
  OBVIOUS
<1>2. SUFFICES ASSUME NEW i \in 1 .. Len(s) + 1, NEW j \in 1 .. Len(s) + 1, i < j,
                      Append(s, e)[i].msg = Append(s, e)[j].msg
               PROVE  Append(s, e)[i].rev < Append(s, e)[j].rev
  BY <1>1 DEF Ordered
<1>3. i \in 1 .. Len(s) /\ s[i] \in Held(s)
  BY <1>1, <1>2 DEF Held
<1>4. CASE j = Len(s) + 1
  BY <1>1, <1>2, <1>3, <1>4
<1>5. CASE j # Len(s) + 1
  <2>1. j \in 1 .. Len(s)
    BY <1>1, <1>5
  <2>2. QED
    BY <1>1, <1>2, <1>3, <2>1 DEF Ordered
<1>6. QED
  BY <1>4, <1>5

(* The oldest event of a sequence in order is the oldest of its message.   *)
LEMMA OrderedTail ==
    ASSUME NEW s \in Seq(GatewayEvents), s # <<>>, Ordered(s)
    PROVE  /\ Ordered(Tail(s))
           /\ \A d \in Held(Tail(s)) : d.msg = Head(s).msg => Head(s).rev < d.rev
<1>1. /\ Head(s) = s[1]
      /\ DOMAIN s = 1 .. Len(s) /\ Len(s) \in Nat /\ Len(s) >= 1
      /\ DOMAIN Tail(s) = 1 .. Len(s) - 1
      /\ \A i \in 1 .. Len(s) - 1 : Tail(s)[i] = s[i + 1]
  OBVIOUS
<1>2. ASSUME NEW i \in DOMAIN Tail(s), NEW j \in DOMAIN Tail(s), i < j,
             Tail(s)[i].msg = Tail(s)[j].msg
      PROVE  Tail(s)[i].rev < Tail(s)[j].rev
  <2>1. i + 1 \in DOMAIN s /\ j + 1 \in DOMAIN s /\ i + 1 < j + 1
    BY <1>1, <1>2
  <2>2. QED
    BY <1>1, <1>2, <2>1 DEF Ordered
<1>3. ASSUME NEW d \in Held(Tail(s)), d.msg = Head(s).msg PROVE Head(s).rev < d.rev
  <2>1. PICK i \in 1 .. Len(s) - 1 : d = Tail(s)[i]
    BY <1>1 DEF Held
  <2>2. 1 \in DOMAIN s /\ i + 1 \in DOMAIN s /\ 1 < i + 1 /\ d = s[i + 1]
    BY <1>1, <2>1
  <2>3. QED
    BY <1>1, <1>3, <2>2 DEF Ordered
<1>4. QED
  BY <1>2, <1>3 DEF Ordered

(* An event newer than all of its message is the newest of it.             *)
LEMMA ToppedAdd ==
    ASSUME NEW S \in SUBSET GatewayEvents, NEW e \in GatewayEvents, Topped(S),
           \A d \in S : d.msg = e.msg => d.rev < e.rev
    PROVE  Topped(S \cup {e})
<1>1. \A d \in S \cup {e} : d.rev \in Int
  BY DEF GatewayEvents
<1>2. SUFFICES ASSUME NEW x \in S \cup {e}
               PROVE  \E d \in About(S \cup {e}, x.msg) :
                         \A y \in About(S \cup {e}, x.msg) : y.rev <= d.rev
  BY DEF Topped
<1>3. CASE x.msg = e.msg
  <2>1. e \in About(S \cup {e}, x.msg)
    BY <1>3 DEF About
  <2>2. \A y \in About(S \cup {e}, x.msg) : y.rev <= e.rev
    BY <1>1, <1>3 DEF About
  <2>3. QED
    BY <2>1, <2>2
<1>4. CASE x.msg # e.msg
  <2>1. x \in S /\ About(S \cup {e}, x.msg) = About(S, x.msg)
    BY <1>4 DEF About
  <2>2. QED
    BY <2>1 DEF Topped
<1>5. QED
  BY <1>3, <1>4

-----------------------------------------------------------------------------
(* Versions are numbers, and Gone is the highest.                          *)
LEMMA VersionFacts ==
    /\ MaxRev \in Nat /\ MaxRev >= 1
    /\ Absent = 0 /\ Gone = MaxRev + 1
    /\ Versions \subseteq Int /\ Versions = 0 .. MaxRev + 1
BY ChatSyncAssumption DEF Absent, Gone, Versions

(* Events are pairs of a message and a version.                            *)
LEMMA EventFacts ==
    /\ \A e \in GatewayEvents : /\ e.msg \in Msgs /\ e.rev \in 1 .. MaxRev + 1
                                /\ e = Event(e.msg, e.rev)
    /\ \A m \in Msgs, v \in 1 .. MaxRev + 1 :
         /\ Event(m, v) \in GatewayEvents
         /\ Event(m, v).msg = m /\ Event(m, v).rev = v
BY DEF GatewayEvents, Event, Gone

(* v is what a list that had u for m shows after the events S.             *)
Folded(u, v, m, S) ==
    /\ v = Absent <=> u = Absent \/ Event(m, Gone) \in S
    /\ v # Absent => \/ About(S, m) = {} /\ v = u
                     \/ /\ Event(m, v) \in S
                        /\ \A e \in About(S, m) : e.rev <= v

(* apply_to_messages, for a log in order: what the snapshot does not list  *)
(* or an event deletes is out, and the newest event wins.                  *)
LEMMA MergeFolds ==
    ASSUME NEW msgs \in Lists, NEW s \in Seq(GatewayEvents),
           Ordered(s), Topped(Held(s))
    PROVE  /\ ApplyToMessages(msgs, s) \in Lists
           /\ \A m \in Msgs : Folded(msgs[m], ApplyToMessages(msgs, s)[m], m, Held(s))
<1> DEFINE M == ApplyToMessages(msgs, s)
<1> USE VersionFacts
<1>1. SUFFICES ASSUME NEW m \in Msgs
               PROVE  M[m] \in Absent .. MaxRev /\ Folded(msgs[m], M[m], m, Held(s))
  <2>1. M = [m \in Msgs |-> M[m]]
    BY DEF ApplyToMessages
  <2>2. QED
    BY <1>1, <2>1 DEF Lists
<1> DEFINE own == {i \in DOMAIN s : s[i].msg = m}
           last == CHOOSE i \in own : \A j \in own : j <= i
<1>2. M[m] = IF msgs[m] = Absent \/ \E i \in own : s[i].rev = Gone THEN Absent
             ELSE IF own = {} THEN msgs[m] ELSE s[last].rev
  BY DEF ApplyToMessages
<1>3. DOMAIN s = 1 .. Len(s) /\ Len(s) \in Nat /\ \A i \in DOMAIN s : s[i] \in GatewayEvents
  OBVIOUS
<1>4. About(Held(s), m) = {s[i] : i \in own}
  BY DEF About, Held
<1>5. (\E i \in own : s[i].rev = Gone) <=> Event(m, Gone) \in Held(s)
  BY <1>3, EventFacts DEF Held, Event
<1>6. msgs[m] \in Absent .. MaxRev
  BY DEF Lists
<1>7. CASE msgs[m] = Absent \/ Event(m, Gone) \in Held(s)
  <2>1. M[m] = Absent
    BY <1>2, <1>5, <1>7
  <2>2. QED
    BY <1>7, <2>1 DEF Folded
<1>8. CASE ~(msgs[m] = Absent \/ Event(m, Gone) \in Held(s)) /\ own = {}
  <2>1. M[m] = msgs[m]
    BY <1>2, <1>5, <1>8
  <2>2. About(Held(s), m) = {}
    BY <1>4, <1>8
  <2>3. QED
    BY <1>6, <1>8, <2>1, <2>2 DEF Folded
<1>9. CASE ~(msgs[m] = Absent \/ Event(m, Gone) \in Held(s)) /\ own # {}
  <2>1. M[m] = s[last].rev
    BY <1>2, <1>5, <1>9
  <2>2. PICK k \in own : \A j \in own : s[j].rev <= s[k].rev
    <3>1. PICK i \in own : TRUE
      BY <1>9
    <3>2. s[i] \in Held(s) /\ s[i].msg = m
      BY <3>1 DEF Held
    <3>3. PICK d \in About(Held(s), m) : \A x \in About(Held(s), m) : x.rev <= d.rev
      BY <3>2 DEF Topped
    <3>4. QED
      BY <1>4, <3>3
  <2>3. \A j \in own : j <= k
    <3>1. SUFFICES ASSUME NEW j \in own, k < j PROVE FALSE
      BY <1>3
    <3>2. s[k].rev < s[j].rev
      BY <3>1 DEF Ordered
    <3>3. s[j].rev <= s[k].rev /\ s[j].rev \in Int /\ s[k].rev \in Int
      BY <1>3, <2>2, EventFacts
    <3>4. QED
      BY <3>2, <3>3
  <2>4. last = k
    <3>1. last \in own /\ \A j \in own : j <= last
      BY <2>3
    <3>2. QED
      BY <1>3, <2>3, <3>1
  <2>5. M[m] = s[k].rev
    BY <2>1, <2>4
  <2>6. s[k] \in GatewayEvents /\ s[k].msg = m /\ s[k] \in Held(s)
    BY <1>3 DEF Held
  <2>7. s[k] = Event(m, M[m])
    BY <2>5, <2>6, EventFacts
  <2>8. M[m] \in 1 .. MaxRev
    BY <1>5, <1>9, <2>5, <2>6, EventFacts
  <2>9. \A e \in About(Held(s), m) : e.rev <= M[m]
    BY <1>4, <2>2, <2>5
  <2>10. QED
    BY <1>9, <2>6, <2>7, <2>8, <2>9 DEF Folded
<1>10. QED
  BY <1>7, <1>8, <1>9

(* What a fold shows of a message depends on the events of the message     *)
(* alone.                                                                  *)
LEMMA FoldedSame ==
    ASSUME NEW m \in Msgs, NEW u, NEW v \in Absent .. MaxRev, NEW w \in Absent .. MaxRev,
           NEW S \in SUBSET GatewayEvents, NEW T \in SUBSET GatewayEvents,
           About(S, m) = About(T, m), Folded(u, v, m, S), Folded(u, w, m, T)
    PROVE  v = w
<1> USE VersionFacts
<1>1. \A r \in 1 .. MaxRev + 1 : /\ Event(m, r) \in S <=> Event(m, r) \in About(S, m)
                                 /\ Event(m, r) \in T <=> Event(m, r) \in About(T, m)
  BY EventFacts DEF About
<1>2. v = Absent <=> w = Absent
  BY <1>1 DEF Folded
<1>3. CASE v # Absent /\ w # Absent
  <2>1. v \in 1 .. MaxRev + 1 /\ w \in 1 .. MaxRev + 1
    BY <1>3
  <2>2. CASE About(S, m) = {}
    BY <1>1, <1>3, <2>1, <2>2 DEF Folded
  <2>3. CASE About(S, m) # {}
    <3>1. /\ Event(m, v) \in About(S, m) /\ \A e \in About(S, m) : e.rev <= v
          /\ Event(m, w) \in About(T, m) /\ \A e \in About(T, m) : e.rev <= w
      BY <1>1, <1>3, <2>1, <2>3 DEF Folded
    <3>2. v <= w /\ w <= v
      BY <2>1, <3>1, EventFacts
    <3>3. QED
      BY <3>2
  <2>4. QED
    BY <2>2, <2>3
<1>4. QED
  BY <1>2, <1>3

(* Tracks asks for the events of the message alone.                        *)
LEMMA TracksSame ==
    ASSUME NEW m \in Msgs, NEW v, NEW s, NEW S, NEW T, NEW P, NEW Q,
           About(S, m) = About(T, m), About(P, m) = About(Q, m),
           Tracks(v, s, m, S, P)
    PROVE  Tracks(v, s, m, T, Q)
<1>1. Event(m, 1).msg = m
  BY EventFacts, VersionFacts
<1>2. Event(m, 1) \in P <=> Event(m, 1) \in Q
  BY <1>1 DEF About
<1>3. QED
  BY <1>2 DEF Tracks

-----------------------------------------------------------------------------
(* What the type invariant says of the sets of events.                     *)
LEMMA EventTypes ==
    ASSUME TypeOK, HandlerInv
    PROVE  /\ Held(wire) \subseteq GatewayEvents /\ Held(queue) \subseteq GatewayEvents
           /\ InHand \subseteq GatewayEvents
           /\ Coming \subseteq GatewayEvents /\ Pending \subseteq GatewayEvents
           /\ \A f \in Fetches : /\ Held(log[f]) \subseteq GatewayEvents
                                 /\ Unlogged(f) \subseteq Coming
           /\ hpc # "idle" => handling \in GatewayEvents /\ InHand = {handling}
           /\ hpc = "idle" => InHand = {}
<1>1. Held(wire) \subseteq GatewayEvents /\ Held(queue) \subseteq GatewayEvents
  BY HeldType DEF TypeOK
<1>2. \A f \in Fetches : Held(log[f]) \subseteq GatewayEvents
  BY HeldType DEF TypeOK
<1>3. hpc # "idle" => handling \in GatewayEvents
  BY DEF TypeOK, HandlerInv
<1>4. QED
  BY <1>1, <1>2, <1>3 DEF InHand, Coming, Pending, Unlogged

(* What it says of the versions in lists and histories.                    *)
LEMMA NumberTypes ==
    ASSUME TypeOK
    PROVE  \A m \in Msgs :
             /\ server[m] \in 0 .. MaxRev + 1 /\ seen[m] \in 0 .. MaxRev + 1
             /\ emitted[m] \in 0 .. MaxRev + 1 /\ view[m] \in 0 .. MaxRev
             /\ \A f \in Fetches : list[f][m] \in 0 .. MaxRev
BY VersionFacts DEF TypeOK, Lists

(* At the start nothing is in flight, no window is open and no room shown. *)
LEMMA InitInv == Init => IInv
<1> SUFFICES ASSUME Init PROVE IInv
  OBVIOUS
<1> USE VersionFacts
<1>1. Held(<<>>) = {} /\ Ordered(<<>>) /\ Topped({}) /\ \A m \in Msgs : About({}, m) = {}
  BY DEF Held, Ordered, Topped, About
<1>2. /\ wire = <<>> /\ queue = <<>> /\ handling = NoEvent /\ hpc = "idle"
      /\ open = {} /\ owed = [p \in {Poller} |-> {}] /\ inflight = [p \in {Poller} |-> NoEvent]
      /\ log = [f \in Fetches |-> <<>>] /\ taken = [f \in Fetches |-> <<>>]
      /\ fpc = [f \in Fetches |-> "idle"] /\ fetched = FALSE /\ missed = {}
      /\ list = [f \in Fetches |-> [m \in Msgs |-> Absent]]
      /\ view = [m \in Msgs |-> Absent]
      /\ seen = [m \in Msgs |-> Absent] /\ emitted = [m \in Msgs |-> Absent]
      /\ server \in [Msgs -> {Absent, 1}]
  BY DEF Init, Rec!Init
<1>3. TypeOK
  <2>1. /\ server \in [Msgs -> Versions] /\ seen \in [Msgs -> Versions]
        /\ emitted \in [Msgs -> Versions]
    BY <1>2
  <2>2. view \in Lists /\ list \in [Fetches -> Lists]
    BY <1>2 DEF Lists
  <2>3. <<>> \in Seq(GatewayEvents) /\ Len(<<>>) = 0
    OBVIOUS
  <2>4. /\ open \subseteq Fetches /\ log \in [Fetches -> Seq(GatewayEvents)]
        /\ taken \in [Fetches -> Seq(GatewayEvents)]
        /\ inflight \in [{Poller} -> GatewayEvents \cup {NoEvent}]
        /\ owed \in [{Poller} -> SUBSET Fetches]
    BY <1>2, <2>3
  <2>5. /\ wire \in Seq(GatewayEvents) /\ queue \in Seq(GatewayEvents)
        /\ Len(queue) <= QueueCap
    BY <1>2, <2>3, ChatSyncAssumption
  <2>6. changes = 0 /\ gap = [f \in Fetches |-> {}] /\ partial = FALSE
    BY DEF Init
  <2>7. changes \in 0 .. MaxChanges
    BY ChatSyncAssumption, <2>6
  <2>8. gap \in [Fetches -> SUBSET Msgs]
    BY <2>6
  <2>9. partial \in BOOLEAN
    BY <2>6
  <2>10. /\ fpc \in [Fetches -> {"idle", "asked", "answered", "merged", "returning"}]
        /\ handling \in GatewayEvents \cup {NoEvent} /\ missed \subseteq Msgs
        /\ hpc \in {"idle", "record", "emit"} /\ fetched \in BOOLEAN
    BY <1>2
  <2>11. QED
    BY <2>1, <2>2, <2>4, <2>5, <2>7, <2>8, <2>9, <2>10 DEF TypeOK
<1>4. InHand = {} /\ Coming = {} /\ Pending = {} /\ \A f \in Fetches : Unlogged(f) = {}
  BY <1>1, <1>2 DEF InHand, Coming, Pending, Unlogged
<1>5. HandlerInv /\ WindowInv
  BY <1>2 DEF HandlerInv, WindowInv
<1>6. OrderInv /\ LogInv /\ ArrivalInv
  <2>1. \A f \in Fetches : Held(log[f]) = {} /\ Ordered(log[f]) /\ Topped(Held(log[f]))
    BY <1>1, <1>2
  <2>2. \A m \in Msgs : /\ seen[m] = 0 /\ emitted[m] = 0 /\ view[m] = 0
                        /\ server[m] \in {0, 1} /\ \A f \in Fetches : list[f][m] = 0
    BY <1>2
  <2>3. OrderInv
    BY <1>1, <1>2, <1>4, <2>2 DEF OrderInv
  <2>4. LogInv
    BY <1>4, <2>1 DEF LogInv
  <2>5. ArrivalInv
    BY <1>1, <1>2, <1>4 DEF ArrivalInv
  <2>6. QED
    BY <2>3, <2>4, <2>5
<1>7. FreshInv /\ StaleInv /\ AnsweredInv /\ TrackInv
  BY <1>2 DEF FreshInv, StaleInv, NeverStale, Lagging, AnsweredInv, TrackInv
<1>8. QED
  BY <1>3, <1>5, <1>6, <1>7 DEF IInv

(* The dispatch of a change: one more event on the wire.                   *)
LEMMA ChangeInv ==
    ASSUME IInv, NEW m \in Msgs, NEW v \in 1 .. Gone, Change(m, v)
    PROVE  IInv'
<1> DEFINE e == Event(m, v)
<1> USE VersionFacts DEF IInv
<1>1. /\ server' = [server EXCEPT ![m] = v] /\ changes' = changes + 1
      /\ changes < MaxChanges /\ server[m] # Gone
      /\ v = server[m] + 1 \/ (server[m] # Absent /\ v = Gone)
      /\ wire' = Append(wire, e)
  BY DEF Change, Event
<1>2. UNCHANGED <<handling, hpc, queue, open, log, taken, inflight, owed, fpc, list,
                  fetched, view, seen, emitted, gap, missed, partial>>
  BY DEF Change, windows, history
<1>3. e \in GatewayEvents /\ e.msg = m /\ e.rev = v
  BY EventFacts
<1>4. Held(wire') = Held(wire) \cup {e} /\ wire' \in Seq(GatewayEvents)
  BY <1>1, <1>3, HeldAppend DEF TypeOK
<1>5. /\ InHand' = InHand /\ Coming' = Coming \cup {e} /\ Pending' = Pending \cup {e}
      /\ \A f \in Fetches : Unlogged(f)' = Unlogged(f) \cup {e}
  BY <1>2, <1>4 DEF InHand, Coming, Pending, Unlogged
<1>6. server[m] < v /\ server'[m] = v /\ \A x \in Msgs : x # m => server'[x] = server[x]
  BY <1>1, NumberTypes DEF TypeOK
<1>7. \A x \in Msgs : server[x] <= server'[x] /\ server[x] \in Int /\ server'[x] \in Int
  BY <1>6, NumberTypes
<1>8. TypeOK'
  <2>1. server' \in [Msgs -> Versions] /\ changes' \in 0 .. MaxChanges
    BY <1>1, ChatSyncAssumption DEF TypeOK
  <2>2. QED
    BY <1>2, <1>4, <2>1 DEF TypeOK
<1>9. HandlerInv' /\ WindowInv'
  BY <1>2 DEF HandlerInv, WindowInv
<1> HIDE DEF e
<1>10. OrderInv'
  <2>1. Ordered(wire)'
    <3>1. \A d \in Held(wire) : d.msg = e.msg => d.rev < e.rev
      BY <1>3, <1>6, EventTypes, EventFacts, NumberTypes DEF OrderInv, Pending, Coming
    <3>2. QED
      BY <1>1, <1>3, <3>1, OrderedAppend DEF TypeOK, OrderInv
  <2>2. ASSUME NEW d \in Pending'
        PROVE  d \in GatewayEvents /\ seen[d.msg] < d.rev /\ d.rev <= server'[d.msg]
    <3>1. CASE d = e
      <4>1. seen[m] <= server[m] /\ seen[m] \in Int /\ server[m] \in Int /\ v \in Int
        BY NumberTypes DEF OrderInv
      <4>2. QED
        BY <1>3, <1>6, <3>1, <4>1
    <3>2. CASE d \in Pending
      <4>1. d \in GatewayEvents /\ seen[d.msg] < d.rev /\ d.rev <= server[d.msg]
        BY <3>2, EventTypes DEF OrderInv
      <4>2. server[d.msg] <= server'[d.msg] /\ server[d.msg] \in Int /\ server'[d.msg] \in Int
            /\ d.rev \in Int
        BY <1>7, <4>1, EventFacts
      <4>3. QED
        BY <4>1, <4>2
    <3>3. QED
      BY <1>5, <3>1, <3>2
  <2>3. \A d \in Coming' : emitted[d.msg] < d.rev
    BY <1>3, <1>5, <1>6, <1>7, EventTypes, EventFacts, NumberTypes DEF OrderInv
  <2>4. \A d \in InHand, x \in Held(wire)' : d.msg = x.msg => d.rev < x.rev
    BY <1>3, <1>4, <1>6, EventTypes, EventFacts, NumberTypes DEF OrderInv, Pending, Coming
  <2>5. \A x \in Msgs : /\ seen[x] <= emitted[x] /\ emitted[x] <= server'[x]
                        /\ view[x] <= server'[x] /\ \A f \in Fetches : list[f][x] <= server'[x]
    BY <1>7, NumberTypes DEF OrderInv
  <2>6. QED
    BY <1>2, <1>5, <2>1, <2>2, <2>3, <2>4, <2>5 DEF OrderInv
<1>11. LogInv'
  <2>1. \A f \in Fetches : \A d \in Held(log[f]) :
          /\ 2 <= d.rev /\ d.rev <= server'[d.msg]
          /\ d.msg = m => d.rev < v
    BY <1>6, <1>7, EventTypes, EventFacts DEF LogInv
  <2>2. QED
    BY <1>2, <1>3, <1>5, <2>1 DEF LogInv
<1>12. ArrivalInv'
  <2>1. SUFFICES ASSUME NEW x \in Msgs \ missed
                 PROVE  /\ About(Pending, x)' # {} => Event(x, server'[x]) \in Pending'
                        /\ \A f \in open : About(Held(log[f]), x) # {} /\ About(Unlogged(f), x)' = {}
                               => Event(x, server'[x]) \in Held(log[f])
    BY <1>2 DEF ArrivalInv
  <2>2. CASE x = m
    BY <1>3, <1>5, <1>6, <2>2 DEF About, e, TypeOK
  <2>3. CASE x # m
    <3>1. /\ About(Pending, x)' = About(Pending, x)
          /\ \A f \in Fetches : About(Unlogged(f), x)' = About(Unlogged(f), x)
      BY <1>3, <1>5, <2>3 DEF About
    <3>2. QED
      BY <1>5, <1>6, <2>3, <3>1 DEF ArrivalInv, TypeOK
  <2>4. QED
    BY <2>2, <2>3
<1>13. FreshInv' /\ StaleInv'
  BY <1>2 DEF FreshInv, Passed, StaleInv, NeverStale, Lagging
<1>14. ASSUME NEW x \in Msgs, NEW u, NEW S, Tracks(u, server[x], x, S, Pending)
       PROVE  Tracks(u, server'[x], x, S \cup {e}, Pending')
  <2>1. CASE x = m
    <3>1. e \in About(S \cup {e}, x)
      BY <1>3, <2>1 DEF About
    <3>2. u = Absent /\ v # Gone => v = 1 \/ Event(x, 1) \in Pending
      BY <1>1, <1>14, <2>1, NumberTypes DEF Tracks
    <3>3. QED
      BY <1>5, <1>6, <2>1, <3>1, <3>2 DEF Tracks, e
  <2>2. CASE x # m
    <3>1. About(S \cup {e}, x) = About(S, x)
      BY <1>3, <2>2 DEF About
    <3>2. QED
      BY <1>5, <1>6, <1>14, <2>2, <3>1 DEF Tracks
  <2>3. QED
    BY <2>1, <2>2
<1>15. AnsweredInv'
  <2>1. \A f \in Fetches : Merged(f)' = Merged(f)
    BY <1>2 DEF Merged
  <2>2. SUFFICES ASSUME NEW f \in Fetches, fpc[f] = "answered",
                        NEW x \in Msgs \ (missed \cup gap[f])
                 PROVE  Tracks(Merged(f)[x], server'[x], x, Unlogged(f)', Pending')
    BY <1>2, <2>1 DEF AnsweredInv
  <2>3. Tracks(Merged(f)[x], server[x], x, Unlogged(f), Pending)
    BY <2>2 DEF AnsweredInv
  <2>4. x \in Msgs /\ Unlogged(f)' = Unlogged(f) \cup {e}
    BY <1>5, <2>2
  <2>5. Tracks(Merged(f)[x], server'[x], x, Unlogged(f) \cup {e}, Pending')
    BY <1>14, <2>3, <2>4
  <2>6. QED
    BY <2>4, <2>5
<1>16. TrackInv'
  BY <1>2, <1>5, <1>14 DEF TrackInv
<1>17. QED
  BY <1>8, <1>9, <1>10, <1>11, <1>12, <1>13, <1>15, <1>16

(* The handler takes an event off the wire.  A create is ready to be       *)
(* emitted; whatever else is owed to the windows that are open now.        *)
LEMMA ReceiveInv ==
    ASSUME IInv, Receive
    PROVE  IInv'
<1> DEFINE e == Head(wire)
<1> USE VersionFacts DEF IInv
<1>1. /\ hpc = "idle" /\ wire # <<>> /\ handling' = e /\ wire' = Tail(wire)
      /\ UNCHANGED <<server, changes, queue, open, log, taken, fpc, list,
                     fetched, view, seen, emitted, gap, missed, partial>>
  BY DEF Receive, room, windows, history, Rec!Begin
<1>2. \/ e.rev = 1 /\ hpc' = "emit" /\ UNCHANGED <<inflight, owed>>
      \/ /\ e.rev # 1 /\ hpc' = "record"
         /\ inflight' = [inflight EXCEPT ![Poller] = e]
         /\ owed' = [owed EXCEPT ![Poller] = open]
  BY DEF Receive, windows, Rec!Begin
<1>3. /\ e \in GatewayEvents /\ wire' \in Seq(GatewayEvents)
      /\ Held(wire) = Held(wire') \cup {e}
  BY <1>1, HeldTail DEF TypeOK
<1>4. /\ Ordered(wire')
      /\ \A d \in Held(wire') : d.msg = e.msg => e.rev < d.rev
  BY <1>1, OrderedTail DEF TypeOK, OrderInv
<1>5. e # NoEvent
  BY <1>3, NoEventAssumption
<1>6. /\ InHand = {} /\ InHand' = {e} /\ Coming' = Coming /\ Pending' = Pending
  BY <1>1, <1>2, <1>3 DEF InHand, Coming, Pending
<1>7. owed \in [{Poller} -> SUBSET Fetches] /\ inflight \in [{Poller} -> GatewayEvents \cup {NoEvent}]
      /\ owed[Poller] = {}
  BY <1>1 DEF TypeOK, HandlerInv
<1>8. \A f \in Fetches : Unlogged(f) = Held(wire)
  BY <1>7, <1>1 DEF Unlogged
<1>9. \A f \in open : Unlogged(f)' = IF e.rev = 1 THEN Held(wire') ELSE Held(wire)
  BY <1>1, <1>2, <1>3, <1>7 DEF Unlogged
<1>10. \A f \in Fetches : Unlogged(f)' \subseteq Unlogged(f)
  BY <1>1, <1>2, <1>3, <1>7, <1>8 DEF Unlogged
<1>11. TypeOK'
  <2>1. owed' \in [{Poller} -> SUBSET Fetches]
    BY <1>2, <1>7 DEF TypeOK
  <2>2. inflight' \in [{Poller} -> GatewayEvents \cup {NoEvent}]
    BY <1>2, <1>3, <1>7
  <2>3. hpc' \in {"idle", "record", "emit"}
    BY <1>2
  <2>4. QED
    BY <1>1, <1>3, <2>1, <2>2, <2>3 DEF TypeOK
<1>12. HandlerInv'
  BY <1>1, <1>2, <1>5, <1>7 DEF HandlerInv
<1>13. WindowInv'
  BY <1>1, <1>2, <1>7 DEF WindowInv
<1>14. OrderInv'
  BY <1>1, <1>3, <1>4, <1>6 DEF OrderInv
<1>15. LogInv'
  BY <1>1, <1>10 DEF LogInv
<1>16. \A f \in Fetches : \A d \in Held(log[f]) : d.msg = e.msg => e.rev # 1
  BY <1>3, <1>8, EventTypes, EventFacts DEF LogInv
<1>17. ArrivalInv'
  <2>1. SUFFICES ASSUME NEW m \in Msgs \ missed, NEW f \in open,
                        About(Held(log[f]), m) # {}, About(Unlogged(f), m)' = {}
                 PROVE  Event(m, server[m]) \in Held(log[f])
    BY <1>1, <1>6 DEF ArrivalInv
  <2>2. f \in Fetches
    BY DEF TypeOK
  <2>3. About(Unlogged(f), m) = {}
    <3>1. CASE e.rev = 1
      <4>1. e.msg # m
        BY <1>16, <2>1, <2>2, <3>1 DEF About
      <4>2. QED
        BY <1>3, <1>8, <1>9, <2>1, <2>2, <3>1, <4>1 DEF About
    <3>2. CASE e.rev # 1
      BY <1>8, <1>9, <2>1, <2>2, <3>2
    <3>3. QED
      BY <3>1, <3>2
  <2>4. QED
    BY <2>1, <2>3 DEF ArrivalInv
<1>18. FreshInv'
  <2>1. SUFFICES ASSUME NEW f \in open, NEW m \in Msgs
                 PROVE /\ About(Held(log[f]), m) # {} => \E d \in About(Held(log[f]), m) : Passed(m, d.rev)'
                       /\ fpc[f] = "answered" /\ About(Held(log[f]), m) = {} /\ list[f][m] # Absent =>
                            /\ Passed(m, list[f][m])'
                            /\ hpc' = "record" /\ f \notin owed'[Poller] /\ handling'.msg = m
                                 => handling'.rev <= list[f][m]
    BY <1>1 DEF FreshInv, Passed
  <2>2. f \in Fetches
    BY DEF TypeOK
  <2>3. hpc' = "record" => f \in owed'[Poller]
    BY <1>2, <1>7
  <2>4. hpc' = "emit" => e.rev = 1
    BY <1>2
  <2>5. list[f][m] # Absent /\ e.rev = 1 => e.rev <= list[f][m]
    BY <2>2, NumberTypes
  <2>6. \A d \in About(Held(log[f]), m) : e.rev = 1 => e.rev <= d.rev
    BY <2>2, EventTypes, EventFacts DEF About
  <2>7. QED
    BY <1>1, <2>2, <2>3, <2>4, <2>5, <2>6 DEF FreshInv, Passed
<1>19. StaleInv'
  BY <1>1 DEF StaleInv, NeverStale, Lagging
<1>20. AnsweredInv'
  <2>1. \A f \in Fetches : Merged(f)' = Merged(f)
    BY <1>1 DEF Merged
  <2>2. SUFFICES ASSUME NEW f \in Fetches, fpc[f] = "answered",
                        NEW m \in Msgs \ (missed \cup gap[f])
                 PROVE  Tracks(Merged(f)[m], server[m], m, Unlogged(f)', Pending)
    BY <1>1, <1>6, <2>1 DEF AnsweredInv
  <2>3. Tracks(Merged(f)[m], server[m], m, Unlogged(f), Pending)
    BY <2>2 DEF AnsweredInv
  <2>4. f \in open
    BY <2>2 DEF WindowInv
  <2>5. CASE e.rev # 1 \/ e.msg # m
    <3>1. About(Unlogged(f)', m) = About(Unlogged(f), m)
      BY <1>3, <1>8, <1>9, <2>2, <2>4, <2>5 DEF About
    <3>2. QED
      BY <2>3, <3>1 DEF Tracks
  <2>6. CASE e.rev = 1 /\ e.msg = m
    <3>1. SUFFICES ASSUME Merged(f)[m] # Absent, About(Held(wire'), m) = {}
                   PROVE  Merged(f)[m] = server[m]
      BY <1>9, <2>3, <2>4, <2>6 DEF Tracks
    <3>2. e \in Held(wire) /\ e \in About(Pending, m)
      BY <1>3, <2>6 DEF Pending, Coming, About
    <3>3. Event(m, server[m]) \in Pending
      BY <2>2, <3>2 DEF ArrivalInv
    <3>4. server[m] \in Int /\ 1 <= server[m] /\ emitted[m] < 1
      BY <1>3, <2>2, <2>6, <3>2, NumberTypes DEF OrderInv, Pending, Coming
    <3>5. Event(m, server[m]).msg = m /\ Event(m, server[m]).rev = server[m]
      BY <2>2, <3>4, NumberTypes, EventFacts
    <3>6. Event(m, server[m]) \notin Held(queue)
      BY <3>4, <3>5, NumberTypes, <2>2 DEF OrderInv
    <3>7. Event(m, server[m]) = e
      BY <1>3, <1>6, <3>1, <3>3, <3>5, <3>6 DEF Pending, Coming, About
    <3>8. server[m] = 1
      BY <2>6, <3>5, <3>7
    <3>9. log[f] \in Seq(GatewayEvents) /\ list[f] \in Lists
      BY DEF TypeOK
    <3>10. Folded(list[f][m], Merged(f)[m], m, Held(log[f]))
      BY <2>2, <3>9, MergeFolds DEF Merged, LogInv
    <3>11. About(Held(log[f]), m) = {}
      BY <1>16, <2>6 DEF About
    <3>12. Merged(f)[m] = list[f][m]
      <4>1. Event(m, Gone) \notin Held(log[f])
        BY <2>2, <3>11, EventFacts DEF About
      <4>2. QED
        BY <3>1, <3>10, <3>11 DEF Folded, About, Event
    <3>13. QED
      BY <2>2, <3>1, <3>8, <3>12, NumberTypes DEF OrderInv
  <2>7. QED
    BY <2>5, <2>6
<1>21. TrackInv'
  BY <1>1, <1>6 DEF TrackInv
<1>22. QED
  BY <1>11, <1>12, <1>13, <1>14, <1>15, <1>17, <1>18, <1>19, <1>20, <1>21

(* maybe_record returns: the event is in the log of every window, or in    *)
(* none if no window was open when it started.                             *)
LEMMA RecordInv ==
    ASSUME IInv, Record
    PROVE  IInv'
<1> DEFINE e == handling
           Grown(f) == log'[f] = Append(log[f], e)
<1> USE VersionFacts DEF IInv
<1>1. /\ hpc = "record" /\ hpc' = "emit"
      /\ UNCHANGED <<server, changes, wire, handling, queue, open, taken, fpc, list,
                     fetched, view, seen, emitted, gap, missed, partial>>
      /\ inflight' = [inflight EXCEPT ![Poller] = NoEvent]
      /\ owed' = [owed EXCEPT ![Poller] = {}]
  BY DEF Record, room, history, Rec!Finish
<1>2. \/ log' = [w \in Fetches |-> IF w \in open THEN Append(log[w], inflight[Poller])
                                                ELSE log[w]]
      \/ owed[Poller] = {} /\ log' = log
  BY DEF Record, Rec!Finish
<1>3. /\ e \in GatewayEvents /\ inflight[Poller] = e
      /\ owed \in [{Poller} -> SUBSET Fetches] /\ log \in [Fetches -> Seq(GatewayEvents)]
      /\ inflight \in [{Poller} -> GatewayEvents \cup {NoEvent}]
  BY <1>1, EventTypes DEF HandlerInv, TypeOK
<1>4. ASSUME NEW f \in Fetches
      PROVE  \/ f \in open /\ Grown(f)
             \/ f \notin open /\ log'[f] = log[f]
             \/ f \in open \ owed[Poller] /\ log[f] = <<>> /\ log'[f] = <<>>
  BY <1>1, <1>2, <1>3 DEF WindowInv
<1>5. ASSUME NEW f \in Fetches, f \in open, Grown(f)
      PROVE  /\ Held(log'[f]) = Held(log[f]) \cup {e} /\ Ordered(log'[f])
             /\ Topped(Held(log'[f])) /\ log'[f] \in Seq(GatewayEvents)
             /\ \A d \in Held(log[f]) : d.msg = e.msg => d.rev < e.rev
  <2>1. \A d \in Held(log[f]) : d.msg = e.msg => d.rev < e.rev
    <3>1. CASE f \in owed[Poller]
      BY <1>1, <3>1 DEF LogInv, Unlogged
    <3>2. CASE f \notin owed[Poller]
      BY <1>1, <1>5, <3>2 DEF WindowInv, Held
    <3>3. QED
      BY <3>1, <3>2
  <2>2. log[f] \in Seq(GatewayEvents) /\ Ordered(log[f]) /\ Topped(Held(log[f]))
        /\ Held(log[f]) \in SUBSET GatewayEvents
    BY <1>3, HeldType DEF LogInv
  <2>3. QED
    BY <1>3, <1>5, <2>1, <2>2, HeldAppend, OrderedAppend, ToppedAdd
<1> HIDE DEF Grown
<1>6. InHand = {e} /\ InHand' = InHand /\ Coming' = Coming /\ Pending' = Pending
  BY <1>1 DEF InHand, Coming, Pending
<1>7. /\ \A f \in Fetches : Unlogged(f)' = Held(wire)
      /\ \A f \in owed[Poller] : Unlogged(f) = Held(wire) \cup {e}
      /\ \A f \in Fetches \ owed[Poller] : Unlogged(f) = Held(wire)
  BY <1>1 DEF Unlogged
<1>8. /\ seen[e.msg] < e.rev /\ e.rev <= server[e.msg] /\ emitted[e.msg] < e.rev
      /\ \A d \in Held(wire) : e.msg = d.msg => e.rev < d.rev
      /\ e \in Pending
  BY <1>6 DEF OrderInv, Pending, Coming
<1>9. 2 <= e.rev
  BY <1>1, <1>3, EventFacts DEF HandlerInv
<1>10. TypeOK'
  <2>1. log' \in [Fetches -> Seq(GatewayEvents)]
    <3>1. \A f \in Fetches : log'[f] \in Seq(GatewayEvents)
      BY <1>3, <1>4, <1>5
    <3>2. log' = [f \in Fetches |-> log'[f]]
      BY <1>2, <1>3
    <3>3. QED
      BY <3>1, <3>2
  <2>2. owed' \in [{Poller} -> SUBSET Fetches] /\ hpc' \in {"idle", "record", "emit"}
    BY <1>1, <1>3
  <2>3. inflight' \in [{Poller} -> GatewayEvents \cup {NoEvent}]
    BY <1>1, <1>3
  <2>4. QED
    BY <1>1, <2>1, <2>2, <2>3 DEF TypeOK
<1>11. HandlerInv'
  BY <1>1, <1>3 DEF HandlerInv
<1>12. WindowInv'
  BY <1>1, <1>4 DEF WindowInv
<1>13. OrderInv'
  BY <1>1, <1>6 DEF OrderInv
<1>14. LogInv'
  <2>1. SUFFICES ASSUME NEW f \in Fetches
                 PROVE  /\ Ordered(log'[f]) /\ Topped(Held(log'[f]))
                        /\ \A d \in Held(log'[f]) : 2 <= d.rev /\ d.rev <= server[d.msg]
                        /\ \A d \in Held(log'[f]), x \in Held(wire) :
                              d.msg = x.msg => d.rev < x.rev
    BY <1>1, <1>7 DEF LogInv
  <2>2. Held(wire) \subseteq Unlogged(f)
    BY DEF Unlogged
  <2>3. CASE log'[f] = log[f]
    BY <2>2, <2>3 DEF LogInv
  <2>4. CASE f \in open /\ Grown(f)
    <3>1. \A d \in Held(log[f]) : /\ 2 <= d.rev /\ d.rev <= server[d.msg]
                                  /\ \A x \in Held(wire) : d.msg = x.msg => d.rev < x.rev
      BY <2>2 DEF LogInv
    <3>2. /\ Held(log'[f]) = Held(log[f]) \cup {e}
          /\ Ordered(log'[f]) /\ Topped(Held(log'[f]))
      BY <1>5, <2>4
    <3>3. \A d \in Held(log'[f]) : 2 <= d.rev /\ d.rev <= server[d.msg]
      BY <1>8, <1>9, <3>1, <3>2
    <3>4. \A d \in Held(log'[f]) : \A x \in Held(wire) : d.msg = x.msg => d.rev < x.rev
      BY <1>8, <3>1, <3>2
    <3>5. QED
      BY <3>2, <3>3, <3>4
  <2>5. QED
    BY <1>4, <2>3, <2>4
<1>15. ASSUME e.msg \notin missed, About(Held(wire), e.msg) = {}
       PROVE  Event(e.msg, server[e.msg]) = e /\ e.rev = server[e.msg]
  <2>1. e \in About(Pending, e.msg) /\ e.msg \in Msgs /\ server[e.msg] \in 1 .. MaxRev + 1
    BY <1>3, <1>8, <1>9, NumberTypes, EventFacts DEF About
  <2>2. Event(e.msg, server[e.msg]) \in Pending
    BY <1>15, <2>1 DEF ArrivalInv
  <2>3. /\ Event(e.msg, server[e.msg]).msg = e.msg
        /\ Event(e.msg, server[e.msg]).rev = server[e.msg]
    BY <2>1, EventFacts
  <2>4. Event(e.msg, server[e.msg]) \notin Held(queue)
    BY <1>3, <1>8, <2>1, <2>3, NumberTypes, EventFacts DEF OrderInv
  <2>5. Event(e.msg, server[e.msg]) \notin Held(wire)
    BY <1>15, <2>3 DEF About
  <2>6. QED
    BY <1>6, <2>2, <2>3, <2>4, <2>5 DEF Pending, Coming
<1>16. ASSUME NEW f \in Fetches, NEW m \in Msgs, e.msg # m
       PROVE  About(Held(log'[f]), m) = About(Held(log[f]), m)
              /\ About(Unlogged(f), m)' = About(Unlogged(f), m)
  <2>1. Held(log'[f]) = Held(log[f]) \/ Held(log'[f]) = Held(log[f]) \cup {e}
    BY <1>4, <1>5
  <2>2. QED
    BY <1>7, <1>16, <2>1 DEF About
<1>17. ArrivalInv'
  <2>1. SUFFICES ASSUME NEW m \in Msgs \ missed, NEW f \in open,
                        About(Held(log'[f]), m) # {}, About(Held(wire), m) = {}
                 PROVE  Event(m, server[m]) \in Held(log'[f])
    BY <1>1, <1>6, <1>7 DEF ArrivalInv, TypeOK
  <2>2. f \in Fetches
    BY DEF TypeOK
  <2>3. CASE e.msg # m
    <3>1. Event(m, server[m]) \in Held(log[f])
      BY <1>7, <1>16, <2>1, <2>2, <2>3 DEF ArrivalInv
    <3>2. QED
      BY <1>4, <1>5, <2>2, <3>1
  <2>4. CASE e.msg = m
    <3>1. CASE Grown(f)
      BY <1>5, <1>15, <2>1, <2>2, <2>4, <3>1
    <3>2. CASE log'[f] = <<>>
      BY <2>1, <3>2 DEF About, Held
    <3>3. QED
      BY <1>4, <2>2, <3>1, <3>2
  <2>5. QED
    BY <2>3, <2>4
<1>18. FreshInv'
  <2>1. SUFFICES ASSUME NEW f \in open, NEW m \in Msgs
                 PROVE /\ About(Held(log'[f]), m) # {} =>
                             \E d \in About(Held(log'[f]), m) :
                                emitted[m] <= d.rev /\ (e.msg = m => e.rev <= d.rev)
                       /\ fpc[f] = "answered" /\ About(Held(log'[f]), m) = {} /\ list[f][m] # Absent
                             => emitted[m] <= list[f][m] /\ (e.msg = m => e.rev <= list[f][m])
    BY <1>1 DEF FreshInv, Passed
  <2>2. f \in Fetches
    BY DEF TypeOK
  <2>3. CASE e.msg # m
    BY <1>16, <2>2, <2>3 DEF FreshInv, Passed
  <2>4. CASE e.msg = m /\ Grown(f)
    <3>1. e \in About(Held(log'[f]), m)
      BY <1>5, <2>2, <2>4 DEF About
    <3>2. emitted[m] <= e.rev /\ e.rev <= e.rev
      BY <1>3, <1>8, <2>4, NumberTypes, EventFacts
    <3>3. QED
      BY <3>1, <3>2
  <2>5. CASE e.msg = m /\ f \notin owed[Poller] /\ log[f] = <<>> /\ log'[f] = <<>>
    <3>1. About(Held(<<>>), m) = {}
      BY DEF About, Held
    <3>2. QED
      BY <1>1, <2>5, <3>1 DEF FreshInv, Passed
  <2>6. QED
    BY <1>4, <2>2, <2>3, <2>4, <2>5
<1>19. StaleInv'
  BY <1>1 DEF StaleInv, NeverStale, Lagging
<1>20. AnsweredInv'
  <2>1. SUFFICES ASSUME NEW f \in Fetches, fpc[f] = "answered",
                        NEW m \in Msgs \ (missed \cup gap[f])
                 PROVE  Tracks(Merged(f)'[m], server[m], m, Held(wire), Pending)
    BY <1>1, <1>6, <1>7 DEF AnsweredInv
  <2>2. Tracks(Merged(f)[m], server[m], m, Unlogged(f), Pending)
    BY <2>1 DEF AnsweredInv
  <2>3. f \in open
    BY <2>1 DEF WindowInv
  <2>4. list'[f] = list[f] /\ list[f] \in Lists
    BY <1>1 DEF TypeOK
  <2>5. Folded(list[f][m], Merged(f)[m], m, Held(log[f])) /\ Merged(f) \in Lists
    BY <1>3, <2>4, MergeFolds DEF Merged, LogInv
  <2>6. Folded(list[f][m], Merged(f)'[m], m, Held(log'[f])) /\ Merged(f)' \in Lists
    BY <1>10, <1>14, <2>4, MergeFolds DEF Merged, LogInv, TypeOK
  <2>7. CASE log'[f] = log[f] /\ f \notin owed[Poller]
    BY <1>7, <2>2, <2>4, <2>7 DEF Merged
  <2>8. CASE e.msg # m
    <3>1. Merged(f)'[m] = Merged(f)[m]
      <4>1. Merged(f)'[m] \in Absent .. MaxRev /\ Merged(f)[m] \in Absent .. MaxRev
        BY <2>5, <2>6 DEF Lists
      <4>2. Held(log[f]) \in SUBSET GatewayEvents /\ Held(log'[f]) \in SUBSET GatewayEvents
        BY <1>3, <1>10, HeldType DEF TypeOK
      <4>3. About(Held(log[f]), m) = About(Held(log'[f]), m)
        BY <1>16, <2>8
      <4>4. QED
        BY <2>5, <2>6, <4>1, <4>2, <4>3, FoldedSame
    <3>2. QED
      BY <1>7, <1>16, <2>2, <2>8, <3>1 DEF Tracks
  <2>9. CASE e.msg = m /\ Grown(f)
    <3>1. Held(log'[f]) = Held(log[f]) \cup {e}
      BY <1>5, <2>3, <2>9
    <3>2. Merged(f)'[m] = Absent => Merged(f)[m] = Absent \/ server[m] = Gone
      <4>1. SUFFICES ASSUME e = Event(m, Gone) PROVE server[m] = Gone
        BY <2>5, <2>6, <3>1 DEF Folded
      <4>2. QED
        BY <1>8, <2>9, <4>1, EventFacts, NumberTypes
    <3>3. ASSUME Merged(f)'[m] # Absent, About(Held(wire), m) = {}
          PROVE  Merged(f)'[m] = server[m]
      <4>1. e \in About(Held(log'[f]), m)
        BY <2>9, <3>1 DEF About
      <4>2. e.rev <= Merged(f)'[m] /\ Event(m, Merged(f)'[m]) \in Held(log[f]) \cup {e}
        BY <2>6, <3>1, <3>3, <4>1 DEF Folded
      <4>3. Merged(f)'[m] \in 1 .. MaxRev
        BY <2>6, <3>3 DEF Lists
      <4>4. Event(m, Merged(f)'[m]) \notin Held(log[f])
        BY <1>3, <1>5, <2>3, <2>9, <4>2, <4>3, EventFacts
      <4>5. Merged(f)'[m] = e.rev
        BY <2>9, <4>2, <4>3, <4>4, EventFacts
      <4>6. QED
        BY <1>15, <2>1, <2>9, <3>3, <4>5
    <3>4. QED
      BY <2>2, <3>2, <3>3 DEF Tracks
  <2>10. QED
    BY <1>4, <2>1, <2>3, <2>7, <2>8, <2>9
<1>21. TrackInv'
  BY <1>1, <1>6 DEF TrackInv
<1>22. QED
  BY <1>10, <1>11, <1>12, <1>13, <1>14, <1>17, <1>18, <1>19, <1>20, <1>21

(* The event in hand leaves the handler and no other comes in: the windows *)
(* and the lists stay as they are, and of a message that is not given up   *)
(* in this step nothing gets lost.                                         *)
LEMMA HandOver ==
    ASSUME IInv, hpc = "emit", hpc' = "idle", handling' = NoEvent,
           UNCHANGED <<server, wire, open, log, inflight, owed, fpc, list,
                       fetched, view, seen, gap, partial>>,
           missed \subseteq missed',
           \A m \in Msgs : /\ emitted[m] <= emitted'[m]
                           /\ \/ emitted'[m] = emitted[m]
                              \/ handling.msg = m /\ emitted'[m] = handling.rev,
           \A m \in Msgs \ missed' : About(Pending', m) = About(Pending, m)
    PROVE  HandlerInv' /\ WindowInv' /\ LogInv' /\ ArrivalInv' /\ FreshInv'
           /\ StaleInv' /\ AnsweredInv' /\ TrackInv'
<1> USE VersionFacts DEF IInv
<1>1. /\ \A f \in Fetches : Unlogged(f)' = Unlogged(f)
      /\ open \subseteq Fetches
      /\ \A f \in Fetches : Merged(f)' = Merged(f)
  BY DEF Unlogged, TypeOK, Merged
<1>2. HandlerInv' /\ WindowInv'
  BY DEF HandlerInv, WindowInv
<1>3. LogInv'
  BY <1>1 DEF LogInv
<1>4. ArrivalInv'
  <2>1. SUFFICES ASSUME NEW m \in Msgs \ missed'
                 PROVE  /\ About(Pending', m) # {} => Event(m, server[m]) \in Pending'
                        /\ \A f \in open : About(Held(log[f]), m) # {} /\ About(Unlogged(f), m) = {}
                              => Event(m, server[m]) \in Held(log[f])
    BY <1>1 DEF ArrivalInv
  <2>2. ASSUME About(Pending', m) # {} PROVE Event(m, server[m]) \in Pending'
    <3>1. Event(m, server[m]) \in Pending
      BY <2>1, <2>2 DEF ArrivalInv
    <3>2. Event(m, server[m]) \in About(Pending, m)
      BY <3>1 DEF About, Event
    <3>3. QED
      BY <2>1, <3>2 DEF About
  <2>3. QED
    BY <2>1, <2>2 DEF ArrivalInv
<1>5. FreshInv'
  <2>1. \A m \in Msgs : \A v : Passed(m, v) => Passed(m, v)'
    BY DEF Passed
  <2>2. QED
    BY <1>1, <2>1 DEF FreshInv, Passed
<1>6. StaleInv'
  BY DEF StaleInv, NeverStale, Lagging
<1>7. AnsweredInv'
  <2>1. SUFFICES ASSUME NEW f \in Fetches, fpc[f] = "answered",
                        NEW m \in Msgs \ (missed' \cup gap[f])
                 PROVE  Tracks(Merged(f)[m], server[m], m, Unlogged(f), Pending')
    BY <1>1 DEF AnsweredInv
  <2>2. Tracks(Merged(f)[m], server[m], m, Unlogged(f), Pending)
    BY <2>1 DEF AnsweredInv
  <2>3. About(Pending', m) = About(Pending, m) /\ m \in Msgs
    BY <2>1
  <2>4. QED
    BY <2>2, <2>3, TracksSame
<1>8. TrackInv'
  <2>1. ASSUME NEW m \in Msgs \ missed', NEW v, Tracks(v, server[m], m, Pending, Pending)
        PROVE  Tracks(v, server[m], m, Pending', Pending')
    BY <2>1, TracksSame
  <2>2. QED
    BY <2>1 DEF TrackInv
<1>9. QED
  BY <1>2, <1>3, <1>4, <1>5, <1>6, <1>7, <1>8

(* text_events.force_push, full or not.                                    *)
LEMMA EmitInv ==
    ASSUME IInv, Emit
    PROVE  IInv'
<1> DEFINE e == handling
<1> USE VersionFacts DEF IInv
<1>1. /\ hpc = "emit" /\ hpc' = "idle" /\ handling' = NoEvent
      /\ UNCHANGED <<server, changes, wire, open, log, taken, inflight, owed, fpc, list,
                     fetched, view, seen, gap, partial>>
      /\ emitted' = [emitted EXCEPT ![e.msg] = NewerOf(@, e.rev)]
      /\ ForcePush(e)
  BY DEF Emit, room, windows
<1>2. /\ e \in GatewayEvents /\ e.msg \in Msgs /\ e.rev \in 1 .. MaxRev + 1
      /\ InHand = {e} /\ InHand' = {}
      /\ Held(queue) \in SUBSET GatewayEvents /\ queue \in Seq(GatewayEvents)
  BY <1>1, EventTypes, EventFacts DEF TypeOK, InHand
<1>3. /\ seen[e.msg] < e.rev /\ e.rev <= server[e.msg] /\ emitted[e.msg] < e.rev
      /\ \A d \in Held(wire) : e.msg = d.msg => e.rev < d.rev
      /\ \A d \in Held(queue) : d.msg = e.msg => d.rev < e.rev
  <2>1. e \in Pending /\ e \in Coming
    BY <1>2 DEF Pending, Coming
  <2>2. \A d \in Held(queue) : d.msg = e.msg => d.rev <= emitted[e.msg] /\ d.rev \in Int
    BY <1>2, EventFacts DEF OrderInv
  <2>3. QED
    BY <1>2, <2>1, <2>2, NumberTypes DEF OrderInv
<1>4. /\ emitted'[e.msg] = e.rev
      /\ \A m \in Msgs : m # e.msg => emitted'[m] = emitted[m]
      /\ emitted' \in [Msgs -> Versions]
  BY <1>1, <1>2, <1>3, NumberTypes DEF TypeOK, NewerOf
<1>5. /\ Ordered(queue') /\ queue' \in Seq(GatewayEvents) /\ Len(queue') <= QueueCap
      /\ missed \subseteq missed' /\ missed' \subseteq Msgs
      /\ e \in Held(queue') /\ Held(queue') \subseteq Held(queue) \cup {e}
      /\ \A d \in Held(queue) : d \in Held(queue') \/ d.msg \in missed'
  <2>1. CASE Len(queue) < QueueCap
    <3>1. queue' = Append(queue, e) /\ missed' = missed
      BY <1>1, <2>1 DEF ForcePush
    <3>2. Held(queue') = Held(queue) \cup {e} /\ queue' \in Seq(GatewayEvents)
      BY <1>2, <3>1, HeldAppend
    <3>3. Ordered(queue')
      BY <1>2, <1>3, <3>1, OrderedAppend DEF OrderInv
    <3>4. Len(queue') <= QueueCap
      BY <1>2, <2>1, <3>1, ChatSyncAssumption
    <3>5. QED
      BY <3>1, <3>2, <3>3, <3>4 DEF TypeOK
  <2>2. CASE ~(Len(queue) < QueueCap)
    <3>1. queue' = Append(Tail(queue), e) /\ missed' = missed \cup {Head(queue).msg}
      BY <1>1, <2>2 DEF ForcePush
    <3>2. queue # <<>> /\ Len(Tail(queue)) = Len(queue) - 1 /\ Len(queue) \in Nat
      BY <1>2, <2>2, ChatSyncAssumption
    <3>3. /\ Head(queue) \in GatewayEvents /\ Tail(queue) \in Seq(GatewayEvents)
          /\ Held(queue) = Held(Tail(queue)) \cup {Head(queue)}
      BY <1>2, <3>2, HeldTail
    <3>4. Held(queue') = Held(Tail(queue)) \cup {e} /\ queue' \in Seq(GatewayEvents)
      <4>1. DEFINE t == Tail(queue)
      <4>2. e \in GatewayEvents /\ t \in Seq(GatewayEvents)
        BY <1>2, <3>3
      <4>3. HIDE DEF e, t
      <4>4. Held(Append(t, e)) = Held(t) \cup {e} /\ Append(t, e) \in Seq(GatewayEvents)
        BY <4>2, HeldAppend
      <4>5. QED
        BY <3>1, <4>4 DEF t
    <3>5. Ordered(Tail(queue))
      BY <1>2, <3>2, OrderedTail DEF OrderInv
    <3>6. Ordered(queue')
      BY <1>2, <1>3, <3>1, <3>3, <3>5, OrderedAppend
    <3>7. Len(queue') <= QueueCap
      BY <1>2, <3>1, <3>2, <3>3 DEF TypeOK
    <3>8. Head(queue).msg \in Msgs
      BY <3>3, EventFacts
    <3>9. QED
      BY <3>1, <3>3, <3>4, <3>6, <3>7, <3>8 DEF TypeOK
  <2>3. QED
    BY <2>1, <2>2
<1>6. /\ Coming' = Held(wire) /\ Coming = Held(wire) \cup {e}
      /\ Pending' = Held(queue') \cup Held(wire)
      /\ Pending' \subseteq Pending
      /\ \A d \in Pending : d \in Pending' \/ d.msg \in missed'
  BY <1>1, <1>2, <1>5 DEF Pending, Coming
<1>7. TypeOK'
  BY <1>1, <1>4, <1>5 DEF TypeOK
<1>8. OrderInv'
  <2>1. \A d \in Held(queue') : d.rev <= emitted'[d.msg]
    BY <1>2, <1>3, <1>4, <1>5, EventFacts DEF OrderInv
  <2>2. \A d \in Held(wire) : emitted'[d.msg] < d.rev
    BY <1>2, <1>3, <1>4, <1>6, EventTypes, EventFacts DEF OrderInv
  <2>3. ASSUME NEW m \in Msgs PROVE seen[m] <= emitted'[m] /\ emitted'[m] <= server[m]
    <3>1. seen[m] <= emitted[m] /\ emitted[m] <= server[m]
      BY DEF OrderInv
    <3>2. CASE m = e.msg
      <4>1. seen[m] \in Int /\ emitted[m] \in Int /\ e.rev \in Int
        BY <1>2, NumberTypes
      <4>2. QED
        BY <1>3, <1>4, <3>2, <4>1
    <3>3. CASE m # e.msg
      BY <1>4, <3>1, <3>3
    <3>4. QED
      BY <3>2, <3>3
  <2>4. QED
    BY <1>1, <1>2, <1>5, <1>6, <2>1, <2>2, <2>3 DEF OrderInv
<1>9. \A m \in Msgs \ missed' : About(Pending', m) = About(Pending, m)
  BY <1>6 DEF About
<1>10. \A m \in Msgs : /\ emitted[m] <= emitted'[m]
                       /\ \/ emitted'[m] = emitted[m]
                          \/ e.msg = m /\ emitted'[m] = e.rev
  BY <1>2, <1>3, <1>4, NumberTypes
<1>11. QED
  BY <1>1, <1>5, <1>7, <1>8, <1>9, <1>10, HandOver

(* poll_gateway_until drops the handler in its await.                      *)
LEMMA CancelInv ==
    ASSUME IInv, Cancel
    PROVE  IInv'
<1> DEFINE e == handling
<1> USE VersionFacts DEF IInv
<1>1. /\ hpc = "emit" /\ hpc' = "idle" /\ handling' = NoEvent
      /\ missed' = missed \cup {e.msg}
      /\ UNCHANGED <<server, changes, wire, queue, open, log, taken, inflight, owed, fpc, list,
                     fetched, view, seen, emitted, gap, partial>>
  BY DEF Cancel, room, windows
<1>2. /\ e \in GatewayEvents /\ e.msg \in Msgs /\ InHand = {e} /\ InHand' = {}
  BY <1>1, EventTypes, EventFacts DEF InHand
<1>3. /\ Coming' = Held(wire) /\ Coming = Held(wire) \cup {e}
      /\ Pending' = Held(queue) \cup Held(wire) /\ Pending = Pending' \cup {e}
  BY <1>1, <1>2 DEF Pending, Coming
<1>4. TypeOK'
  BY <1>1, <1>2 DEF TypeOK
<1>5. OrderInv'
  BY <1>1, <1>2, <1>3 DEF OrderInv
<1>6. \A m \in Msgs \ missed' : About(Pending', m) = About(Pending, m)
  BY <1>1, <1>3 DEF About
<1>7. \A m \in Msgs : emitted[m] <= emitted'[m] /\ emitted'[m] = emitted[m]
  BY <1>1, NumberTypes
<1>8. QED
  BY <1>1, <1>4, <1>5, <1>6, <1>7, HandOver

(* process_text_event, for the oldest event of the queue.                  *)
LEMMA ConsumeInv ==
    ASSUME IInv, Consume
    PROVE  IInv'
<1> DEFINE e == Head(queue)
           x == e.msg
<1> USE VersionFacts DEF IInv
<1>1. /\ queue # <<>> /\ queue' = Tail(queue)
      /\ Created(e) \/ Updated(e) \/ Deleted(e)
      /\ seen' = [seen EXCEPT ![x] = NewerOf(@, e.rev)]
      /\ gap' = [f \in Fetches |-> IF Past(f, e) THEN gap[f] \cup {x} ELSE gap[f]]
      /\ UNCHANGED <<server, changes, wire, handling, hpc, open, log, taken, inflight, owed,
                     fpc, list, emitted, missed>>
  BY DEF Consume, room, windows
<1>2. /\ e \in GatewayEvents /\ x \in Msgs /\ e.rev \in 1 .. MaxRev + 1 /\ e = Event(x, e.rev)
      /\ queue' \in Seq(GatewayEvents) /\ Len(queue') <= QueueCap
      /\ Held(queue) = Held(queue') \cup {e}
  <2>1. Len(queue') <= Len(queue) /\ Len(queue') \in Nat /\ Len(queue) \in Nat
    BY <1>1 DEF TypeOK
  <2>2. QED
    BY <1>1, <2>1, HeldTail, EventFacts, ChatSyncAssumption DEF TypeOK
<1>3. Ordered(queue') /\ \A d \in Held(queue') : d.msg = x => e.rev < d.rev
  BY <1>1, OrderedTail DEF TypeOK, OrderInv
<1>4. /\ InHand' = InHand /\ Coming' = Coming /\ Pending = Pending' \cup {e}
      /\ \A f \in Fetches : Unlogged(f)' = Unlogged(f)
      /\ \A f \in Fetches : Merged(f)' = Merged(f)
  BY <1>1, <1>2 DEF InHand, Coming, Pending, Unlogged, Merged
<1>5. /\ seen[x] < e.rev /\ e.rev <= emitted[x] /\ e.rev <= server[x]
      /\ \A d \in Pending' : d.msg = x => e.rev < d.rev
  <2>1. seen[x] < e.rev /\ e.rev <= emitted[x] /\ e.rev <= server[x]
    BY <1>2 DEF OrderInv, Pending
  <2>2. \A d \in Coming : d.msg = x => e.rev < d.rev
    BY <1>2, <2>1, EventTypes, EventFacts, NumberTypes DEF OrderInv
  <2>3. QED
    BY <1>3, <1>4, <2>1, <2>2 DEF Pending
<1>6. /\ seen'[x] = e.rev /\ \A m \in Msgs : m # x => seen'[m] = seen[m]
      /\ seen' \in [Msgs -> Versions]
  BY <1>1, <1>2, <1>5, NumberTypes DEF TypeOK, NewerOf
<1>7. /\ gap' \in [Fetches -> SUBSET Msgs]
      /\ \A f \in Fetches : /\ gap[f] \subseteq gap'[f]
                            /\ x \notin gap'[f] => ~Past(f, e)
  BY <1>1, <1>2 DEF TypeOK
<1>8. /\ view' \in Lists /\ fetched' \in BOOLEAN /\ partial' \in BOOLEAN
      /\ \A m \in Msgs : m # x => view'[m] = view[m]
      /\ e.rev = 1 => view'[x] = (IF view[x] = Absent THEN 1 ELSE view[x]) /\ fetched'
      /\ e.rev \in 2 .. MaxRev => view'[x] = (IF view[x] = Absent THEN Absent ELSE e.rev)
      /\ e.rev = Gone => view'[x] = Absent
      /\ ~fetched' => view' = view /\ ~fetched
      /\ fetched' /\ ~partial' => fetched /\ ~partial
  <2>1. /\ view \in Lists /\ view \in [Msgs -> 0 .. MaxRev]
        /\ fetched \in BOOLEAN /\ partial \in BOOLEAN
    BY DEF TypeOK, Lists
  <2>2. ~fetched => view = [m \in Msgs |-> Absent]
    BY DEF StaleInv
  <2>3. CASE Created(e)
    <3>1. /\ e.rev = 1 /\ fetched' = TRUE /\ partial' = (partial \/ ~fetched)
          /\ view' = IF view[x] = Absent THEN [view EXCEPT ![x] = 1] ELSE view
      BY <2>3 DEF Created
    <3>2. /\ view' \in Lists /\ \A m \in Msgs : m # x => view'[m] = view[m]
          /\ view'[x] = IF view[x] = Absent THEN 1 ELSE view[x]
      BY <1>2, <2>1, <3>1 DEF Lists
    <3>3. /\ fetched' \in BOOLEAN /\ partial' \in BOOLEAN /\ fetched'
          /\ ~partial' => fetched /\ ~partial
      BY <2>1, <3>1, Zenon
    <3>4. e.rev # Gone /\ e.rev \notin 2 .. MaxRev
      BY <3>1
    <3>5. QED
      BY <3>1, <3>2, <3>3, <3>4
  <2>4. CASE Updated(e)
    <3>1. ~fetched => view[x] = Absent
      BY <1>2, <2>2
    <3>2. QED
      BY <1>2, <2>1, <2>4, <3>1 DEF Updated, Lists
  <2>5. CASE Deleted(e)
    <3>1. ~fetched => view[x] = Absent
      BY <1>2, <2>2
    <3>2. QED
      BY <1>2, <2>1, <2>5, <3>1 DEF Deleted, Lists
  <2>6. QED
    BY <1>1, <2>3, <2>4, <2>5
<1>9. view[x] \in 0 .. MaxRev /\ view[x] <= server[x] /\ server[x] \in 1 .. MaxRev + 1
      /\ view'[x] \in 0 .. MaxRev
  BY <1>2, <1>5, <1>8, NumberTypes DEF OrderInv, Lists
<1>10. TypeOK'
  BY <1>1, <1>2, <1>6, <1>7, <1>8 DEF TypeOK
<1>11. HandlerInv' /\ WindowInv' /\ LogInv'
  BY <1>1, <1>4 DEF HandlerInv, WindowInv, LogInv
<1>12. OrderInv'
  <2>1. \A d \in Pending' : seen'[d.msg] < d.rev /\ d.rev <= server[d.msg]
    BY <1>4, <1>5, <1>6, EventTypes, EventFacts DEF OrderInv
  <2>2. \A m \in Msgs : seen'[m] <= emitted[m] /\ view'[m] <= server[m]
    BY <1>2, <1>5, <1>6, <1>8, <1>9 DEF OrderInv
  <2>3. QED
    BY <1>1, <1>2, <1>3, <1>4, <2>1, <2>2 DEF OrderInv
<1> HIDE DEF x, e
<1>13. \A m \in Msgs : m # x => About(Pending', m) = About(Pending, m)
  BY <1>4 DEF About, x
<1>14. ArrivalInv'
  <2>1. SUFFICES ASSUME NEW m \in Msgs \ missed, About(Pending', m) # {}
                 PROVE  Event(m, server[m]) \in Pending'
    BY <1>1, <1>4 DEF ArrivalInv, TypeOK
  <2>2. PICK d \in Pending' : d.msg = m
    BY <2>1 DEF About
  <2>3. Event(m, server[m]) \in Pending
    BY <1>4, <2>1, <2>2 DEF ArrivalInv, About
  <2>4. d \in GatewayEvents /\ d.rev <= server[m]
    BY <1>4, <2>2, EventTypes DEF OrderInv
  <2>5. Event(m, server[m]) # e
    <3>1. SUFFICES ASSUME Event(m, server[m]) = e PROVE FALSE
      OBVIOUS
    <3>2. x = m /\ e.rev = server[m]
      BY <3>1 DEF Event, x
    <3>3. e.rev < d.rev
      BY <1>5, <2>2, <3>2
    <3>4. QED
      BY <1>2, <2>4, <3>2, <3>3, EventFacts
  <2>6. QED
    BY <1>4, <2>3, <2>5
<1>15. FreshInv'
  BY <1>1 DEF FreshInv, Passed
<1>16. StaleInv'
  <2>1. ~fetched' => view' = [m \in Msgs |-> Absent]
    BY <1>8 DEF StaleInv
  <2>2. NeverStale'
    <3>1. SUFFICES ASSUME NEW m \in Msgs \ missed, view'[m] # Absent
                   PROVE  seen'[m] <= view'[m]
      <4>1. \A m \in Msgs : seen'[m] \in Int /\ view'[m] \in Int
        BY <1>10, NumberTypes DEF TypeOK, Lists
      <4>2. QED
        BY <1>1, <4>1 DEF NeverStale, Lagging
    <3>2. CASE m # x
      BY <1>6, <1>8, <3>1, <3>2, NumberTypes DEF StaleInv, NeverStale, Lagging
    <3>3. CASE m = x
      BY <1>2, <1>6, <1>8, <1>9, <3>1, <3>3
    <3>4. QED
      BY <3>2, <3>3
  <2>3. \A f \in Fetches : fpc[f] \in {"merged", "returning"} =>
          \A m \in Msgs \ gap'[f] : list[f][m] # Absent => seen'[m] <= list[f][m]
    <3>1. SUFFICES ASSUME NEW f \in Fetches, fpc[f] \in {"merged", "returning"},
                          NEW m \in Msgs \ gap'[f], list[f][m] # Absent
                   PROVE  seen'[m] <= list[f][m]
      OBVIOUS
    <3>2. m # x
      BY <1>7, <3>1 DEF Past
    <3>3. QED
      BY <1>6, <1>7, <3>1, <3>2 DEF StaleInv
  <2>4. QED
    BY <1>1, <2>1, <2>2, <2>3 DEF StaleInv
<1>17. AnsweredInv'
  <2>1. SUFFICES ASSUME NEW f \in Fetches, fpc[f] = "answered",
                        NEW m \in Msgs \ (missed \cup gap'[f])
                 PROVE  Tracks(Merged(f)[m], server[m], m, Unlogged(f), Pending')
    BY <1>1, <1>4 DEF AnsweredInv
  <2>2. Tracks(Merged(f)[m], server[m], m, Unlogged(f), Pending)
    BY <1>7, <2>1 DEF AnsweredInv
  <2>3. Event(m, 1) # e
    <3>1. CASE m = x
      BY <1>7, <2>1, <3>1 DEF Past, Event
    <3>2. CASE m # x
      BY <3>2 DEF Event, x
    <3>3. QED
      BY <3>1, <3>2
  <2>4. QED
    BY <1>4, <2>2, <2>3 DEF Tracks
<1>18. TrackInv'
  <2>1. ASSUME fetched', ~partial', NEW m \in Msgs \ missed
        PROVE  Tracks(view'[m], server[m], m, Pending', Pending')
    <3>1. Tracks(view[m], server[m], m, Pending, Pending)
      BY <1>8, <2>1 DEF TrackInv
    <3>2. CASE m # x
      <4>1. view'[m] = view[m] /\ About(Pending', m) = About(Pending, m) /\ m \in Msgs
        BY <1>8, <1>13, <2>1, <3>2
      <4>2. QED
        BY <3>1, <4>1, TracksSame
    <3>3. CASE m = x
      <4>1. About(Pending', m) = {} => server[m] = e.rev
        <5>1. e \in About(Pending, m)
          BY <1>4, <3>3 DEF About, x
        <5>2. Event(m, server[m]) \in Pending
          BY <2>1, <5>1 DEF ArrivalInv
        <5>3. Event(m, server[m]).msg = m /\ Event(m, server[m]).rev = server[m]
          BY DEF Event
        <5>4. QED
          BY <1>4, <5>2, <5>3 DEF About
      <4>2. Event(m, 1) \in Pending => e.rev = 1
        <5>1. SUFFICES ASSUME Event(m, 1) \in Pending' PROVE e.rev = 1
          BY <1>4 DEF Event
        <5>2. e.rev < Event(m, 1).rev
          BY <1>5, <3>3, <5>1 DEF Event
        <5>3. QED
          BY <1>2, <5>2 DEF Event
      <4>3. CASE e.rev = 1
        <5>1. view'[m] # Absent
          BY <1>8, <3>3, <4>3
        <5>2. About(Pending', m) = {} => view'[m] = server[m]
          BY <1>8, <1>9, <3>3, <4>1, <4>3
        <5>3. QED
          BY <5>1, <5>2 DEF Tracks
      <4>4. CASE e.rev \in 2 .. MaxRev
        <5>1. view[m] = Absent => server[m] = Gone
          BY <1>9, <3>1, <3>3, <4>2, <4>4 DEF Tracks
        <5>2. QED
          BY <1>8, <3>3, <4>1, <4>4, <5>1 DEF Tracks
      <4>5. CASE e.rev = Gone
        <5>1. view'[m] = Absent /\ server[m] = Gone
          BY <1>5, <1>8, <1>9, <3>3, <4>5
        <5>2. QED
          BY <5>1 DEF Tracks
      <4>6. QED
        BY <1>2, <4>3, <4>4, <4>5
    <3>4. QED
      BY <3>2, <3>3
  <2>2. ASSUME NEW f \in Fetches, fpc[f] \in {"merged", "returning"},
               NEW m \in Msgs \ (missed \cup gap'[f])
        PROVE  Tracks(list[f][m], server[m], m, Pending', Pending')
    <3>1. m # x /\ m \in Msgs
      BY <1>7, <2>2 DEF Past
    <3>2. Tracks(list[f][m], server[m], m, Pending, Pending)
      BY <1>7, <2>2 DEF TrackInv
    <3>3. About(Pending', m) = About(Pending, m)
      BY <1>13, <3>1
    <3>4. QED
      BY <3>1, <3>2, <3>3, TracksSame
  <2>3. QED
    BY <1>1, <2>1, <2>2 DEF TrackInv
<1>19. QED
  BY <1>10, <1>11, <1>12, <1>14, <1>15, <1>16, <1>17, <1>18

-----------------------------------------------------------------------------
(* The steps of the fetches leave the way of the events alone.             *)
LEMMA FetchFrame ==
    ASSUME UNCHANGED <<wire, handling, hpc, queue>>
    PROVE  InHand' = InHand /\ Coming' = Coming /\ Pending' = Pending
BY DEF InHand, Coming, Pending

(* The empty log holds nothing.                                            *)
LEMMA NothingHeld ==
    /\ Held(<<>>) = {} /\ Ordered(<<>>) /\ Topped({})
    /\ \A m \in Msgs : About({}, m) = {}
BY DEF Held, Ordered, Topped, About

(* get_messages opens its window; nothing was recorded in it yet.          *)
LEMMA OpenChatInv ==
    ASSUME IInv, NEW f \in Fetches, OpenChat(f)
    PROVE  IInv'
<1> USE VersionFacts DEF IInv
<1>1. /\ fpc[f] = "idle" /\ f \notin open /\ open' = open \cup {f}
      /\ fpc' = [fpc EXCEPT ![f] = "asked"]
      /\ UNCHANGED <<server, changes, wire, handling, hpc, queue, log, taken, inflight, owed,
                     list, fetched, view, seen, emitted, gap, missed, partial>>
  BY DEF OpenChat, room, history, Rec!Open
<1>2. InHand' = InHand /\ Coming' = Coming /\ Pending' = Pending
  BY <1>1, FetchFrame
<1>3. /\ log[f] = <<>> /\ fpc \in [Fetches -> {"idle", "asked", "answered", "merged", "returning"}]
      /\ fpc'[f] = "asked" /\ \A g \in Fetches : g # f => fpc'[g] = fpc[g]
      /\ \A g \in Fetches : Unlogged(g)' = Unlogged(g) /\ Merged(g)' = Merged(g)
  BY <1>1 DEF WindowInv, TypeOK, Unlogged, Merged
<1>4. TypeOK'
  <2>1. open' \subseteq Fetches
    BY <1>1 DEF TypeOK
  <2>2. fpc' \in [Fetches -> {"idle", "asked", "answered", "merged", "returning"}]
    BY <1>1, <1>3
  <2>3. QED
    BY <1>1, <2>1, <2>2 DEF TypeOK
<1>5. HandlerInv' /\ OrderInv' /\ LogInv'
  BY <1>1, <1>2, <1>3 DEF HandlerInv, OrderInv, LogInv
<1>6. WindowInv'
  BY <1>1, <1>3 DEF WindowInv
<1>7. ArrivalInv'
  <2>1. SUFFICES ASSUME NEW m \in Msgs \ missed
                 PROVE  /\ About(Pending, m) # {} => Event(m, server[m]) \in Pending
                        /\ \A g \in open' : About(Held(log[g]), m) # {} /\ About(Unlogged(g), m) = {}
                                              => Event(m, server[m]) \in Held(log[g])
    <3>1. \A g \in open' : log'[g] = log[g] /\ Unlogged(g)' = Unlogged(g)
      BY <1>1, <1>2, <1>3 DEF TypeOK
    <3>2. server' = server /\ missed' = missed /\ Pending' = Pending
      BY <1>1, <1>2
    <3>3. QED
      BY <3>1, <3>2 DEF ArrivalInv
  <2>2. About(Held(log[f]), m) = {}
    BY <1>3, NothingHeld
  <2>3. QED
    BY <1>1, <2>2 DEF ArrivalInv
<1>8. FreshInv'
  <2>1. SUFFICES ASSUME NEW g \in open', NEW m \in Msgs
                 PROVE  /\ About(Held(log[g]), m) # {}
                             => \E e \in About(Held(log[g]), m) : Passed(m, e.rev)
                        /\ fpc'[g] = "answered" /\ About(Held(log[g]), m) = {} /\ list[g][m] # Absent =>
                             /\ Passed(m, list[g][m])
                             /\ hpc = "record" /\ g \notin owed[Poller] /\ handling.msg = m
                                  => handling.rev <= list[g][m]
    BY <1>1 DEF FreshInv, Passed
  <2>2. CASE g = f
    BY <1>3, <2>2, NothingHeld
  <2>3. CASE g # f
    <3>1. g \in open /\ g \in Fetches /\ fpc'[g] = fpc[g]
      BY <1>1, <1>3, <2>3 DEF TypeOK
    <3>2. QED
      BY <3>1 DEF FreshInv
  <2>4. QED
    BY <2>2, <2>3
<1>9. StaleInv'
  BY <1>1, <1>3 DEF StaleInv, NeverStale, Lagging
<1>10. AnsweredInv' /\ TrackInv'
  BY <1>1, <1>2, <1>3 DEF AnsweredInv, TrackInv
<1>11. QED
  BY <1>4, <1>5, <1>6, <1>7, <1>8, <1>9, <1>10

(* The answer of this moment is at least as new as everything dispatched,  *)
(* and what the window has recorded is in it already.                      *)
LEMMA AnswerInv ==
    ASSUME IInv, NEW f \in Fetches, Answer(f)
    PROVE  IInv'
<1> USE VersionFacts DEF IInv
<1>1. /\ fpc[f] = "asked" /\ fpc' = [fpc EXCEPT ![f] = "answered"]
      /\ list' = [list EXCEPT ![f] = [m \in Msgs |-> Live(server[m])]]
      /\ UNCHANGED <<server, changes, wire, handling, hpc, queue, open, log, taken, inflight, owed,
                     fetched, view, seen, emitted, gap, missed, partial>>
  BY DEF Answer, room, windows, history
<1>2. InHand' = InHand /\ Coming' = Coming /\ Pending' = Pending
  BY <1>1, FetchFrame
<1>3. /\ fpc \in [Fetches -> {"idle", "asked", "answered", "merged", "returning"}]
      /\ list \in [Fetches -> Lists]
      /\ fpc'[f] = "answered" /\ \A g \in Fetches : g # f => fpc'[g] = fpc[g] /\ list'[g] = list[g]
      /\ \A g \in Fetches : Unlogged(g)' = Unlogged(g)
      /\ \A g \in Fetches : g # f => Merged(g)' = Merged(g)
      /\ \A m \in Msgs : list'[f][m] = Live(server[m])
  BY <1>1 DEF TypeOK, Unlogged, Merged
<1>4. \A m \in Msgs : /\ server[m] = Gone => list'[f][m] = Absent
                      /\ server[m] # Gone => list'[f][m] = server[m]
                      /\ list'[f][m] \in 0 .. MaxRev /\ list'[f][m] <= server[m]
  BY <1>3, NumberTypes DEF Live
<1>5. list' \in [Fetches -> Lists] /\ list'[f] \in Lists
  <2>1. [m \in Msgs |-> Live(server[m])] \in Lists
    BY NumberTypes DEF Live, Lists
  <2>2. QED
    BY <1>1, <1>3, <2>1
<1>6. TypeOK'
  BY <1>1, <1>3, <1>5 DEF TypeOK
<1>7. HandlerInv' /\ WindowInv' /\ LogInv' /\ ArrivalInv'
  <2>1. HandlerInv'
    BY <1>1 DEF HandlerInv
  <2>2. WindowInv'
    BY <1>1, <1>3 DEF WindowInv
  <2>3. LogInv'
    BY <1>1, <1>3 DEF LogInv
  <2>4. ArrivalInv'
    <3>1. \A g \in open : Unlogged(g)' = Unlogged(g)
      BY <1>3 DEF TypeOK
    <3>2. QED
      BY <1>1, <1>2, <3>1 DEF ArrivalInv
  <2>5. QED
    BY <2>1, <2>2, <2>3, <2>4
<1>8. OrderInv'
  BY <1>1, <1>2, <1>3, <1>4 DEF OrderInv
<1>9. FreshInv'
  <2>1. SUFFICES ASSUME NEW m \in Msgs, list'[f][m] # Absent
                 PROVE  /\ Passed(m, list'[f][m])
                        /\ hpc # "idle" /\ handling.msg = m => handling.rev <= list'[f][m]
    <3>1. SUFFICES ASSUME NEW g \in open, NEW m \in Msgs
                   PROVE  /\ About(Held(log[g]), m) # {}
                               => \E e \in About(Held(log[g]), m) : Passed(m, e.rev)
                          /\ fpc'[g] = "answered" /\ About(Held(log[g]), m) = {} /\ list'[g][m] # Absent =>
                               /\ Passed(m, list'[g][m])
                               /\ hpc = "record" /\ g \notin owed[Poller] /\ handling.msg = m
                                    => handling.rev <= list'[g][m]
      BY <1>1 DEF FreshInv, Passed
    <3>2. CASE g = f
      BY <2>1, <3>2 DEF FreshInv
    <3>3. CASE g # f
      BY <1>3, <3>3 DEF FreshInv, TypeOK
    <3>4. QED
      BY <3>2, <3>3
  <2>2. list'[f][m] = server[m]
    BY <1>4, <2>1
  <2>3. hpc # "idle" /\ handling.msg = m => handling.rev <= server[m]
    BY EventTypes DEF OrderInv, Pending, Coming
  <2>4. QED
    BY <2>2, <2>3 DEF OrderInv, Passed
<1>10. StaleInv'
  BY <1>1, <1>3 DEF StaleInv, NeverStale, Lagging
<1>11. AnsweredInv'
  <2>1. SUFFICES ASSUME NEW m \in Msgs \ missed
                 PROVE  Tracks(Merged(f)'[m], server[m], m, Unlogged(f), Pending)
    BY <1>1, <1>2, <1>3 DEF AnsweredInv
  <2>2. f \in open /\ log[f] \in Seq(GatewayEvents)
    BY <1>1 DEF WindowInv, TypeOK
  <2>3. Folded(list'[f][m], Merged(f)'[m], m, Held(log[f])) /\ Merged(f)' \in Lists
    BY <1>1, <1>5, <2>2, MergeFolds DEF Merged, LogInv
  <2>4. \A e \in Held(log[f]) : e \in GatewayEvents /\ e.rev <= server[e.msg]
    BY EventTypes DEF LogInv
  <2>5. ASSUME Merged(f)'[m] = Absent PROVE server[m] \in {Absent, Gone}
    <3>1. CASE list'[f][m] = Absent
      BY <1>4, <3>1
    <3>2. CASE Event(m, Gone) \in Held(log[f])
      <4>1. Gone <= server[m]
        BY <2>4, <3>2, EventFacts
      <4>2. QED
        BY <4>1, NumberTypes
    <3>3. QED
      BY <2>3, <2>5, <3>1, <3>2 DEF Folded
  <2>6. ASSUME Merged(f)'[m] # Absent, About(Unlogged(f), m) = {}
        PROVE  Merged(f)'[m] = server[m]
    <3>1. CASE About(Held(log[f]), m) = {}
      <4>1. Merged(f)'[m] = list'[f][m]
        <5>1. Event(m, Merged(f)'[m]) \notin Held(log[f])
          BY <3>1 DEF About, Event
        <5>2. QED
          BY <2>3, <2>6, <5>1 DEF Folded
      <4>2. QED
        BY <1>4, <2>6, <4>1
    <3>2. CASE About(Held(log[f]), m) # {}
      <4>1. Event(m, server[m]) \in About(Held(log[f]), m)
        BY <2>1, <2>2, <2>6, <3>2 DEF ArrivalInv, About, Event
      <4>2. Event(m, Merged(f)'[m]) \in Held(log[f]) /\ server[m] <= Merged(f)'[m]
        BY <2>3, <2>6, <4>1 DEF Folded, Event
      <4>3. Merged(f)'[m] <= server[m] /\ Merged(f)'[m] \in Int
        BY <2>3, <2>4, <4>2 DEF Event, Lists
      <4>4. QED
        BY <4>2, <4>3, NumberTypes
    <3>3. QED
      BY <3>1, <3>2
  <2>7. QED
    BY <2>5, <2>6 DEF Tracks
<1>12. TrackInv'
  BY <1>1, <1>2, <1>3 DEF TrackInv
<1>13. QED
  BY <1>6, <1>7, <1>8, <1>9, <1>10, <1>11, <1>12

(* A fetch lets go of its window: the other windows, and what is in flight *)
(* to them, stay as they are.                                              *)
LEMMA CloseInv ==
    ASSUME IInv, NEW f \in Fetches, Rec!Close(f),
           UNCHANGED <<server, wire, handling, hpc, queue, seen, emitted, missed>>,
           fpc' \in [Fetches -> {"idle", "asked", "answered", "merged", "returning"}],
           fpc'[f] \in {"idle", "returning"},
           \A g \in Fetches : g # f => fpc'[g] = fpc[g] /\ list'[g] = list[g] /\ gap'[g] = gap[g]
    PROVE  /\ HandlerInv' /\ WindowInv' /\ LogInv' /\ ArrivalInv' /\ FreshInv' /\ AnsweredInv'
           /\ InHand' = InHand /\ Coming' = Coming /\ Pending' = Pending
           /\ open' \subseteq Fetches /\ log' \in [Fetches -> Seq(GatewayEvents)]
           /\ taken' \in [Fetches -> Seq(GatewayEvents)] /\ inflight' = inflight
           /\ owed' \in [{Poller} -> SUBSET Fetches]
<1> USE VersionFacts DEF IInv
<1>1. /\ f \in open /\ open' = open \ {f} /\ inflight' = inflight
      /\ log' = [log EXCEPT ![f] = <<>>] /\ taken' = [taken EXCEPT ![f] = <<>>]
      /\ owed' = [p \in {Poller} |-> owed[p] \ {f}]
  BY DEF Rec!Close
<1>2. /\ open \subseteq Fetches /\ log \in [Fetches -> Seq(GatewayEvents)]
      /\ taken \in [Fetches -> Seq(GatewayEvents)]
      /\ owed \in [{Poller} -> SUBSET Fetches]
  BY DEF TypeOK
<1>3. <<>> \in Seq(GatewayEvents)
  OBVIOUS
<1>4. /\ open' \subseteq Fetches /\ log' \in [Fetches -> Seq(GatewayEvents)]
      /\ taken' \in [Fetches -> Seq(GatewayEvents)]
      /\ owed' \in [{Poller} -> SUBSET Fetches]
  BY <1>1, <1>2, <1>3
<1>5. InHand' = InHand /\ Coming' = Coming /\ Pending' = Pending
  BY FetchFrame
<1>6. /\ log'[f] = <<>> /\ \A g \in Fetches : g # f => log'[g] = log[g]
      /\ owed'[Poller] = owed[Poller] \ {f}
      /\ \A g \in Fetches : g # f => Unlogged(g)' = Unlogged(g)
      /\ \A g \in Fetches : g # f => Merged(g)' = Merged(g)
  BY <1>1, <1>2 DEF Unlogged, Merged
<1>7. HandlerInv'
  BY <1>1, <1>6 DEF HandlerInv
<1>8. WindowInv'
  BY <1>1, <1>6 DEF WindowInv
<1>9. LogInv'
  <2>1. SUFFICES ASSUME NEW g \in Fetches
                 PROVE  /\ Ordered(log'[g]) /\ Topped(Held(log'[g]))
                        /\ \A e \in Held(log'[g]) : 2 <= e.rev /\ e.rev <= server[e.msg]
                        /\ \A e \in Held(log'[g]), d \in Unlogged(g)' : e.msg = d.msg => e.rev < d.rev
    BY DEF LogInv
  <2>2. CASE g = f
    BY <1>6, <2>2, NothingHeld
  <2>3. CASE g # f
    BY <1>6, <2>3 DEF LogInv
  <2>4. QED
    BY <2>2, <2>3
<1>10. \A g \in open' : g \in Fetches /\ g \in open /\ g # f
  BY <1>1, <1>2
<1>11. ArrivalInv'
  BY <1>5, <1>6, <1>10 DEF ArrivalInv
<1>12. FreshInv'
  BY <1>6, <1>10 DEF FreshInv, Passed
<1>13. AnsweredInv'
  BY <1>5, <1>6 DEF AnsweredInv
<1>14. QED
  BY <1>1, <1>4, <1>5, <1>7, <1>8, <1>9, <1>11, <1>12, <1>13

(* A fetch that fails leaves no trace.                                     *)
LEMMA FailInv ==
    ASSUME IInv, NEW f \in Fetches, Fail(f)
    PROVE  IInv'
<1> USE VersionFacts DEF IInv
<1>1. /\ Rec!Close(f) /\ fpc' = [fpc EXCEPT ![f] = "idle"]
      /\ list' = [list EXCEPT ![f] = [m \in Msgs |-> Absent]]
      /\ gap' = [gap EXCEPT ![f] = {}]
      /\ UNCHANGED <<server, changes, wire, handling, hpc, queue, fetched, view, seen, emitted,
                     missed, partial>>
  BY DEF Fail, room
<1>2. [m \in Msgs |-> Absent] \in Lists
  BY DEF Lists
<1>3. /\ fpc' \in [Fetches -> {"idle", "asked", "answered", "merged", "returning"}]
      /\ list' \in [Fetches -> Lists] /\ gap' \in [Fetches -> SUBSET Msgs]
      /\ fpc'[f] = "idle" /\ list'[f] = [m \in Msgs |-> Absent] /\ gap'[f] = {}
      /\ \A g \in Fetches : g # f => fpc'[g] = fpc[g] /\ list'[g] = list[g] /\ gap'[g] = gap[g]
  BY <1>1, <1>2 DEF TypeOK
<1>4. /\ HandlerInv' /\ WindowInv' /\ LogInv' /\ ArrivalInv' /\ FreshInv' /\ AnsweredInv'
      /\ InHand' = InHand /\ Coming' = Coming /\ Pending' = Pending
      /\ open' \subseteq Fetches /\ log' \in [Fetches -> Seq(GatewayEvents)]
      /\ taken' \in [Fetches -> Seq(GatewayEvents)] /\ inflight' = inflight
      /\ owed' \in [{Poller} -> SUBSET Fetches]
  BY <1>1, <1>3, CloseInv
<1>5. TypeOK'
  BY <1>1, <1>3, <1>4 DEF TypeOK
<1>6. OrderInv'
  <2>1. \A m \in Msgs : \A g \in Fetches : list'[g][m] <= server[m]
    BY <1>3, NumberTypes DEF OrderInv
  <2>2. QED
    BY <1>1, <1>4, <2>1 DEF OrderInv
<1>7. StaleInv'
  BY <1>1, <1>3 DEF StaleInv, NeverStale, Lagging
<1>8. TrackInv'
  BY <1>1, <1>3, <1>4 DEF TrackInv
<1>9. QED
  BY <1>4, <1>5, <1>6, <1>7, <1>8

(* What is merged is at least as new as what was emitted, and it tracks    *)
(* the server.                                                             *)
LEMMA MergeFresh ==
    ASSUME IInv, NEW f \in Fetches, fpc[f] = "answered"
    PROVE  /\ Merged(f) \in Lists
           /\ \A m \in Msgs : /\ Merged(f)[m] <= server[m]
                              /\ Merged(f)[m] # Absent => emitted[m] <= Merged(f)[m]
<1> USE VersionFacts DEF IInv
<1>1. /\ f \in open /\ log[f] \in Seq(GatewayEvents) /\ list[f] \in Lists
      /\ Ordered(log[f]) /\ Topped(Held(log[f]))
  BY DEF WindowInv, TypeOK, LogInv
<1>2. Merged(f) \in Lists /\ \A m \in Msgs : Folded(list[f][m], Merged(f)[m], m, Held(log[f]))
  BY <1>1, MergeFolds DEF Merged
<1>3. SUFFICES ASSUME NEW m \in Msgs, Merged(f)[m] # Absent
               PROVE  Merged(f)[m] <= server[m] /\ emitted[m] <= Merged(f)[m]
  BY <1>2, NumberTypes
<1>4. Merged(f)[m] \in Int /\ list[f][m] # Absent
  BY <1>2, <1>3 DEF Folded, Lists
<1>5. CASE About(Held(log[f]), m) = {}
  <2>1. Event(m, Merged(f)[m]) \notin Held(log[f])
    BY <1>5 DEF About, Event
  <2>2. Merged(f)[m] = list[f][m]
    BY <1>2, <1>3, <2>1 DEF Folded
  <2>3. QED
    BY <1>1, <1>4, <1>5, <2>2 DEF FreshInv, Passed, OrderInv
<1>6. CASE About(Held(log[f]), m) # {}
  <2>1. Event(m, Merged(f)[m]) \in Held(log[f]) /\ \A e \in About(Held(log[f]), m) : e.rev <= Merged(f)[m]
    BY <1>2, <1>3, <1>6 DEF Folded
  <2>2. Merged(f)[m] <= server[m]
    BY <2>1 DEF LogInv, Event
  <2>3. PICK e \in About(Held(log[f]), m) : emitted[m] <= e.rev
    BY <1>1, <1>6 DEF FreshInv, Passed
  <2>4. e.rev \in Int /\ e.rev <= Merged(f)[m]
    BY <2>1, EventTypes, EventFacts DEF About
  <2>5. QED
    BY <1>4, <2>2, <2>3, <2>4, NumberTypes
<1>7. QED
  BY <1>5, <1>6

(* take() and the fold.                                                    *)
LEMMA MergeInv ==
    ASSUME IInv, NEW f \in Fetches, Merge(f)
    PROVE  IInv'
<1> USE VersionFacts DEF IInv
<1>1. /\ fpc[f] = "answered" /\ fpc' = [fpc EXCEPT ![f] = "merged"]
      /\ list' = [list EXCEPT ![f] = Merged(f)]
      /\ taken' = [taken EXCEPT ![f] = log[f]]
      /\ UNCHANGED <<server, changes, wire, handling, hpc, queue, open, log, inflight, owed,
                     fetched, view, seen, emitted, gap, missed, partial>>
  BY DEF Merge, room, history, Merged, Rec!Take
<1>2. InHand' = InHand /\ Coming' = Coming /\ Pending' = Pending
  BY <1>1, FetchFrame
<1>3. /\ Merged(f) \in Lists
      /\ \A m \in Msgs : /\ Merged(f)[m] <= server[m]
                         /\ Merged(f)[m] # Absent => emitted[m] <= Merged(f)[m]
  BY <1>1, MergeFresh
<1>4. /\ fpc' \in [Fetches -> {"idle", "asked", "answered", "merged", "returning"}]
      /\ list' \in [Fetches -> Lists] /\ taken' \in [Fetches -> Seq(GatewayEvents)]
      /\ fpc'[f] = "merged" /\ list'[f] = Merged(f)
      /\ \A g \in Fetches : g # f => fpc'[g] = fpc[g] /\ list'[g] = list[g]
      /\ \A g \in Fetches : Unlogged(g)' = Unlogged(g)
      /\ \A g \in Fetches : g # f => Merged(g)' = Merged(g)
  BY <1>1, <1>3 DEF TypeOK, Unlogged, Merged
<1>5. TypeOK'
  BY <1>1, <1>4 DEF TypeOK
<1>6. HandlerInv' /\ WindowInv' /\ LogInv' /\ ArrivalInv'
  <2>1. HandlerInv'
    BY <1>1 DEF HandlerInv
  <2>2. WindowInv'
    BY <1>1, <1>4 DEF WindowInv
  <2>3. LogInv'
    BY <1>1, <1>4 DEF LogInv
  <2>4. ArrivalInv'
    <3>1. \A g \in open : Unlogged(g)' = Unlogged(g)
      BY <1>4 DEF TypeOK
    <3>2. QED
      BY <1>1, <1>2, <3>1 DEF ArrivalInv
  <2>5. QED
    BY <2>1, <2>2, <2>3, <2>4
<1>7. OrderInv'
  <2>1. \A m \in Msgs : \A g \in Fetches : list'[g][m] <= server[m]
    BY <1>3, <1>4 DEF OrderInv
  <2>2. QED
    BY <1>1, <1>2, <2>1 DEF OrderInv
<1>8. FreshInv'
  <2>1. SUFFICES ASSUME NEW g \in open, NEW m \in Msgs
                 PROVE  /\ About(Held(log[g]), m) # {}
                             => \E e \in About(Held(log[g]), m) : Passed(m, e.rev)
                        /\ fpc'[g] = "answered" /\ About(Held(log[g]), m) = {} /\ list'[g][m] # Absent =>
                             /\ Passed(m, list'[g][m])
                             /\ hpc = "record" /\ g \notin owed[Poller] /\ handling.msg = m
                                  => handling.rev <= list'[g][m]
    BY <1>1 DEF FreshInv, Passed
  <2>2. g \in Fetches
    BY DEF TypeOK
  <2>3. QED
    BY <1>4, <2>2 DEF FreshInv
<1>9. StaleInv'
  <2>1. \A m \in Msgs : Merged(f)[m] # Absent => seen[m] <= Merged(f)[m]
    BY <1>3, NumberTypes DEF OrderInv, Lists
  <2>2. QED
    BY <1>1, <1>4, <2>1 DEF StaleInv, NeverStale, Lagging
<1>10. AnsweredInv'
  BY <1>1, <1>2, <1>4 DEF AnsweredInv
<1>11. TrackInv'
  <2>1. ASSUME NEW m \in Msgs \ (missed \cup gap[f])
        PROVE  Tracks(Merged(f)[m], server[m], m, Pending, Pending)
    <3>1. Tracks(Merged(f)[m], server[m], m, Unlogged(f), Pending)
      BY <1>1, <2>1 DEF AnsweredInv
    <3>2. Unlogged(f) \subseteq Pending
      BY EventTypes DEF Pending
    <3>3. QED
      BY <3>1, <3>2 DEF Tracks, About
  <2>2. QED
    BY <1>1, <1>2, <1>4, <2>1 DEF TrackInv
<1>12. QED
  BY <1>5, <1>6, <1>7, <1>8, <1>9, <1>10, <1>11

(* The window goes out of scope while the avatars are fetched.             *)
LEMMA DropWindowInv ==
    ASSUME IInv, NEW f \in Fetches, DropWindow(f)
    PROVE  IInv'
<1> USE VersionFacts DEF IInv
<1>1. /\ fpc[f] = "merged" /\ Rec!Close(f) /\ fpc' = [fpc EXCEPT ![f] = "returning"]
      /\ UNCHANGED <<server, changes, wire, handling, hpc, queue, list, fetched, view,
                     seen, emitted, gap, missed, partial>>
  BY DEF DropWindow, room, history
<1>2. /\ fpc' \in [Fetches -> {"idle", "asked", "answered", "merged", "returning"}]
      /\ fpc'[f] = "returning" /\ \A g \in Fetches : g # f => fpc'[g] = fpc[g]
  BY <1>1 DEF TypeOK
<1>3. /\ HandlerInv' /\ WindowInv' /\ LogInv' /\ ArrivalInv' /\ FreshInv' /\ AnsweredInv'
      /\ InHand' = InHand /\ Coming' = Coming /\ Pending' = Pending
      /\ open' \subseteq Fetches /\ log' \in [Fetches -> Seq(GatewayEvents)]
      /\ taken' \in [Fetches -> Seq(GatewayEvents)] /\ inflight' = inflight
      /\ owed' \in [{Poller} -> SUBSET Fetches]
  BY <1>1, <1>2, CloseInv
<1>4. TypeOK'
  BY <1>1, <1>2, <1>3 DEF TypeOK
<1>5. OrderInv'
  BY <1>1, <1>3 DEF OrderInv
<1>6. StaleInv'
  BY <1>1, <1>2 DEF StaleInv, NeverStale, Lagging
<1>7. TrackInv'
  BY <1>1, <1>2, <1>3 DEF TrackInv
<1>8. QED
  BY <1>3, <1>4, <1>5, <1>6, <1>7

(* UpdateChat: the room takes over the list, and with it the gap of the    *)
(* fetch.                                                                  *)
LEMMA UpdateChatInv ==
    ASSUME IInv, NEW f \in Fetches, UpdateChat(f)
    PROVE  IInv'
<1> USE VersionFacts DEF IInv
<1>1. /\ fpc[f] = "returning" /\ fpc' = [fpc EXCEPT ![f] = "idle"]
      /\ view' = list[f] /\ fetched' = TRUE /\ partial' = FALSE
      /\ missed' = missed \cup gap[f] /\ gap' = [gap EXCEPT ![f] = {}]
      /\ list' = [list EXCEPT ![f] = [m \in Msgs |-> Absent]]
      /\ UNCHANGED <<server, changes, wire, handling, hpc, queue, open, log, taken, inflight, owed,
                     seen, emitted>>
  BY DEF UpdateChat, room, windows
<1>2. InHand' = InHand /\ Coming' = Coming /\ Pending' = Pending
  BY <1>1, FetchFrame
<1>3. [m \in Msgs |-> Absent] \in Lists
  BY DEF Lists
<1>4. /\ fpc' \in [Fetches -> {"idle", "asked", "answered", "merged", "returning"}]
      /\ list' \in [Fetches -> Lists] /\ gap' \in [Fetches -> SUBSET Msgs]
      /\ missed' \subseteq Msgs
      /\ fpc'[f] = "idle" /\ list'[f] = [m \in Msgs |-> Absent]
      /\ \A g \in Fetches : g # f => fpc'[g] = fpc[g] /\ list'[g] = list[g] /\ gap'[g] = gap[g]
      /\ \A g \in Fetches : Unlogged(g)' = Unlogged(g)
      /\ \A g \in Fetches : g # f => Merged(g)' = Merged(g)
  BY <1>1, <1>3 DEF TypeOK, Unlogged, Merged
<1>5. TypeOK'
  <2>1. view' \in Lists
    BY <1>1 DEF TypeOK
  <2>2. QED
    BY <1>1, <1>4, <2>1 DEF TypeOK
<1>6. HandlerInv' /\ WindowInv' /\ LogInv' /\ ArrivalInv'
  <2>1. HandlerInv'
    BY <1>1 DEF HandlerInv
  <2>2. WindowInv'
    BY <1>1, <1>4 DEF WindowInv
  <2>3. LogInv'
    BY <1>1, <1>4 DEF LogInv
  <2>4. ArrivalInv'
    <3>1. \A g \in open : Unlogged(g)' = Unlogged(g)
      BY <1>4 DEF TypeOK
    <3>2. QED
      BY <1>1, <1>2, <3>1 DEF ArrivalInv
  <2>5. QED
    BY <2>1, <2>2, <2>3, <2>4
<1>7. OrderInv'
  <2>1. \A m \in Msgs : view'[m] <= server[m] /\ \A g \in Fetches : list'[g][m] <= server[m]
    BY <1>1, <1>4, NumberTypes DEF OrderInv
  <2>2. QED
    BY <1>1, <1>2, <2>1 DEF OrderInv
<1>8. FreshInv'
  <2>1. SUFFICES ASSUME NEW g \in open, NEW m \in Msgs
                 PROVE  /\ About(Held(log[g]), m) # {}
                             => \E e \in About(Held(log[g]), m) : Passed(m, e.rev)
                        /\ fpc'[g] = "answered" /\ About(Held(log[g]), m) = {} /\ list'[g][m] # Absent =>
                             /\ Passed(m, list'[g][m])
                             /\ hpc = "record" /\ g \notin owed[Poller] /\ handling.msg = m
                                  => handling.rev <= list'[g][m]
    BY <1>1 DEF FreshInv, Passed
  <2>2. g \in Fetches
    BY DEF TypeOK
  <2>3. QED
    BY <1>4, <2>2 DEF FreshInv
<1>9. StaleInv'
  <2>1. \A m \in Msgs \ missed' : list[f][m] # Absent => seen[m] <= list[f][m]
    BY <1>1 DEF StaleInv
  <2>2. NeverStale'
    BY <1>1, <2>1, NumberTypes DEF NeverStale, Lagging
  <2>3. QED
    BY <1>1, <1>4, <2>2 DEF StaleInv
<1>10. AnsweredInv'
  BY <1>1, <1>2, <1>4 DEF AnsweredInv
<1>11. TrackInv'
  <2>1. \A m \in Msgs \ missed' : Tracks(list[f][m], server[m], m, Pending, Pending)
    BY <1>1 DEF TrackInv
  <2>2. QED
    BY <1>1, <1>2, <1>4, <2>1 DEF TrackInv
<1>12. QED
  BY <1>5, <1>6, <1>7, <1>8, <1>9, <1>10, <1>11

-----------------------------------------------------------------------------
(* No step of the server, the handler, the UI or a fetch breaks it.        *)
LEMMA NextInv ==
    ASSUME IInv, [Next]_vars
    PROVE  IInv'
<1>1. CASE UNCHANGED vars
  <2>1. UNCHANGED <<server, changes, wire, handling, hpc, queue, open, log, taken, inflight,
                    owed, fpc, list, fetched, view, seen, emitted, gap, missed, partial>>
    BY <1>1 DEF vars, room, windows, history
  <2>2. /\ Pending' = Pending /\ Coming' = Coming /\ InHand' = InHand
        /\ \A f \in Fetches : Merged(f)' = Merged(f) /\ Unlogged(f)' = Unlogged(f)
    BY <2>1 DEF Pending, Coming, InHand, Merged, Unlogged
  <2>3. TypeOK'
    BY <2>1 DEF IInv, TypeOK
  <2>4. HandlerInv' /\ WindowInv'
    <3>1. HandlerInv /\ WindowInv
      BY DEF IInv
    <3>2. HandlerInv'
      BY <2>1, <3>1 DEF HandlerInv
    <3>3. WindowInv'
      BY <2>1, <3>1 DEF WindowInv
    <3>4. QED
      BY <3>2, <3>3
  <2>5. OrderInv' /\ LogInv' /\ ArrivalInv'
    <3>1. OrderInv /\ LogInv /\ ArrivalInv
      BY DEF IInv
    <3>2. OrderInv'
      BY <2>1, <2>2, <3>1 DEF OrderInv
    <3>3. LogInv'
      BY <2>1, <2>2, <3>1 DEF LogInv
    <3>4. ArrivalInv'
      <4>1. \A f \in open' : log'[f] = log[f] /\ Unlogged(f)' = Unlogged(f)
        BY <2>1, <2>2 DEF IInv, TypeOK
      <4>2. QED
        BY <2>1, <2>2, <3>1, <4>1 DEF ArrivalInv
    <3>5. QED
      BY <3>2, <3>3, <3>4
  <2>6. FreshInv' /\ StaleInv'
    <3>1. FreshInv /\ StaleInv
      BY DEF IInv
    <3>2. FreshInv'
      BY <2>1, <2>2, <3>1 DEF FreshInv, Passed
    <3>3. StaleInv'
      BY <2>1, <2>2, <3>1 DEF StaleInv, NeverStale, Lagging
    <3>4. QED
      BY <3>2, <3>3
  <2>7. AnsweredInv' /\ TrackInv'
    <3>1. AnsweredInv /\ TrackInv
      BY DEF IInv
    <3>2. AnsweredInv'
      BY <2>1, <2>2, <3>1 DEF AnsweredInv
    <3>3. TrackInv'
      BY <2>1, <2>2, <3>1 DEF TrackInv
    <3>4. QED
      BY <3>2, <3>3
  <2>8. QED
    BY <2>3, <2>4, <2>5, <2>6, <2>7 DEF IInv
<1>2. CASE Next
  BY <1>2, ChangeInv, ReceiveInv, RecordInv, EmitInv, CancelInv, ConsumeInv, OpenChatInv,
     AnswerInv, FailInv, MergeInv, DropWindowInv, UpdateChatInv DEF Next
<1>3. QED
  BY <1>1, <1>2

(* The room, its windows and what is in flight agree in every reachable    *)
(* state (text.rs:45-114, events.rs:223-342, messenger.rs:132-139).        *)
THEOREM ChatSyncInvariant == Spec => []IInv
BY InitInv, NextInv, PTL DEF Spec

(* Every variable of the room keeps its type, whatever the capacity of     *)
(* text_events and however many fetches overlap (text.rs:45-68,            *)
(* events.rs:223-342).                                                     *)
THEOREM ChatSyncTypeOK == Spec => []TypeOK
<1>1. IInv => TypeOK
  BY DEF IInv
<1>2. QED
  BY <1>1, ChatSyncInvariant, PTL

(* The merge of get_messages is as new as everything that was put into     *)
(* text_events before take() (text.rs:58-68, events.rs:279-341).           *)
THEOREM ChatSyncFoldFresh == Spec => FoldFresh
<1>1. ASSUME IInv, [Next]_vars
      PROVE  [\A f \in Fetches : fpc[f] = "answered" /\ fpc'[f] = "merged" =>
                \A m \in Msgs : list'[f][m] # Absent => list'[f][m] >= emitted[m]]_vars
  <2>1. SUFFICES ASSUME Next, NEW f \in Fetches, fpc[f] = "answered", fpc'[f] = "merged",
                        NEW m \in Msgs, list'[f][m] # Absent
                 PROVE  list'[f][m] >= emitted[m]
    BY <1>1
  <2>2. fpc \in [Fetches -> {"idle", "asked", "answered", "merged", "returning"}]
        /\ list \in [Fetches -> Lists]
    BY <1>1 DEF IInv, TypeOK
  <2>3. Merge(f)
    BY <2>1, <2>2 DEF Next, Change, Receive, Record, Emit, Cancel, Consume, OpenChat, Answer,
                      Fail, Merge, DropWindow, UpdateChat
  <2>4. list'[f] = Merged(f)
    BY <2>2, <2>3 DEF Merge, Merged
  <2>5. emitted[m] <= Merged(f)[m]
    BY <1>1, <2>1, <2>4, MergeFresh
  <2>6. QED
    BY <2>4, <2>5
<1>2. QED
  BY <1>1, ChatSyncInvariant, PTL DEF Spec, FoldFresh

(* The room never shows a revision older than one the UI has processed, or *)
(* a message whose deletion it has processed, outside the known gaps       *)
(* (messenger.rs:132-139, events.rs:85-135).                               *)
THEOREM ChatSyncNeverStale == Spec => []NeverStale
<1>1. IInv => NeverStale
  BY DEF IInv, StaleInv
<1>2. QED
  BY <1>1, ChatSyncInvariant, PTL

(* When nothing is in flight any more, the room shows what the server has, *)
(* outside the known gaps (text.rs:45-68, messenger.rs:132-139).           *)
THEOREM ChatSyncConverged == Spec => []Converged
<1>1. ASSUME IInv, Quiescent, fetched, ~partial, NEW m \in Msgs \ missed
      PROVE  Shows(m)
  <2>1. Pending = {}
    BY <1>1, NothingHeld DEF Quiescent, Pending, Coming, InHand
  <2>2. Tracks(view[m], server[m], m, {}, {})
    BY <1>1, <2>1 DEF IInv, TrackInv
  <2>3. view[m] \in 0 .. MaxRev
    BY <1>1, NumberTypes DEF IInv
  <2>4. QED
    BY <2>2, <2>3, NothingHeld, VersionFacts DEF Tracks, Shows, Live
<1>2. IInv => Converged
  BY <1>1 DEF Converged
<1>3. QED
  BY <1>2, ChatSyncInvariant, PTL

-----------------------------------------------------------------------------
(* Fetches and the handler use the windows as WindowLog allows, which is   *)
(* what Recording implements: a fetch opens its window before it asks,     *)
(* takes and drops it before its list is shown (text.rs:45-68), and the    *)
(* handler records one event at a time (events.rs:279-342).                *)
LEMMA WindowStep ==
    ASSUME IInv, [Next]_vars
    PROVE  [Rec!Next]_(Rec!vars)
<1>1. ASSUME UNCHANGED windows PROVE UNCHANGED Rec!vars
  BY <1>1 DEF windows, Rec!vars
<1>2. CASE UNCHANGED vars \/ Emit \/ Cancel \/ Consume
  BY <1>1, <1>2 DEF vars, Emit, Cancel, Consume
<1>3. ASSUME NEW m \in Msgs, NEW v \in 1 .. Gone, Change(m, v)
      PROVE  UNCHANGED Rec!vars
  BY <1>1, <1>3 DEF Change
<1>4. ASSUME NEW f \in Fetches, Answer(f) \/ UpdateChat(f) PROVE UNCHANGED Rec!vars
  BY <1>1, <1>4 DEF Answer, UpdateChat
<1>5. ASSUME NEW f \in Fetches, OpenChat(f) \/ Fail(f) \/ Merge(f) \/ DropWindow(f)
      PROVE  Rec!Next
  BY <1>5 DEF OpenChat, Fail, Merge, DropWindow, Rec!Next
<1>6. CASE Record
  BY <1>6 DEF Record, Rec!Next
<1>7. CASE Receive
  <2>1. CASE UNCHANGED windows
    BY <1>1, <2>1
  <2>2. CASE Rec!Begin(Poller, Head(wire))
    <3>1. Head(wire) \in GatewayEvents
      BY <1>7 DEF Receive, IInv, TypeOK
    <3>2. QED
      BY <2>2, <3>1 DEF Rec!Next
  <2>3. QED
    BY <1>7, <2>1, <2>2 DEF Receive
<1>8. QED
  BY <1>2, <1>3, <1>4, <1>5, <1>6, <1>7 DEF Next

(* So the room runs on the windows that Recording implements (text.rs:45,  *)
(* recording.rs:52-150).                                                   *)
THEOREM ChatSyncUsesWindowLog == Spec => Rec!Spec
<1>1. Init => Rec!Init
  BY DEF Init
<1>2. IInv /\ [Next]_vars => [Rec!Next]_(Rec!vars)
  BY WindowStep
<1>3. QED
  BY <1>1, <1>2, ChatSyncInvariant, PTL DEF Spec, Rec!Spec
=============================================================================
