---------------------------- MODULE StreamProofs -----------------------------
(***************************************************************************)
(* Proofs about the streams and about what reaches the sidebar through     *)
(* them, for any sets of streams, channels and fetches.                    *)
(*                                                                         *)
(* StreamOwner.tla: who keeps a backend alive, and when the last stream    *)
(* kills it. Directory.tla: a channel is in the sidebar once, although     *)
(* the cache is pushed to without a look, and with its location.           *)
(***************************************************************************)
EXTENDS StreamOwner, Directory, FiniteSetTheorems, TLAPS

-----------------------------------------------------------------------------
(* THE OWNERS OF A BACKEND                                                 *)

(* active_streams counts the registered futures.                           *)
CountInv == activeStreams = Cardinality(At(Registered))

(* With one task: at most one stream is being polled; what it has loaded   *)
(* is still the count when it compares; and who means to kill the backend, *)
(* or has killed it, has seen the last owner gone.                         *)
OnePollInv == \A s, t \in Streams : spc[s] \in Polled /\ spc[t] \in Polled => s = t
LoadedInv == \A s \in Streams : spc[s] = "checking" => active[s] = activeStreams
KillInv == /\ \A s \in Streams : spc[s] = "killing" => owners = 0
           /\ killed => owners = 0

OneTaskInv == OneTask => OnePollInv /\ LoadedInv /\ KillInv

IInv == TypeOK /\ CountInv /\ OneTaskInv

-----------------------------------------------------------------------------
(* Counting the streams at some places.                                    *)

LEMMA AtFinite ==
    ASSUME NEW pcs
    PROVE  /\ IsFiniteSet(At(pcs))
           /\ Cardinality(At(pcs)) \in Nat
           /\ Cardinality(At(pcs)) <= Cardinality(Streams)
<1>1. At(pcs) \in SUBSET Streams
  BY DEF At
<1>2. QED
  BY <1>1, StreamOwnerAssumption, FS_Subset, FS_CardinalityType

(* What a step of one stream does to the streams at pcs.                   *)
LEMMA MoveCounts ==
    ASSUME TypeOK, NEW s \in Streams, NEW to, NEW pcs,
           spc' = [spc EXCEPT ![s] = to]
    PROVE  /\ (spc[s] \in pcs <=> to \in pcs) => At(pcs)' = At(pcs)
           /\ spc[s] \notin pcs /\ to \in pcs =>
                 Cardinality(At(pcs)') = Cardinality(At(pcs)) + 1
           /\ spc[s] \in pcs /\ to \notin pcs =>
                 Cardinality(At(pcs)') = Cardinality(At(pcs)) - 1
<1>1. spc \in [Streams -> StreamPC]
  BY DEF TypeOK
<1>2. At(pcs)' = IF to \in pcs THEN At(pcs) \cup {s} ELSE At(pcs) \ {s}
  BY <1>1 DEF At
<1>3. s \in At(pcs) <=> spc[s] \in pcs
  BY DEF At
<1>4. /\ IsFiniteSet(At(pcs))
      /\ Cardinality(At(pcs) \cup {s}) =
            IF s \in At(pcs) THEN Cardinality(At(pcs)) ELSE Cardinality(At(pcs)) + 1
      /\ Cardinality(At(pcs) \ {s}) =
            IF s \in At(pcs) THEN Cardinality(At(pcs)) - 1 ELSE Cardinality(At(pcs))
  BY AtFinite, FS_AddElement, FS_RemoveElement
<1>5. QED
  BY <1>2, <1>3, <1>4

(* A step that registers and unregisters as active_streams does keeps the  *)
(* count.                                                                  *)
LEMMA CountedMove ==
    ASSUME TypeOK, CountInv, NEW s \in Streams, NEW to \in StreamPC,
           spc' = [spc EXCEPT ![s] = to],
           spc[s] \notin Registered /\ to \in Registered => activeStreams' = activeStreams + 1,
           spc[s] \in Registered /\ to \notin Registered => activeStreams' = activeStreams - 1,
           (spc[s] \in Registered <=> to \in Registered) => activeStreams' = activeStreams
    PROVE  /\ spc' \in [Streams -> StreamPC]
           /\ activeStreams' \in 0 .. Cardinality(Streams)
           /\ CountInv'
<1>1. CountInv'
  BY MoveCounts, AtFinite DEF CountInv
<1>2. Cardinality(At(Registered)') \in Nat
      /\ Cardinality(At(Registered)') <= Cardinality(Streams)
  <2>1. At(Registered)' \in SUBSET Streams
    BY DEF At
  <2>2. QED
    BY <2>1, StreamOwnerAssumption, FS_Subset, FS_CardinalityType
<1>3. activeStreams' \in 0 .. Cardinality(Streams)
  <2>1. Cardinality(Streams) \in Nat
    BY StreamOwnerAssumption, FS_CardinalityType
  <2>2. QED
    BY <1>1, <1>2, <2>1 DEF CountInv
<1>4. QED
  BY <1>1, <1>3 DEF TypeOK

(* With one task, the strong count a stream compares counts the owners, the*)
(* registered futures, and its own upgrade.                                *)
LEMMA StrongCountOfOneTask ==
    ASSUME IInv, OneTask, NEW s \in Streams, spc[s] = "checking"
    PROVE  StrongCount = owners + activeStreams + 1
<1>1. \A t \in Streams \ {s} : spc[t] \notin Polled
  BY DEF IInv, OneTaskInv, OnePollInv, Polled, StreamPC
<1>2. At(Polled) = {s}
  BY <1>1 DEF At, Polled, StreamPC
<1>3. At(InFuture) = At(Registered)
  BY <1>1 DEF IInv, TypeOK, At, Polled, InFuture, Registered, StreamPC
<1>4. Cardinality(At(Polled)) = 1
  BY <1>2, FS_Singleton
<1>5. owners \in Int /\ activeStreams \in Int /\ activeStreams = Cardinality(At(InFuture))
  BY <1>3, AtFinite DEF IInv, CountInv, TypeOK
<1>6. QED
  BY <1>4, <1>5 DEF StrongCount

-----------------------------------------------------------------------------
LEMMA InitInv == Init => IInv
<1> SUFFICES ASSUME Init PROVE IInv
  OBVIOUS
<1>1. At(Registered) = {}
  BY DEF Init, At, Registered
<1>2. CountInv
  BY <1>1, FS_EmptySet DEF Init, CountInv
<1>3. Cardinality(Streams) \in Nat
  BY StreamOwnerAssumption, FS_CardinalityType
<1>4. TypeOK
  <2>1. owners \in 0 .. MaxOwners /\ activeStreams \in 0 .. Cardinality(Streams)
    BY <1>3, StreamOwnerAssumption DEF Init
  <2>2. spc \in [Streams -> StreamPC] /\ active \in [Streams -> 0 .. Cardinality(Streams)]
    BY <1>3 DEF Init, StreamPC
  <2>3. QED
    BY <2>1, <2>2 DEF Init, TypeOK
<1>5. OneTaskInv
  BY DEF Init, OneTaskInv, OnePollInv, LoadedInv, KillInv, Polled
<1>6. QED
  BY <1>2, <1>4, <1>5 DEF IInv

(* The app's handles.                                                      *)
LEMMA OwnersInv ==
    ASSUME IInv, Clone \/ DropOwner
    PROVE  IInv'
<1>1. TypeOK'
  BY StreamOwnerAssumption DEF IInv, TypeOK, Clone, DropOwner
<1>2. CountInv'
  BY DEF IInv, CountInv, At, Clone, DropOwner
<1>3. OneTaskInv'
  BY StreamOwnerAssumption
  DEF IInv, TypeOK, OneTaskInv, OnePollInv, LoadedInv, KillInv, Clone, DropOwner
<1>4. QED
  BY <1>1, <1>2, <1>3 DEF IInv

(* Nobody is being polled when a poll begins or a stream is dropped.       *)
LEMMA OutsidePollInv ==
    ASSUME IInv, NEW s \in Streams,
           Listen(s) \/ DropStream(s) \/ Upgrade(s) \/ Resume(s)
    PROVE  IInv'
<1> USE DEF Goto, StreamPC, Registered
<1>1. /\ spc' \in [Streams -> StreamPC]
      /\ activeStreams' \in 0 .. Cardinality(Streams)
      /\ CountInv'
  BY CountedMove DEF IInv, Listen, DropStream, Upgrade, Resume
<1>2. TypeOK'
  BY <1>1 DEF IInv, TypeOK, Listen, DropStream, Upgrade, Resume
<1>3. OneTaskInv'
  BY DEF IInv, TypeOK, OneTaskInv, OnePollInv, LoadedInv, KillInv, Polled, MayPoll, At,
         Listen, DropStream, Upgrade, Resume
<1>4. QED
  BY <1>1, <1>2, <1>3 DEF IInv

(* A poll that runs, the comparison of owner_dropped apart.                *)
LEMMA PollNextInv ==
    ASSUME IInv, NEW s \in Streams, PollNext(s), ~CheckOwner(s)
    PROVE  IInv'
<1> USE DEF Goto, StreamPC, Registered
<1>1. /\ spc' \in [Streams -> StreamPC]
      /\ activeStreams' \in 0 .. Cardinality(Streams)
      /\ CountInv'
  BY CountedMove
  DEF IInv, PollNext, CreateFuture, Register, SeeKilled, LoadActive, Kill, Pass,
      Unregister, ReleaseFuture, ReleaseUpgrade
<1>2. TypeOK'
  BY <1>1
  DEF IInv, TypeOK, PollNext, CreateFuture, Register, SeeKilled, LoadActive, Kill, Pass,
      Unregister, ReleaseFuture, ReleaseUpgrade
<1>3. OneTaskInv'
  BY DEF IInv, TypeOK, OneTaskInv, OnePollInv, LoadedInv, KillInv, Polled,
         PollNext, CreateFuture, Register, SeeKilled, LoadActive, Kill, Pass,
         Unregister, ReleaseFuture, ReleaseUpgrade
<1>4. QED
  BY <1>1, <1>2, <1>3 DEF IInv

(* owner_dropped: with one task, equal counts mean no owner.               *)
LEMMA CheckOwnerInv ==
    ASSUME IInv, NEW s \in Streams, CheckOwner(s)
    PROVE  IInv'
<1> USE DEF Goto, StreamPC, Registered
<1>1. /\ spc' \in [Streams -> StreamPC]
      /\ activeStreams' \in 0 .. Cardinality(Streams)
      /\ CountInv'
  BY CountedMove DEF IInv, CheckOwner
<1>2. TypeOK'
  <2>1. 0 \in 0 .. Cardinality(Streams)
    BY StreamOwnerAssumption, FS_CardinalityType
  <2>2. QED
    BY <1>1, <2>1 DEF IInv, TypeOK, CheckOwner
<1>3. OneTaskInv'
  <2> SUFFICES ASSUME OneTask PROVE OnePollInv' /\ LoadedInv' /\ KillInv'
    BY DEF OneTaskInv
  <2>1. OnePollInv' /\ LoadedInv'
    BY DEF IInv, TypeOK, OneTaskInv, OnePollInv, LoadedInv, Polled, CheckOwner
  <2>2. OwnerDropped(s) => owners = 0
    BY StrongCountOfOneTask
    DEF CheckOwner, OwnerDropped, IInv, TypeOK, OneTaskInv, LoadedInv
  <2>3. KillInv'
    BY <2>2 DEF IInv, TypeOK, OneTaskInv, KillInv, CheckOwner
  <2>4. QED
    BY <2>1, <2>3
<1>4. QED
  BY <1>1, <1>2, <1>3 DEF IInv

LEMMA NextInv == IInv /\ [Next]_vars => IInv'
<1> SUFFICES ASSUME IInv, [Next]_vars PROVE IInv'
  OBVIOUS
<1>1. CASE UNCHANGED vars
  BY <1>1 DEF vars, IInv, TypeOK, CountInv, At, OneTaskInv, OnePollInv, LoadedInv, KillInv
<1>2. QED
  BY <1>1, OwnersInv, OutsidePollInv, PollNextInv, CheckOwnerInv DEF Next

(* The invariant holds of every behaviour of the streams.                  *)
THEOREM StreamOwnerInvariant == Spec => []IInv
<1>1. QED
  BY InitInv, NextInv, PTL DEF Spec

(* Every variable keeps its type; active_streams never drops below zero,   *)
(* where the AtomicUsize would wrap (lib.rs:295-304).                      *)
THEOREM StreamOwnerTypeOK == Spec => []TypeOK
<1>1. IInv => TypeOK
  BY DEF IInv
<1>2. QED
  BY <1>1, StreamOwnerInvariant, PTL

(* "active_streams never exceeds the number of Arcs held by in-flight      *)
(* next() futures" (lib.rs:283-288), on however many tasks they run.       *)
THEOREM StreamOwnerNeverOverstated == Spec => []NeverOverstated
<1>1. IInv => NeverOverstated
  <2> SUFFICES ASSUME IInv PROVE NeverOverstated
    OBVIOUS
  <2>1. At(Registered) \in SUBSET At(InFuture)
    BY DEF At, InFuture
  <2>2. IsFiniteSet(At(InFuture)) /\ Cardinality(At(Registered)) <= Cardinality(At(InFuture))
    BY <2>1, AtFinite, FS_Subset
  <2>3. QED
    BY <2>2 DEF IInv, CountInv, NeverOverstated
<1>2. QED
  BY <1>1, StreamOwnerInvariant, PTL

(* If one task polls all the streams of the backend, it is never killed    *)
(* while an owner exists (lib.rs:362-390).                                 *)
THEOREM StreamOwnerKilledOnlyUnowned == OneTask => (Spec => []KilledOnlyUnowned)
<1> SUFFICES ASSUME OneTask PROVE Spec => []KilledOnlyUnowned
  OBVIOUS
<1>1. IInv => KilledOnlyUnowned
  BY DEF IInv, OneTaskInv, KillInv, KilledOnlyUnowned
<1>2. QED
  BY <1>1, StreamOwnerInvariant, PTL

-----------------------------------------------------------------------------
(* THE SIDEBAR                                                             *)

(* The empty queue.                                                        *)
LEMMA NothingQueued == ToSet(<<>>) = {}
BY DEF ToSet

(* push_back adds to the queue,                                            *)
LEMMA AppendQueue ==
    ASSUME NEW S, NEW q \in Seq(S), NEW e \in S
    PROVE  /\ Append(q, e) \in Seq(S) /\ Len(Append(q, e)) = Len(q) + 1
           /\ ToSet(Append(q, e)) = ToSet(q) \cup {e}
<1> DEFINE n == Len(q)
           a == Append(q, e)
<1>1. /\ n \in Nat /\ DOMAIN q = 1 .. n /\ DOMAIN a = 1 .. n + 1 /\ a[n + 1] = e
      /\ \A i \in 1 .. n : a[i] = q[i] /\ i \in 1 .. n + 1
      /\ \A i \in 1 .. n + 1 : i \in 1 .. n \/ i = n + 1
  BY SMT
<1> HIDE DEF n, a
<1>2. n + 1 \in 1 .. n + 1
  BY <1>1
<1>3. ToSet(a) = ToSet(q) \cup {e}
  <2>1. \A x : x \in ToSet(a) <=> \E i \in 1 .. n + 1 : x = a[i]
    BY <1>1 DEF ToSet
  <2>2. \A x : x \in ToSet(q) <=> \E i \in 1 .. n : x = q[i]
    BY <1>1 DEF ToSet
  <2>3. QED
    BY <1>1, <1>2, <2>1, <2>2
<1>4. a \in Seq(S) /\ Len(a) = n + 1
  BY DEF a, n
<1>5. QED
  BY <1>3, <1>4 DEF a, n

(* and pop_front takes one entry off, and the rest stays.                  *)
LEMMA TailQueue ==
    ASSUME NEW S, NEW q \in Seq(S), q # <<>>
    PROVE  /\ Tail(q) \in Seq(S) /\ Len(Tail(q)) = Len(q) - 1 /\ Head(q) \in S
           /\ ToSet(q) = {Head(q)} \cup ToSet(Tail(q))
<1> DEFINE n == Len(q)
           a == Tail(q)
           h == Head(q)
<1>1. /\ n \in Nat /\ DOMAIN q = 1 .. n /\ DOMAIN a = 1 .. n - 1 /\ h = q[1] /\ 1 \in 1 .. n
      /\ \A i \in 1 .. n - 1 : a[i] = q[i + 1] /\ i + 1 \in 1 .. n
      /\ \A i \in 1 .. n : i = 1 \/ (i - 1 \in 1 .. n - 1 /\ q[i] = a[i - 1])
      /\ h \in S /\ a \in Seq(S) /\ Len(a) = n - 1
  BY SMT
<1> HIDE DEF n, a, h
<1>2. \A x : x \in ToSet(q) <=> \E i \in 1 .. n : x = q[i]
  BY <1>1 DEF ToSet
<1>3. \A x : x \in ToSet(a) <=> \E i \in 1 .. n - 1 : x = a[i]
  BY <1>1 DEF ToSet
<1>4. ToSet(q) = {h} \cup ToSet(a)
  <2>1. \A x : x \in ToSet(q) => x = h \/ x \in ToSet(a)
    BY <1>1, <1>2, <1>3
  <2>2. h \in ToSet(q) /\ \A x : x \in ToSet(a) => x \in ToSet(q)
    BY <1>1, <1>2, <1>3
  <2>3. QED
    BY <2>1, <2>2
<1>5. QED
  BY <1>1, <1>4 DEF a, n, h

-----------------------------------------------------------------------------
(* A list of channels of S that has each of them at most once.             *)
Listing(list, S) ==
    /\ list \in Lists /\ In(list) \subseteq S
    /\ \A c \in Channels : list[c] <= 1

(* What Ready, REST and the start-up answer has no repeats,                *)
LEMMA OnceListing ==
    ASSUME NEW S, S \subseteq Channels
    PROVE  Listing(Once(S), S) /\ In(Once(S)) = S
BY DEF Listing, Once, Lists, In

(* nor has a list that is pushed to, if the channel was not in it,         *)
LEMMA PushListing ==
    ASSUME NEW S, NEW list, Listing(list, S), NEW c \in Channels, c \notin In(list)
    PROVE  Listing(Push(list, c), S \cup {c}) /\ In(Push(list, c)) = In(list) \cup {c}
<1>1. list \in [Channels -> Nat] /\ list[c] = 0
  BY DEF Listing, Lists, In
<1>2. /\ Push(list, c) \in [Channels -> Nat] /\ Push(list, c)[c] = 1
      /\ \A x \in Channels : x # c => Push(list, c)[x] = list[x]
  BY <1>1 DEF Push
<1>3. QED
  BY <1>1, <1>2 DEF Listing, Lists, In

(* as process_query_event makes sure of,                                   *)
LEMMA AddedListing ==
    ASSUME NEW S, NEW list, Listing(list, S), NEW c \in S, c \in Channels
    PROVE  Listing(Added(list, c), S) /\ In(Added(list, c)) = In(list) \cup {c}
<1>1. CASE list[c] > 0
  BY <1>1 DEF Added, In, Listing
<1>2. CASE ~(list[c] > 0)
  <2>1. c \notin In(list) /\ S \cup {c} = S
    BY <1>2 DEF In
  <2>2. QED
    BY <1>2, <2>1, PushListing DEF Added
<1>3. QED
  BY <1>1, <1>2

(* nor one that some rooms are left out of.                                *)
LEMMA VisibleListing ==
    ASSUME NEW S, NEW list, Listing(list, S)
    PROVE  Listing(Visible(list), S) /\ In(Visible(list)) \subseteq In(list)
BY DEF Listing, Lists, In, Visible

-----------------------------------------------------------------------------
(* What the gateway hands over, and what a fetch carries.                  *)
Dispatches == [ready : BOOLEAN, channels : SUBSET Channels]
Results == [pc : {"idle", "details", "rest", "reply", "answered", "done"}, result : Lists]

(* Channels that have their location, if there is one.                     *)
Located(S) == S \subseteq exists /\ S \ Unplaced \subseteq mapped

(* What the gateway has yet to hand over exists at the server.             *)
WireKnown(w, E) ==
    w = Null \/ (w \in Seq(Dispatches) /\ \A i \in 1 .. Len(w) : w[i].channels \subseteq E)

(* A CHANNEL_CREATE is about a channel that is not in the guild's cache    *)
(* and in no other dispatch of the connection.                             *)
Fresh(w, seen) ==
    w = Null \/ \A i \in 1 .. Len(w) :
        ~w[i].ready =>
            /\ w[i].channels \cap seen = {}
            /\ \A j \in 1 .. Len(w) : j # i => w[i].channels \cap w[j].channels = {}

Cached == IF guild_channels = Null THEN {} ELSE In(guild_channels)

(* The server and its gateway.                                             *)
ServerInv == /\ exists \subseteq Channels /\ mapped \subseteq exists /\ lost \subseteq exists
             /\ WireKnown(wire, exists)
(* The caches hold what exists, each channel once.                         *)
CacheInv == /\ dm_channels = Null \/ Listing(dm_channels, exists \cap Dms)
            /\ guild_channels = Null \/ Listing(guild_channels, exists \cap Rooms)
(* That they stay so rests on what is still on the wire.                   *)
FreshInv == Fresh(wire, Cached)
(* What is on its way to the sidebar has its location already.             *)
QueueInv == /\ query_events \in Seq(Channels) /\ Len(query_events) <= QueueCap
            /\ Located(ToSet(query_events))
(* The start-up is given conversations that have their location.           *)
StartInv == /\ step \in {"ask", "listen", "data", "mute", "done"}
            /\ stream \in Running \cup {"off", "ended"}
            /\ Listing(answer, Dms) /\ Located(In(answer))
(* The lists of the sidebar.                                               *)
SidebarInv ==
    /\ Listing(conversations, Dms) /\ Located(In(conversations))
    /\ rooms = Null \/ (Listing(rooms, Rooms) /\ Located(In(rooms)))
(* A fetch answers with rooms that have their location.                    *)
FetchInv == /\ fetch \in [Fetches -> Results]
            /\ \A f \in Fetches :
                  /\ Listing(fetch[f].result, Rooms) /\ In(fetch[f].result) \subseteq exists
                  /\ fetch[f].pc = "answered" => Located(In(fetch[f].result))

(* The inductive invariant of the directory: a location comes first, then  *)
(* the channel goes on towards the sidebar; and no list has a channel      *)
(* twice, since no cache is pushed what it has.                            *)
DirectoryInv ==
    ServerInv /\ CacheInv /\ FreshInv /\ QueueInv /\ StartInv /\ SidebarInv /\ FetchInv

(* It holds at first.                                                      *)
LEMMA DirectoryInit ==
    ASSUME DInit
    PROVE  DirectoryInv
<1> USE DEF DInit
<1>1. ServerInv /\ CacheInv /\ FreshInv
  BY DirectoryAssumption
  DEF ServerInv, CacheInv, FreshInv, Fresh, WireKnown, DirectoryAssumption, Channels
<1>2. {} \subseteq Channels /\ Listing(Once({}), {}) /\ In(Once({})) = {}
  BY OnceListing
<1>3. Listing(Once({}), Dms) /\ Listing(Once({}), Rooms) /\ Located(In(Once({})))
  BY <1>2 DEF Listing, Located
<1>4. QueueInv /\ StartInv
  BY <1>3, NothingQueued, DirectoryAssumption
  DEF QueueInv, StartInv, Located, DirectoryAssumption
<1>5. SidebarInv
  BY <1>3 DEF SidebarInv
<1>6. FetchInv
  BY <1>2, <1>3 DEF FetchInv, Results, Idle, Listing
<1>7. QED
  BY <1>1, <1>4, <1>5, <1>6 DEF DirectoryInv

(* The server dispatches a channel that exists, and did not before,        *)
LEMMA WireAppend ==
    ASSUME NEW E, NEW F, E \subseteq F, NEW w, WireKnown(w, E), w # Null,
           NEW d \in Dispatches, d.channels \subseteq F, d.channels \cap E = {},
           NEW seen, seen \subseteq E, Fresh(w, seen)
    PROVE  WireKnown(Append(w, d), F) /\ Fresh(Append(w, d), seen)
<1> DEFINE a == Append(w, d)
           n == Len(w)
<1>1. /\ a \in Seq(Dispatches) /\ n \in Nat /\ Len(a) = n + 1 /\ a[n + 1] = d
      /\ \A i \in 1 .. n : a[i] = w[i]
      /\ \A i \in 1 .. n + 1 : i \in 1 .. n \/ i = n + 1
  BY DEF WireKnown
<1>2. \A i \in 1 .. n : w[i].channels \subseteq E
  BY DEF WireKnown
<1>3. \A i \in 1 .. n : ~w[i].ready =>
          /\ w[i].channels \cap seen = {}
          /\ \A j \in 1 .. n : j # i => w[i].channels \cap w[j].channels = {}
  BY DEF Fresh
<1> HIDE DEF a, n
<1>4. WireKnown(a, F)
  BY <1>1, <1>2 DEF WireKnown
<1>5. ASSUME NEW i \in 1 .. n + 1, ~a[i].ready
      PROVE  /\ a[i].channels \cap seen = {}
             /\ \A j \in 1 .. n + 1 : j # i => a[i].channels \cap a[j].channels = {}
  <2>1. CASE i = n + 1
    BY <1>1, <1>2, <2>1
  <2>2. CASE i \in 1 .. n
    BY <1>1, <1>2, <1>3, <1>5, <2>2
  <2>3. QED
    BY <1>1, <2>1, <2>2
<1>6. Fresh(a, seen)
  BY <1>1, <1>5 DEF Fresh
<1>7. QED
  BY <1>4, <1>6 DEF a

(* the handler takes the oldest dispatch, which the others say nothing of  *)
(* if it or they are about new channels,                                   *)
LEMMA WireTail ==
    ASSUME NEW E, NEW w, WireKnown(w, E), w # Null, w # <<>>, NEW seen, Fresh(w, seen)
    PROVE  /\ WireKnown(Tail(w), E) /\ Head(w) \in Dispatches /\ Head(w).channels \subseteq E
           /\ Fresh(Tail(w), seen \cup Head(w).channels)
           /\ ~Head(w).ready => Head(w).channels \cap seen = {}
<1> DEFINE a == Tail(w)
           n == Len(w)
<1>1. /\ a \in Seq(Dispatches) /\ Head(w) \in Dispatches
      /\ Head(w) = w[1] /\ 1 \in 1 .. n /\ n \in Nat /\ Len(a) = n - 1
      /\ \A i \in 1 .. n - 1 : i + 1 \in 1 .. n /\ a[i] = w[i + 1] /\ i + 1 # 1
      /\ \A i, j \in 1 .. n - 1 : i # j => i + 1 # j + 1
  BY DEF WireKnown
<1>2. \A i \in 1 .. n : w[i].channels \subseteq E
  BY DEF WireKnown
<1>3. \A i \in 1 .. n : ~w[i].ready =>
          /\ w[i].channels \cap seen = {}
          /\ \A j \in 1 .. n : j # i => w[i].channels \cap w[j].channels = {}
  BY DEF Fresh
<1> HIDE DEF a, n
<1>4. WireKnown(a, E) /\ Head(w).channels \subseteq E
  BY <1>1, <1>2 DEF WireKnown
<1>5. ASSUME NEW i \in 1 .. n - 1, ~a[i].ready
      PROVE  /\ a[i].channels \cap (seen \cup Head(w).channels) = {}
             /\ \A j \in 1 .. n - 1 : j # i => a[i].channels \cap a[j].channels = {}
  <2>1. i + 1 \in 1 .. n /\ ~w[i + 1].ready /\ a[i] = w[i + 1] /\ i + 1 # 1
    BY <1>1, <1>5
  <2>2. a[i].channels \cap seen = {} /\ a[i].channels \cap Head(w).channels = {}
    BY <1>1, <1>3, <2>1
  <2>3. ASSUME NEW j \in 1 .. n - 1, j # i PROVE a[i].channels \cap a[j].channels = {}
    BY <1>1, <1>3, <2>1, <2>3
  <2>4. QED
    BY <2>2, <2>3
<1>6. Fresh(a, seen \cup Head(w).channels)
  BY <1>1, <1>5 DEF Fresh
<1>7. QED
  BY <1>1, <1>3, <1>4, <1>6 DEF a

(* and a fresh connection begins with what exists.                         *)
LEMMA WireConnected ==
    ASSUME exists \subseteq Channels, NEW seen
    PROVE  WireKnown(<<Connected>>, exists) /\ Fresh(<<Connected>>, seen)
<1> DEFINE d == Connected
<1>1. d \in Dispatches /\ d.channels = exists /\ d.ready
  BY DEF Connected, Dispatches
<1> HIDE DEF d
<1>2. <<d>> \in Seq(Dispatches) /\ \A i \in 1 .. Len(<<d>>) : <<d>>[i] = d
  BY <1>1
<1>3. QED
  BY <1>1, <1>2 DEF WireKnown, Fresh, d

(* Less on the wire or in the cache is as fresh.                           *)
LEMMA FreshLess ==
    ASSUME NEW w, NEW S, NEW T, T \subseteq S, Fresh(w, S)
    PROVE  Fresh(w, T)
BY DEF Fresh

(* The parts a step does not touch: the server forgets no channel and a    *)
(* location is never dropped.                                              *)
LEMMA Kept ==
    ASSUME DirectoryInv, exists \subseteq exists', mapped \subseteq mapped'
    PROVE  /\ UNCHANGED <<dm_channels, guild_channels>> => CacheInv'
           /\ UNCHANGED <<wire, guild_channels>> => FreshInv'
           /\ UNCHANGED query_events => QueueInv'
           /\ UNCHANGED <<step, stream, answer>> => StartInv'
           /\ UNCHANGED <<conversations, rooms>> => SidebarInv'
           /\ UNCHANGED fetch => FetchInv'
<1>1. UNCHANGED <<dm_channels, guild_channels>> => CacheInv'
  BY DEF DirectoryInv, CacheInv, Listing
<1>2. UNCHANGED <<wire, guild_channels>> => FreshInv'
  BY DEF DirectoryInv, FreshInv, Fresh, Cached
<1>3. UNCHANGED query_events => QueueInv'
  BY DEF DirectoryInv, QueueInv, Located
<1>4. UNCHANGED <<step, stream, answer>> => StartInv'
  BY DEF DirectoryInv, StartInv, Located, Listing
<1>5. UNCHANGED <<conversations, rooms>> => SidebarInv'
  BY DEF DirectoryInv, SidebarInv, Located, Listing
<1>6. UNCHANGED fetch => FetchInv'
  BY DEF DirectoryInv, FetchInv, Located, Listing
<1>7. QED
  BY <1>1, <1>2, <1>3, <1>4, <1>5, <1>6

(* The server and the gateway.                                             *)
LEMMA GatewayInv ==
    ASSUME DirectoryInv,
           \/ \E c \in Channels : Create(c)
           \/ EnsureGateway \/ GatewayGone \/ Ready \/ ChannelCreate \/ Dropped
    PROVE  DirectoryInv'
<1>1. /\ ServerInv /\ CacheInv /\ QueueInv
      /\ exists \subseteq Channels /\ mapped \subseteq exists /\ lost \subseteq exists
      /\ WireKnown(wire, exists) /\ Fresh(wire, Cached)
  BY DEF DirectoryInv, ServerInv, FreshInv
<1>2. Cached \subseteq exists
  BY <1>1 DEF Cached, CacheInv, Listing
<1>3. ASSUME NEW c \in Channels, Create(c) PROVE DirectoryInv'
  <2> DEFINE d == [ready |-> FALSE, channels |-> {c}]
  <2>1. /\ c \notin exists /\ exists' = exists \cup {c}
        /\ wire' = IF wire = Null THEN Null ELSE Append(wire, d)
        /\ UNCHANGED <<dm_channels, guild_channels, mapped, query_events, lost, step, answer,
                       stream, conversations, rooms, fetch>>
    BY <1>3 DEF Create, ui
  <2>2. d \in Dispatches /\ d.channels \subseteq exists' /\ d.channels \cap exists = {}
    BY <2>1 DEF Dispatches
  <2> HIDE DEF d
  <2>3. exists \subseteq exists' /\ mapped \subseteq mapped' /\ Cached' = Cached
    BY <2>1 DEF Cached
  <2>4. WireKnown(wire', exists') /\ Fresh(wire', Cached)
    <3>1. CASE wire = Null
      BY <2>1, <3>1 DEF WireKnown, Fresh
    <3>2. CASE wire # Null
      <4>1. WireKnown(Append(wire, d), exists') /\ Fresh(Append(wire, d), Cached)
        BY <1>1, <1>2, <2>2, <2>3, <3>2, WireAppend
      <4>2. QED
        BY <2>1, <3>2, <4>1
    <3>3. QED
      BY <3>1, <3>2
  <2>5. ServerInv'
    BY <1>1, <2>1, <2>4 DEF ServerInv, WireKnown
  <2>6. FreshInv'
    BY <2>3, <2>4 DEF FreshInv, Fresh
  <2>7. QED
    BY <2>1, <2>3, <2>5, <2>6, Kept DEF DirectoryInv
<1>4. ASSUME WireKnown(wire', exists), Fresh(wire', Cached),
             UNCHANGED <<exists, dm_channels, guild_channels, mapped, query_events, lost, step,
                         answer, stream, conversations, rooms, fetch>>
      PROVE  DirectoryInv'
  <2>1. ServerInv' /\ FreshInv'
    BY <1>1, <1>4 DEF ServerInv, WireKnown, FreshInv, Fresh, Cached
  <2>2. QED
    BY <1>4, <2>1, Kept DEF DirectoryInv
<1>5. CASE EnsureGateway
  <2>1. WireKnown(<<Connected>>, exists) /\ Fresh(<<Connected>>, Cached)
    BY <1>1, WireConnected
  <2>2. QED
    BY <1>4, <1>5, <2>1 DEF EnsureGateway, ui
<1>6. CASE GatewayGone
  BY <1>4, <1>6 DEF GatewayGone, WireKnown, Fresh, ui
<1>7. ASSUME wire # Null, wire # <<>>, wire' = Tail(wire)
      PROVE  /\ WireKnown(wire', exists) /\ Fresh(wire', Cached \cup Head(wire).channels)
             /\ Head(wire) \in Dispatches /\ Head(wire).channels \subseteq exists
             /\ ~Head(wire).ready => Head(wire).channels \cap Cached = {}
  <2>1. /\ WireKnown(Tail(wire), exists)
        /\ Fresh(Tail(wire), Cached \cup Head(wire).channels)
        /\ Head(wire) \in Dispatches /\ Head(wire).channels \subseteq exists
        /\ ~Head(wire).ready => Head(wire).channels \cap Cached = {}
    BY <1>1, <1>7, WireTail
  <2>2. QED
    BY <1>7, <2>1
<1>8. CASE Dropped
  <2>1. wire # Null /\ wire # <<>> /\ wire' = Tail(wire)
    BY <1>8 DEF Dropped, Received, Next1
  <2>2. WireKnown(wire', exists) /\ Fresh(wire', Cached)
    BY <1>7, <2>1, FreshLess
  <2>3. QED
    BY <1>4, <1>8, <2>2 DEF Dropped, ui
<1>9. CASE Ready
  <2> DEFINE D == Head(wire).channels \cap Dms
             R == Head(wire).channels \cap Rooms
  <2>1. /\ wire # Null /\ wire # <<>> /\ wire' = Tail(wire)
        /\ dm_channels' = Once(D) /\ guild_channels' \in {guild_channels, Once(R)}
        /\ UNCHANGED <<exists, mapped, query_events, lost, step, answer, stream, conversations,
                       rooms, fetch>>
    BY <1>9 DEF Ready, Received, Next1, ui
  <2>2. WireKnown(wire', exists) /\ Fresh(wire', Cached \cup Head(wire).channels)
    BY <1>7, <2>1
  <2>3. D \subseteq exists \cap Dms /\ R \subseteq exists \cap Rooms /\ R \subseteq Head(wire).channels
        /\ D \subseteq Channels /\ R \subseteq Channels
    BY <1>1, <1>7, <2>1
  <2> HIDE DEF D, R
  <2>4. Listing(Once(D), D) /\ Listing(Once(R), R) /\ In(Once(R)) = R
    BY <2>3, OnceListing
  <2>5. CacheInv'
    <3>1. Listing(Once(D), exists' \cap Dms) /\ Listing(Once(R), exists' \cap Rooms)
      BY <2>1, <2>3, <2>4 DEF Listing
    <3>2. QED
      BY <1>1, <2>1, <3>1 DEF CacheInv, Listing
  <2>6. FreshInv'
    <3>1. Cached' = Cached \/ Cached' \subseteq R
      BY <2>1, <2>4 DEF Cached
    <3>2. Cached' \subseteq Cached \cup Head(wire).channels
      BY <2>3, <3>1
    <3>3. QED
      BY <2>2, <3>2, FreshLess DEF FreshInv
  <2>7. ServerInv'
    BY <1>1, <2>1, <2>2 DEF ServerInv, WireKnown
  <2>8. QED
    BY <2>1, <2>5, <2>6, <2>7, Kept DEF DirectoryInv
<1>10. CASE ChannelCreate
  <2>1. PICK c \in Head(wire).channels :
            /\ mapped' = mapped \cup ({c} \ Unplaced)
            /\ guild_channels' = IF c \notin Rooms THEN guild_channels
                                 ELSE IF guild_channels = Null THEN Once({c})
                                 ELSE Push(guild_channels, c)
            /\ ForcePush(c)
    BY <1>10 DEF ChannelCreate
  <2>2. /\ wire # Null /\ wire # <<>> /\ wire' = Tail(wire) /\ ~Head(wire).ready
        /\ UNCHANGED <<exists, dm_channels, step, answer, stream, conversations, rooms, fetch>>
    BY <1>10 DEF ChannelCreate, Received, Next1, ui
  <2>3. /\ WireKnown(wire', exists) /\ Fresh(wire', Cached \cup Head(wire).channels)
        /\ c \in exists /\ c \in Channels /\ c \notin Cached
    BY <1>1, <1>7, <2>1, <2>2
  <2>4. CacheInv' /\ Cached' \subseteq Cached \cup {c}
    <3>1. CASE c \notin Rooms
      BY <1>1, <2>1, <2>2, <3>1 DEF CacheInv, Cached, Listing
    <3>2. CASE c \in Rooms /\ guild_channels = Null
      <4>1. guild_channels' = Once({c})
        BY <2>1, <3>2
      <4>2. {c} \subseteq Channels
        BY <2>3
      <4>3. Listing(Once({c}), {c}) /\ In(Once({c})) = {c}
        BY <4>2, OnceListing
      <4>4. Listing(guild_channels', exists' \cap Rooms) /\ In(guild_channels') = {c}
        BY <2>2, <2>3, <3>2, <4>1, <4>3 DEF Listing
      <4>5. QED
        BY <1>1, <2>2, <4>4 DEF CacheInv, Listing, Cached
    <3>3. CASE c \in Rooms /\ guild_channels # Null
      <4>1. Listing(guild_channels, exists \cap Rooms) /\ c \notin In(guild_channels)
        BY <1>1, <2>3, <3>3 DEF CacheInv, Cached
      <4>2. /\ Listing(Push(guild_channels, c), (exists \cap Rooms) \cup {c})
            /\ In(Push(guild_channels, c)) = In(guild_channels) \cup {c}
        BY <2>3, <4>1, PushListing
      <4>3. guild_channels' = Push(guild_channels, c)
        BY <2>1, <3>3
      <4>4. /\ Listing(guild_channels', exists' \cap Rooms)
            /\ In(guild_channels') = In(guild_channels) \cup {c}
        BY <2>2, <2>3, <3>3, <4>2, <4>3 DEF Listing
      <4>5. QED
        BY <1>1, <2>2, <3>3, <4>4 DEF CacheInv, Listing, Cached
    <3>4. QED
      BY <3>1, <3>2, <3>3
  <2>5. FreshInv'
    <3>1. Cached' \subseteq Cached \cup Head(wire).channels
      BY <2>1, <2>4
    <3>2. QED
      BY <2>3, <3>1, FreshLess DEF FreshInv
  <2>6. QueueInv' /\ lost' \subseteq exists'
    <3> DEFINE q == query_events
    <3>1. q \in Seq(Channels) /\ Len(q) <= QueueCap /\ Located(ToSet(q)) /\ Len(q) \in Nat
          /\ QueueCap \in Nat \ {0}
      BY <1>1, DirectoryAssumption DEF QueueInv, DirectoryAssumption
    <3>2. ToSet(query_events') \subseteq ToSet(q) \cup {c} => Located(ToSet(query_events))'
      BY <2>1, <2>2, <2>3, <3>1 DEF Located
    <3>3. CASE Len(q) = QueueCap
      <4>1. query_events' = Append(Tail(q), c) /\ lost' = lost \cup {Head(q)}
        BY <2>1, <3>3 DEF ForcePush
      <4>2. q # <<>>
        BY <3>1, <3>3
      <4> HIDE DEF q
      <4>3. /\ Tail(q) \in Seq(Channels) /\ Len(Tail(q)) = Len(q) - 1
            /\ ToSet(q) = {Head(q)} \cup ToSet(Tail(q))
        BY <3>1, <4>2, TailQueue
      <4>4. /\ Append(Tail(q), c) \in Seq(Channels) /\ Len(Append(Tail(q), c)) = Len(Tail(q)) + 1
            /\ ToSet(Append(Tail(q), c)) = ToSet(Tail(q)) \cup {c}
        <5> DEFINE r == Tail(q)
        <5>1. r \in Seq(Channels)
          BY <4>3
        <5> HIDE DEF r
        <5>2. /\ Append(r, c) \in Seq(Channels) /\ Len(Append(r, c)) = Len(r) + 1
              /\ ToSet(Append(r, c)) = ToSet(r) \cup {c}
          BY <2>3, <5>1, AppendQueue
        <5>3. QED
          BY <5>2 DEF r
      <4>5. ToSet(query_events') \subseteq ToSet(q) \cup {c}
        BY <4>1, <4>3, <4>4
      <4>6. Located(ToSet(query_events))'
        BY <3>2, <4>5
      <4>7. QueueInv'
        BY <3>1, <3>3, <4>1, <4>3, <4>4, <4>6 DEF QueueInv
      <4>8. Head(q) \in exists
        BY <3>1, <4>3 DEF Located
      <4>9. QED
        BY <1>1, <2>2, <4>1, <4>7, <4>8
    <3>4. CASE Len(q) # QueueCap
      <4>1. query_events' = Append(q, c) /\ lost' = lost
        BY <2>1, <3>4 DEF ForcePush
      <4> HIDE DEF q
      <4>2. /\ Append(q, c) \in Seq(Channels) /\ Len(Append(q, c)) = Len(q) + 1
            /\ ToSet(Append(q, c)) = ToSet(q) \cup {c}
        BY <2>3, <3>1, AppendQueue
      <4>3. Located(ToSet(query_events))'
        BY <3>2, <4>1, <4>2
      <4>4. QED
        BY <1>1, <2>2, <3>1, <3>4, <4>1, <4>2, <4>3 DEF QueueInv
    <3>5. QED
      BY <3>3, <3>4
  <2>7. ServerInv'
    BY <1>1, <2>1, <2>2, <2>3, <2>6 DEF ServerInv, WireKnown
  <2>8. QED
    BY <2>1, <2>2, <2>4, <2>5, <2>6, <2>7, Kept DEF DirectoryInv
<1>11. QED
  BY <1>3, <1>5, <1>6, <1>8, <1>9, <1>10

(* The start-up, and the stream that follows it.                           *)
LEMMA SidebarStep ==
    ASSUME DirectoryInv,
           \/ AskRooms \/ StartStream \/ Store \/ ProcessQueryEvent
           \/ PopNothing \/ PollForEvents \/ PollReturns \/ StreamEnds
    PROVE  DirectoryInv'
<1>1. /\ ServerInv /\ CacheInv /\ QueueInv /\ StartInv /\ SidebarInv
      /\ exists \subseteq Channels /\ mapped \subseteq exists /\ lost \subseteq exists
      /\ WireKnown(wire, exists) /\ Fresh(wire, Cached)
  BY DEF DirectoryInv, ServerInv, FreshInv
<1>2. CASE AskRooms
  <2>1. /\ answer' \in IF dm_channels # Null THEN {dm_channels}
                       ELSE {Once(exists \cap Dms), Once({})}
        /\ mapped' = mapped \cup (In(answer') \ Unplaced) /\ step' = "listen"
        /\ UNCHANGED <<exists, wire, dm_channels, guild_channels, query_events, lost, stream,
                       conversations, rooms, fetch>>
    BY <1>2 DEF AskRooms
  <2>2. Listing(answer', exists \cap Dms)
    <3>1. CASE dm_channels # Null
      BY <1>1, <2>1, <3>1 DEF CacheInv
    <3>2. CASE dm_channels = Null
      <4>1. exists \cap Dms \subseteq Channels /\ {} \subseteq Channels
        BY DEF Channels
      <4>2. Listing(Once(exists \cap Dms), exists \cap Dms) /\ Listing(Once({}), {})
        BY <4>1, OnceListing
      <4>3. QED
        BY <2>1, <3>2, <4>2 DEF Listing
    <3>3. QED
      BY <3>1, <3>2
  <2>3. In(answer') \subseteq exists /\ Listing(answer', Dms)
    BY <2>2 DEF Listing
  <2>4. ServerInv'
    BY <1>1, <2>1, <2>3 DEF ServerInv, WireKnown
  <2>5. StartInv'
    BY <1>1, <2>1, <2>3 DEF StartInv, Located, Listing
  <2>6. QED
    BY <2>1, <2>4, <2>5, Kept DEF DirectoryInv
<1>3. CASE StartStream
  <2>1. /\ wire' \in {wire, <<Connected>>} /\ step' \in {"data", "mute"}
        /\ UNCHANGED <<exists, dm_channels, guild_channels, mapped, query_events, lost, answer,
                       stream, conversations, rooms, fetch>>
    BY <1>3 DEF StartStream
  <2>2. WireKnown(<<Connected>>, exists) /\ Fresh(<<Connected>>, Cached)
    BY <1>1, WireConnected
  <2>3. WireKnown(wire', exists) /\ Fresh(wire', Cached) /\ Cached' = Cached
    BY <1>1, <2>1, <2>2 DEF Cached
  <2>4. ServerInv' /\ FreshInv'
    BY <1>1, <2>1, <2>3 DEF ServerInv, WireKnown, FreshInv, Fresh
  <2>5. StartInv'
    BY <1>1, <2>1 DEF StartInv, Located, Listing
  <2>6. QED
    BY <2>1, <2>4, <2>5, Kept DEF DirectoryInv
<1>4. ASSUME UNCHANGED <<exists, wire, mapped, lost>> PROVE ServerInv'
  BY <1>1, <1>4 DEF ServerInv, WireKnown
<1>5. CASE Store
  <2>1. /\ conversations' = answer /\ answer' = Once({}) /\ stream' \in {"on", "off"}
        /\ step' = "done"
        /\ UNCHANGED <<exists, wire, dm_channels, guild_channels, mapped, query_events, lost,
                       rooms, fetch>>
    BY <1>5 DEF Store, backend
  <2>2. SidebarInv'
    BY <1>1, <2>1 DEF SidebarInv, StartInv, Listing, Located
  <2>3. Listing(Once({}), {}) /\ In(Once({})) = {}
    BY OnceListing
  <2>4. StartInv'
    BY <1>1, <2>1, <2>3 DEF StartInv, Listing, Located, Running
  <2>5. QED
    BY <1>4, <2>1, <2>2, <2>4, Kept DEF DirectoryInv
<1>6. CASE ProcessQueryEvent
  <2> DEFINE q == query_events
             c == Head(q)
  <2>1. /\ q # <<>> /\ query_events' = Tail(q)
        /\ UNCHANGED <<exists, wire, dm_channels, guild_channels, mapped, lost, step, answer,
                       stream, fetch>>
    BY <1>6 DEF ProcessQueryEvent
  <2>2. IF c \in Dms THEN conversations' = Added(conversations, c) /\ UNCHANGED rooms
        ELSE rooms' = (IF rooms = Null THEN Null ELSE Added(rooms, c)) /\ UNCHANGED conversations
    BY <1>6 DEF ProcessQueryEvent
  <2>3. /\ Tail(q) \in Seq(Channels) /\ Len(Tail(q)) = Len(q) - 1 /\ c \in Channels
        /\ ToSet(q) = {c} \cup ToSet(Tail(q))
    <3>1. q \in Seq(Channels)
      BY <1>1 DEF QueueInv
    <3> HIDE DEF q
    <3>2. QED
      BY <2>1, <3>1, TailQueue
  <2>4. Len(q) \in Nat /\ Len(q) <= QueueCap /\ QueueCap \in Nat /\ Located(ToSet(q))
    BY <1>1, DirectoryAssumption DEF QueueInv, DirectoryAssumption
  <2>5. QueueInv'
    BY <2>1, <2>3, <2>4 DEF QueueInv, Located
  <2> HIDE DEF q, c
  <2>6. SidebarInv'
    <3>1. Located({c})
      BY <2>3, <2>4 DEF Located
    <3>2. CASE c \in Dms
      <4>1. Listing(conversations, Dms) /\ Located(In(conversations))
        BY <1>1 DEF SidebarInv
      <4>2. /\ Listing(Added(conversations, c), Dms)
            /\ In(Added(conversations, c)) = In(conversations) \cup {c}
        BY <2>3, <3>2, <4>1, AddedListing
      <4>3. conversations' = Added(conversations, c) /\ rooms' = rooms
        BY <2>2, <3>2
      <4>4. Located(In(conversations))'
        BY <2>1, <3>1, <4>1, <4>2, <4>3 DEF Located
      <4>5. rooms' = Null \/ (Listing(rooms', Rooms) /\ Located(In(rooms))')
        BY <1>1, <2>1, <4>3 DEF SidebarInv, Located
      <4>6. QED
        BY <4>2, <4>3, <4>4, <4>5 DEF SidebarInv, Listing
    <3>3. CASE c \notin Dms /\ rooms = Null
      BY <1>1, <2>1, <2>2, <3>3 DEF SidebarInv, Listing, Located
    <3>4. CASE c \notin Dms /\ rooms # Null
      <4>1. Listing(rooms, Rooms) /\ Located(In(rooms)) /\ c \in Rooms
        BY <1>1, <2>3, <3>4 DEF SidebarInv, Channels
      <4>2. Listing(Added(rooms, c), Rooms) /\ In(Added(rooms, c)) = In(rooms) \cup {c}
        BY <2>3, <4>1, AddedListing
      <4>3. rooms' = Added(rooms, c) /\ conversations' = conversations
        BY <2>2, <3>4
      <4>4. Located(In(rooms))'
        BY <2>1, <3>1, <4>1, <4>2, <4>3 DEF Located
      <4>5. Listing(conversations', Dms) /\ Located(In(conversations))'
        BY <1>1, <2>1, <4>3 DEF SidebarInv, Located
      <4>6. QED
        BY <4>2, <4>3, <4>4, <4>5 DEF SidebarInv, Listing
    <3>5. QED
      BY <3>2, <3>3, <3>4
  <2>7. QED
    BY <1>4, <2>1, <2>5, <2>6, Kept DEF DirectoryInv
<1>7. ASSUME stream' \in Running \cup {"ended"}, wire' \in {wire, Null},
             UNCHANGED <<exists, dm_channels, guild_channels, mapped, query_events, lost,
                         step, answer, conversations, rooms, fetch>>
      PROVE  DirectoryInv'
  <2>1. StartInv'
    BY <1>1, <1>7 DEF StartInv, Located, Listing
  <2>2. ServerInv' /\ FreshInv'
    BY <1>1, <1>7 DEF ServerInv, WireKnown, FreshInv, Fresh, Cached
  <2>3. QED
    BY <1>7, <2>1, <2>2, Kept DEF DirectoryInv
<1>8. CASE PopNothing \/ PollForEvents \/ PollReturns \/ StreamEnds
  <2>1. /\ stream' \in Running \cup {"ended"} /\ wire' \in {wire, Null}
        /\ UNCHANGED <<exists, dm_channels, guild_channels, mapped, query_events, lost,
                       step, answer, conversations, rooms, fetch>>
    BY <1>8 DEF PopNothing, PollForEvents, PollReturns, StreamEnds, Running, backend
  <2>2. QED
    BY <1>7, <2>1
<1>9. QED
  BY <1>2, <1>3, <1>5, <1>6, <1>8

(* The rooms of the guild.                                                 *)
LEMMA FetchStepInv ==
    ASSUME DirectoryInv, NEW f \in Fetches, GetGuild(f) \/ FetchStep(f)
    PROVE  DirectoryInv'
<1>1. /\ ServerInv /\ CacheInv /\ SidebarInv /\ FetchInv
      /\ exists \subseteq Channels /\ mapped \subseteq exists /\ lost \subseteq exists
      /\ WireKnown(wire, exists) /\ fetch \in [Fetches -> Results]
      /\ fetch[f] \in Results
      /\ Listing(fetch[f].result, Rooms) /\ In(fetch[f].result) \subseteq exists
  BY DEF DirectoryInv, ServerInv, FetchInv
<1>2. ASSUME mapped \subseteq mapped', mapped' \subseteq exists, SidebarInv', FetchInv',
             UNCHANGED <<exists, wire, dm_channels, guild_channels, query_events, lost, step,
                         answer, stream>>
      PROVE  DirectoryInv'
  <2>1. ServerInv'
    BY <1>1, <1>2 DEF ServerInv, WireKnown
  <2>2. QED
    BY <1>2, <2>1, Kept DEF DirectoryInv
<1>3. ASSUME NEW r \in Results, fetch' = [fetch EXCEPT ![f] = r],
             Listing(r.result, Rooms), In(r.result) \subseteq exists,
             r.pc = "answered" => In(r.result) \subseteq mapped',
             mapped \subseteq mapped', exists' = exists
      PROVE  FetchInv'
  <2>1. fetch' \in [Fetches -> Results]
        /\ \A g \in Fetches : fetch'[g] = IF g = f THEN r ELSE fetch[g]
    BY <1>1, <1>3
  <2>2. ASSUME NEW g \in Fetches
        PROVE  /\ Listing(fetch'[g].result, Rooms) /\ In(fetch'[g].result) \subseteq exists'
               /\ fetch'[g].pc = "answered" => Located(In(fetch[g].result))'
    <3>1. CASE g = f
      BY <1>3, <2>1, <3>1 DEF Located
    <3>2. CASE g # f
      BY <1>1, <1>3, <2>1, <3>2 DEF FetchInv, Located
    <3>3. QED
      BY <3>1, <3>2
  <2>3. QED
    BY <2>1, <2>2 DEF FetchInv, Listing
<1>4. ASSUME NEW pc \in {"details", "rest"}, GotoFetch(f, pc), UNCHANGED <<exists, mapped>>
      PROVE  FetchInv'
  <2> DEFINE r == [fetch[f] EXCEPT !.pc = pc]
  <2>1. r \in Results /\ r.pc = pc /\ r.result = fetch[f].result
        /\ fetch' = [fetch EXCEPT ![f] = r]
    BY <1>1, <1>4 DEF Results, GotoFetch
  <2> HIDE DEF r
  <2>2. QED
    BY <1>1, <1>3, <1>4, <2>1
<1>5. ASSUME NEW pc \in {"reply", "answered", "done"}, NEW list, Listing(list, Rooms),
             Result(f, pc, list), In(list) \subseteq exists,
             pc = "answered" => In(list) \subseteq mapped',
             mapped \subseteq mapped', exists' = exists
      PROVE  FetchInv'
  <2> DEFINE r == [pc |-> pc, result |-> list]
  <2>1. r \in Results /\ r.pc = pc /\ r.result = list /\ fetch' = [fetch EXCEPT ![f] = r]
    BY <1>5 DEF Results, Result, Listing
  <2> HIDE DEF r
  <2>2. QED
    BY <1>3, <1>5, <2>1
<1>6. ASSUME UNCHANGED <<conversations, rooms>>, mapped \subseteq mapped', exists' = exists
      PROVE  SidebarInv'
  BY <1>6, Kept
<1>7. CASE GetGuild(f)
  <2>1. /\ GotoFetch(f, "details")
        /\ UNCHANGED <<exists, wire, dm_channels, guild_channels, mapped, query_events, lost,
                       step, answer, stream, conversations, rooms>>
    BY <1>7 DEF GetGuild, backend
  <2>2. FetchInv' /\ SidebarInv'
    BY <1>4, <1>6, <2>1
  <2>3. QED
    BY <1>1, <1>2, <2>1, <2>2
<1>8. ASSUME NEW list, Listing(list, Rooms), In(list) \subseteq exists,
             Result(f, "answered", Visible(list)), ProcessGuildChannels(list),
             UNCHANGED <<exists, wire, dm_channels, guild_channels, query_events, lost, step,
                         answer, stream, conversations, rooms>>
      PROVE  DirectoryInv'
  <2>1. Listing(Visible(list), Rooms) /\ In(Visible(list)) \subseteq In(list)
    BY <1>8, VisibleListing
  <2>2. mapped' = mapped \cup In(Visible(list))
    BY <1>8 DEF ProcessGuildChannels
  <2>3. FetchInv' /\ SidebarInv'
    BY <1>5, <1>6, <1>8, <2>1, <2>2
  <2>4. QED
    BY <1>1, <1>2, <1>8, <2>1, <2>2, <2>3
<1>9. CASE HouseDetails(f)
  <2>1. UNCHANGED <<exists, wire, dm_channels, guild_channels, query_events, lost, step, answer,
                    stream, conversations, rooms>>
    BY <1>9 DEF HouseDetails
  <2>2. CASE guild_channels # Null
    <3>1. Result(f, "answered", Visible(guild_channels)) /\ ProcessGuildChannels(guild_channels)
      BY <1>9, <2>2 DEF HouseDetails
    <3>2. Listing(guild_channels, Rooms) /\ In(guild_channels) \subseteq exists
      BY <1>1, <2>2 DEF CacheInv, Listing
    <3>3. QED
      BY <1>8, <2>1, <3>1, <3>2
  <2>3. CASE guild_channels = Null
    <3>1. GotoFetch(f, "rest") /\ UNCHANGED mapped
      BY <1>9, <2>3 DEF HouseDetails
    <3>2. FetchInv' /\ SidebarInv'
      BY <1>4, <1>6, <2>1, <3>1
    <3>3. QED
      BY <1>1, <1>2, <2>1, <3>1, <3>2
  <2>4. QED
    BY <2>2, <2>3
<1>10. CASE RestReply(f)
  <2>1. PICK S \in {exists \cap Rooms, {}} : Result(f, "reply", Once(S))
    BY <1>10 DEF RestReply
  <2>2. UNCHANGED <<exists, wire, dm_channels, guild_channels, mapped, query_events, lost, step,
                    answer, stream, conversations, rooms>>
    BY <1>10 DEF RestReply, backend
  <2>3. S \subseteq Rooms /\ S \subseteq exists /\ S \subseteq Channels
    BY <2>1 DEF Channels
  <2>4. Listing(Once(S), S) /\ In(Once(S)) = S
    BY <2>3, OnceListing
  <2>5. Listing(Once(S), Rooms) /\ In(Once(S)) \subseteq exists
    BY <2>3, <2>4 DEF Listing
  <2>6. FetchInv' /\ SidebarInv'
    BY <1>5, <1>6, <2>1, <2>2, <2>5
  <2>7. QED
    BY <1>1, <1>2, <2>2, <2>6
<1>11. CASE RestDone(f)
  BY <1>1, <1>8, <1>11 DEF RestDone
<1>12. CASE GuildRoomsLoaded(f)
  <2>1. /\ fetch[f].pc = "answered" /\ rooms' = fetch[f].result /\ Result(f, "done", Once({}))
        /\ UNCHANGED <<exists, wire, dm_channels, guild_channels, mapped, query_events, lost,
                       step, answer, stream, conversations>>
    BY <1>12 DEF GuildRoomsLoaded, backend
  <2>2. Listing(rooms', Rooms) /\ Located(In(rooms))'
    BY <1>1, <2>1 DEF FetchInv, Located
  <2>3. SidebarInv'
    BY <1>1, <2>1, <2>2 DEF SidebarInv, Listing, Located
  <2>4. Listing(Once({}), {}) /\ In(Once({})) = {}
    BY OnceListing
  <2>5. Listing(Once({}), Rooms) /\ In(Once({})) \subseteq exists
    BY <2>4 DEF Listing
  <2>6. FetchInv'
    BY <1>5, <2>1, <2>5
  <2>7. QED
    BY <1>1, <1>2, <2>1, <2>3, <2>6
<1>13. QED
  BY <1>7, <1>9, <1>10, <1>11, <1>12 DEF FetchStep

(* Every step keeps the invariant.                                         *)
LEMMA DirectoryNext ==
    ASSUME DirectoryInv, [DNext]_dvars
    PROVE  DirectoryInv'
<1>1. CASE UNCHANGED dvars
  <2>1. UNCHANGED <<exists, wire, dm_channels, guild_channels, mapped, query_events, lost,
                    step, answer, stream, conversations, rooms, fetch>>
    BY <1>1 DEF dvars, backend, ui
  <2>2. ServerInv'
    BY <2>1 DEF DirectoryInv, ServerInv, WireKnown
  <2>3. QED
    BY <2>1, <2>2, Kept DEF DirectoryInv
<1>2. CASE DNext
  BY <1>2, GatewayInv, SidebarStep, FetchStepInv DEF DNext
<1>3. QED
  BY <1>1, <1>2

(* It holds of every behaviour of the directory.                           *)
THEOREM DirectoryInvariant == DSpec => []DirectoryInv
<1>1. DInit => DirectoryInv
  BY DirectoryInit
<1>2. DirectoryInv /\ [DNext]_dvars => DirectoryInv'
  BY DirectoryNext
<1>3. QED
  BY <1>1, <1>2, PTL DEF DSpec

(* Every variable keeps its type: no cache, queue or list ever has a       *)
(* channel that does not exist, and the queue of events is never longer    *)
(* than EVENT_QUEUE_CAP.                                                   *)
THEOREM DirectoryTypeOK == DSpec => []DTypeOK
<1>1. DirectoryInv => DTypeOK
  <2> SUFFICES ASSUME DirectoryInv PROVE DTypeOK
    OBVIOUS
  <2>1. /\ guild_channels = Null
           \/ (guild_channels \in Lists /\ In(guild_channels) \subseteq exists \cap Rooms)
        /\ rooms = Null \/ (rooms \in Lists /\ In(rooms) \subseteq exists \cap Rooms)
    BY DEF DirectoryInv, CacheInv, SidebarInv, Listing, Located
  <2>2. /\ answer \in Lists /\ In(answer) \subseteq exists \cap Dms
        /\ conversations \in Lists /\ In(conversations) \subseteq exists \cap Dms
    BY DEF DirectoryInv, StartInv, SidebarInv, Listing, Located
  <2>3. fetch \in [Fetches -> [pc : {"idle", "details", "rest", "reply", "answered", "done"},
                              result : Lists]]
    BY DEF DirectoryInv, FetchInv, Results
  <2>4. QED
    BY <2>1, <2>2, <2>3
    DEF DirectoryInv, ServerInv, CacheInv, QueueInv, StartInv, WireKnown, Listing, Located, DTypeOK
<1>2. QED
  BY <1>1, DirectoryInvariant, PTL

(* However Ready, CHANNEL_CREATE, REST answers and events reach the app, a *)
(* channel is in the sidebar once, although the cache is pushed to without *)
(* a look, and with its location if its type has one, for any channels and *)
(* fetches (events.rs:419-458, query.rs:232-279, 342-406).                 *)
THEOREM DirectoryListed == DSpec => []Listed
<1>1. DirectoryInv => Listed
  <2> SUFFICES ASSUME DirectoryInv PROVE Listed
    OBVIOUS
  <2>1. /\ \A c \in Channels : conversations[c] <= 1
        /\ In(conversations) \ Unplaced \subseteq mapped
    BY DEF DirectoryInv, SidebarInv, Listing, Located
  <2>2. rooms # Null =>
            (\A c \in Channels : rooms[c] <= 1) /\ In(rooms) \ Unplaced \subseteq mapped
            /\ In(rooms) \subseteq Rooms
    BY DEF DirectoryInv, SidebarInv, Listing, Located
  <2>3. Unplaced \cap Rooms = {}
    BY DirectoryAssumption DEF DirectoryAssumption
  <2>4. QED
    BY <2>1, <2>2, <2>3 DEF Listed
<1>2. QED
  BY <1>1, DirectoryInvariant, PTL
-----------------------------------------------------------------------------
(* The safety half of Announced.  An announced conversation leaves the     *)
(* queue only for the sidebar, or because the queue is full; and once the  *)
(* stream is there, nothing leaves the sidebar.                            *)
AnnouncedKept ==
    /\ \A d \in Dms : d \in ToSet(query_events) =>
          d \in ToSet(query_events') \cup In(conversations') \cup lost'
    /\ stream # "off" => In(conversations) \subseteq In(conversations')
    /\ lost \subseteq lost'

(* The stream starts after the answer of the start-up has been stored,     *)
(* which happens once.                                                     *)
StreamAfterStore == stream # "off" => step = "done"

(* Only CHANNEL_CREATE and the stream touch the queue; only the start-up   *)
(* and the stream touch the conversations.                                 *)
LEMMA AnnouncedStep ==
    ASSUME DirectoryInv, StreamAfterStore, [DNext]_dvars
    PROVE  AnnouncedKept /\ StreamAfterStore'
<1> DEFINE q == query_events
<1>1. q \in Seq(Channels) /\ Len(q) \in Nat
  BY DEF DirectoryInv, QueueInv
<1>2. ASSUME UNCHANGED <<query_events, conversations, lost>> PROVE AnnouncedKept
  BY <1>2 DEF AnnouncedKept
<1>3. CASE UNCHANGED dvars
  <2>1. UNCHANGED <<query_events, conversations, lost, stream, step>>
    BY <1>3 DEF dvars, backend, ui
  <2>2. QED
    BY <1>2, <2>1 DEF StreamAfterStore
<1>4. ASSUME NEW c \in Channels, Create(c) PROVE AnnouncedKept /\ StreamAfterStore'
  BY <1>2, <1>4 DEF Create, ui, StreamAfterStore
<1>5. CASE EnsureGateway \/ GatewayGone \/ Ready \/ Dropped
  <2>1. UNCHANGED <<query_events, conversations, lost, stream, step>>
    BY <1>5 DEF EnsureGateway, GatewayGone, Ready, Dropped, Received, ui
  <2>2. QED
    BY <1>2, <2>1 DEF StreamAfterStore
<1>6. CASE AskRooms \/ StartStream
  <2>1. UNCHANGED <<query_events, conversations, lost, stream>> /\ step # "done"
    BY <1>6 DEF AskRooms, StartStream
  <2>2. QED
    BY <1>2, <2>1 DEF StreamAfterStore
<1>7. CASE Store
  <2>1. step # "done" /\ step' = "done" /\ UNCHANGED <<query_events, lost>>
    BY <1>7 DEF Store, backend
  <2>2. QED
    BY <2>1 DEF StreamAfterStore, AnnouncedKept
<1>8. CASE PopNothing \/ PollForEvents \/ PollReturns \/ StreamEnds
  <2>1. UNCHANGED <<query_events, conversations, lost, step>> /\ stream # "off"
    BY <1>8 DEF PopNothing, PollForEvents, PollReturns, StreamEnds, backend
  <2>2. QED
    BY <1>2, <2>1 DEF StreamAfterStore
<1>9. ASSUME NEW f \in Fetches, GetGuild(f) \/ FetchStep(f)
      PROVE  AnnouncedKept /\ StreamAfterStore'
  <2>1. UNCHANGED <<query_events, conversations, lost, stream, step>>
    BY <1>9 DEF GetGuild, FetchStep, HouseDetails, RestReply, RestDone, GuildRoomsLoaded, backend
  <2>2. QED
    BY <1>2, <2>1 DEF StreamAfterStore
<1>10. CASE ProcessQueryEvent
  <2> DEFINE c == Head(q)
  <2>1. /\ q # <<>> /\ query_events' = Tail(q)
        /\ conversations' = IF c \in Dms THEN Added(conversations, c) ELSE conversations
        /\ UNCHANGED <<lost, stream, step>>
    BY <1>10 DEF ProcessQueryEvent
  <2>2. ToSet(q) = {c} \cup ToSet(Tail(q)) /\ c \in Channels
    BY <1>1, <2>1, TailQueue
  <2> HIDE DEF q, c
  <2>3. Listing(conversations, Dms)
    BY DEF DirectoryInv, SidebarInv
  <2>4. c \in Dms => In(conversations') = In(conversations) \cup {c}
    BY <2>1, <2>2, <2>3, AddedListing
  <2>5. In(conversations) \subseteq In(conversations')
    BY <2>1, <2>4
  <2>6. \A d \in Dms : d \in ToSet(q) => d \in ToSet(query_events') \cup In(conversations')
    BY <2>1, <2>2, <2>4
  <2>7. QED
    BY <2>1, <2>5, <2>6 DEF AnnouncedKept, StreamAfterStore, q
<1>11. CASE ChannelCreate
  <2>1. PICK c \in Head(wire).channels : ForcePush(c)
    BY <1>11 DEF ChannelCreate
  <2>2. UNCHANGED <<conversations, stream, step>>
    BY <1>11 DEF ChannelCreate, ui
  <2>3. c \in Channels
    <3>1. /\ wire # Null /\ wire # <<>> /\ exists \subseteq Channels /\ WireKnown(wire, exists)
          /\ Fresh(wire, Cached)
      BY <1>11 DEF ChannelCreate, Received, Next1, DirectoryInv, ServerInv, FreshInv
    <3>2. Head(wire).channels \subseteq exists
      BY <3>1, WireTail
    <3>3. QED
      BY <2>1, <3>1, <3>2
  <2>4. ASSUME NEW r \in Seq(Channels), query_events' = Append(r, c)
        PROVE  ToSet(r) \subseteq ToSet(query_events')
    BY <2>3, <2>4, AppendQueue
  <2>5. CASE Len(q) = QueueCap
    <3>1. query_events' = Append(Tail(q), c) /\ lost' = lost \cup {Head(q)}
      BY <2>1, <2>5 DEF ForcePush
    <3>2. q # <<>>
      BY <2>5, DirectoryAssumption DEF DirectoryAssumption
    <3> HIDE DEF q
    <3>3. ToSet(q) = {Head(q)} \cup ToSet(Tail(q)) /\ Tail(q) \in Seq(Channels)
      BY <1>1, <3>2, TailQueue
    <3>4. ToSet(Tail(q)) \subseteq ToSet(query_events')
      BY <2>4, <3>1, <3>3
    <3>5. QED
      BY <2>2, <3>1, <3>3, <3>4 DEF AnnouncedKept, StreamAfterStore, q
  <2>6. CASE Len(q) # QueueCap
    <3>1. query_events' = Append(q, c) /\ lost' = lost
      BY <2>1, <2>6 DEF ForcePush
    <3>2. ToSet(q) \subseteq ToSet(query_events')
      BY <1>1, <2>4, <3>1
    <3>3. QED
      BY <2>2, <3>1, <3>2 DEF AnnouncedKept, StreamAfterStore
  <2>7. QED
    BY <2>5, <2>6
<1>12. QED
  BY <1>3, <1>4, <1>5, <1>6, <1>7, <1>8, <1>9, <1>10, <1>11 DEF DNext

(* An announced conversation is in the queue, in the sidebar or was pushed *)
(* out of a full queue, however the start-up, REST and the stream overlap; *)
(* and nothing leaves the sidebar once the stream is there                 *)
(* (record_v2/events.rs:53-83, main.rs:190-215).  That the stream gets to  *)
(* it unless it ends is Announced.                                         *)
THEOREM DirectoryAnnouncedKept == DSpec => [][AnnouncedKept]_dvars
<1>1. DInit => StreamAfterStore
  BY DEF DInit, StreamAfterStore
<1>2. DirectoryInv /\ StreamAfterStore /\ [DNext]_dvars => AnnouncedKept /\ StreamAfterStore'
  BY AnnouncedStep
<1>3. QED
  BY <1>1, <1>2, DirectoryInvariant, PTL DEF DSpec
=============================================================================
