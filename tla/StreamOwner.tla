----------------------------- MODULE StreamOwner -----------------------------
(***************************************************************************)
(* How the Discord backend notices that the app dropped it                 *)
(* (interface/discord/src/lib.rs, crate/messenger_interface/src/stream.rs).*)
(*                                                                         *)
(* Every event stream holds a Weak to InnerDiscord.  A poll upgrades it    *)
(* for its own duration, and the next() future it drives holds an Arc of   *)
(* its own until it resolves, parked polls included; so the streams keep   *)
(* the backend alive by themselves.  next() therefore compares the strong  *)
(* count with the number of next() futures and kills the backend when      *)
(* nobody else seems to be left.  The count and the Arc are taken and      *)
(* released in separate steps, and the comparison reads first the one and  *)
(* then the other.                                                         *)
(*                                                                         *)
(* OneTask says whether one task owns all streams, so that a poll never    *)
(* overlaps the poll or the drop of another.  What makes a parked future   *)
(* ready (a gateway event, the heartbeat timer, a notification) is         *)
(* GatewayPolling's.                                                       *)
(***************************************************************************)
EXTENDS Integers, FiniteSets

CONSTANTS Streams,     \* event streams
          MaxOwners,   \* bound: handles of the app at one time
          OneTask      \* all streams belong to one task

ASSUME StreamOwnerAssumption ==
    /\ IsFiniteSet(Streams)
    /\ MaxOwners \in Nat \ {0}
    /\ OneTask \in BOOLEAN

VARIABLES
    owners,         \* Arcs held outside the streams
    activeStreams,  \* InnerDiscord::active_streams
    killed,         \* InnerDiscord::killed
    spc,            \* where each stream is in poll_next and next
    active          \* the value of active_streams owner_dropped has loaded

vars == <<owners, activeStreams, killed, spc, active>>

(* none       not listening yet                                            *)
(* idle       no poll, no future                                           *)
(* upgraded   poll_next holds an Arc, no future yet                        *)
(* created    the future holds an Arc too, and has not run                 *)
(* looping    next() is registered and at the top of its loop              *)
(* checking   it has loaded active_streams                                 *)
(* killing    owner_dropped returned true                                  *)
(* polling    it has found nothing wrong and runs one pass                 *)
(* parked     the poll returned Pending, the future is kept                *)
(* yielding, ending     next() resolves to an event, or to None            *)
(* yielded, finished    its registration is gone, its Arc is not           *)
(* returning, returned  its Arc is gone, the Arc of poll_next is not       *)
(* ended      the consumer dropped the stream                              *)
StreamPC == {"none", "idle", "upgraded", "created", "looping", "checking",
             "killing", "polling", "parked", "yielding", "ending", "yielded",
             "finished", "returning", "returned", "ended"}

Registered == {"looping", "checking", "killing", "polling", "parked", "yielding", "ending"}
InFuture == Registered \cup {"created", "yielded", "finished"}
Polled == StreamPC \ {"none", "idle", "parked", "ended"}

At(pcs) == {s \in Streams : spc[s] \in pcs}

(* Arc::strong_count: the app's handles, the futures, the polls.           *)
StrongCount == owners + Cardinality(At(InFuture)) + Cardinality(At(Polled))

Init ==
    /\ owners = 1
    /\ activeStreams = 0
    /\ killed = FALSE
    /\ spc = [s \in Streams |-> "none"]
    /\ active = [s \in Streams |-> 0]

Goto(s, from, to) == spc[s] = from /\ spc' = [spc EXCEPT ![s] = to]

MayPoll == OneTask => At(Polled) = {}

-----------------------------------------------------------------------------
(* The app clones and drops its handles; listen() takes one for its call.  *)
Clone ==
    /\ owners \in 1 .. MaxOwners - 1
    /\ owners' = owners + 1
    /\ UNCHANGED <<activeStreams, killed, spc, active>>

DropOwner ==
    /\ owners > 0
    /\ owners' = owners - 1
    /\ UNCHANGED <<activeStreams, killed, spc, active>>

Listen(s) ==
    /\ owners > 0
    /\ ~killed
    /\ Goto(s, "none", "idle")
    /\ UNCHANGED <<owners, activeStreams, killed, active>>

(* Mutant: a stream without a future gives up a registration as well.      *)
DropStreamTwice(s) ==
    /\ MayPoll
    /\ spc[s] \in {"idle", "parked"}
    /\ activeStreams' = activeStreams - 1
    /\ spc' = [spc EXCEPT ![s] = "ended"]
    /\ UNCHANGED <<owners, killed, active>>

(* The consumer drops a stream between two polls, and with it the future.  *)
DropStream(s) ==
    /\ MayPoll
    /\ spc[s] \in {"idle", "parked"}
    /\ activeStreams' = IF spc[s] = "parked" THEN activeStreams - 1 ELSE activeStreams
    /\ spc' = [spc EXCEPT ![s] = "ended"]
    /\ UNCHANGED <<owners, killed, active>>

-----------------------------------------------------------------------------
(* poll_next: the upgrade; a stream whose backend is gone is over.         *)
Upgrade(s) ==
    /\ MayPoll
    /\ \/ /\ StrongCount > 0
          /\ Goto(s, "idle", "upgraded")
       \/ /\ StrongCount = 0
          /\ Goto(s, "idle", "ended")
    /\ UNCHANGED <<owners, activeStreams, killed, active>>

CreateFuture(s) ==
    /\ Goto(s, "upgraded", "created")
    /\ UNCHANGED <<owners, activeStreams, killed, active>>

(* StreamPollGuard::new, the first statement of next().                    *)
Register(s) ==
    /\ Goto(s, "created", "looping")
    /\ activeStreams' = activeStreams + 1
    /\ UNCHANGED <<owners, killed, active>>

(* A parked future is polled again, and its pass over: it loops.           *)
Resume(s) ==
    /\ MayPoll
    /\ Goto(s, "parked", "looping")
    /\ UNCHANGED <<owners, activeStreams, killed, active>>

-----------------------------------------------------------------------------
(* The loop of next(): the flag, then owner_dropped's two loads.           *)
SeeKilled(s) ==
    /\ killed
    /\ Goto(s, "looping", "ending")
    /\ UNCHANGED <<owners, activeStreams, killed, active>>

LoadActive(s) ==
    /\ ~killed
    /\ Goto(s, "looping", "checking")
    /\ active' = [active EXCEPT ![s] = activeStreams]
    /\ UNCHANGED <<owners, activeStreams, killed>>

(* Mutants: the poll's own upgrade is forgotten, or counted twice.         *)
OwnerDroppedUncounted(s) == StrongCount = active[s]
OwnerDroppedLoose(s) == StrongCount <= active[s] + 2
OwnerDropped(s) == StrongCount = active[s] + 1

CheckOwner(s) ==
    /\ \/ OwnerDropped(s) /\ Goto(s, "checking", "killing")
       \/ ~OwnerDropped(s) /\ Goto(s, "checking", "polling")
    /\ active' = [active EXCEPT ![s] = 0]
    /\ UNCHANGED <<owners, activeStreams, killed>>

Kill(s) ==
    /\ Goto(s, "killing", "ending")
    /\ killed' = TRUE
    /\ UNCHANGED <<owners, activeStreams, active>>

(* One pass: an event of the stream's own queue, or the end of the         *)
(* gateway, or another event and another round, or the future parks and    *)
(* poll_next gives its Arc back.                                           *)
Pass(s) ==
    /\ \E to \in {"yielding", "ending", "looping", "parked"} : Goto(s, "polling", to)
    /\ UNCHANGED <<owners, activeStreams, killed, active>>

(* Mutant: the guard is forgotten.                                         *)
UnregisterForgotten(s) ==
    /\ \/ Goto(s, "yielding", "yielded")
       \/ Goto(s, "ending", "finished")
    /\ UNCHANGED <<owners, activeStreams, killed, active>>

(* next() resolves: the guard is dropped, then its Arc, then the Arc of    *)
(* poll_next.                                                              *)
Unregister(s) ==
    /\ \/ Goto(s, "yielding", "yielded")
       \/ Goto(s, "ending", "finished")
    /\ activeStreams' = activeStreams - 1
    /\ UNCHANGED <<owners, killed, active>>

ReleaseFuture(s) ==
    /\ \/ Goto(s, "yielded", "returning")
       \/ Goto(s, "finished", "returned")
    /\ UNCHANGED <<owners, activeStreams, killed, active>>

ReleaseUpgrade(s) ==
    /\ \/ Goto(s, "returning", "idle")
       \/ Goto(s, "returned", "ended")
    /\ UNCHANGED <<owners, activeStreams, killed, active>>

-----------------------------------------------------------------------------
PollNext(s) ==
    \/ CreateFuture(s) \/ Register(s) \/ SeeKilled(s) \/ LoadActive(s)
    \/ CheckOwner(s) \/ Kill(s) \/ Pass(s)
    \/ Unregister(s) \/ ReleaseFuture(s) \/ ReleaseUpgrade(s)

Next ==
    \/ Clone \/ DropOwner
    \/ \E s \in Streams : \/ Listen(s) \/ DropStream(s)
                          \/ Upgrade(s) \/ Resume(s) \/ PollNext(s)

(* A poll that runs goes on, its passes included; the executor polls every *)
(* stream in turn; a parked one is woken, at the latest by the heartbeat   *)
(* timer that ends every pass.                                             *)
Fairness ==
    \A s \in Streams : /\ WF_vars(PollNext(s))
                       /\ SF_vars(Upgrade(s))
                       /\ SF_vars(Resume(s))

Spec == Init /\ [][Next]_vars
FairSpec == Spec /\ Fairness

-----------------------------------------------------------------------------
TypeOK ==
    /\ owners \in 0 .. MaxOwners
    /\ activeStreams \in 0 .. Cardinality(Streams)
    /\ killed \in BOOLEAN
    /\ spc \in [Streams -> StreamPC]
    /\ active \in [Streams -> 0 .. Cardinality(Streams)]

(* "active_streams never exceeds the number of Arcs held by in-flight      *)
(* next() futures" (lib.rs:283-288), whatever is created, parked, dropped  *)
(* or resolved in between.                                                 *)
NeverOverstated == activeStreams <= Cardinality(At(InFuture))

(* "a race can only delay detection to a later poll, never fire it while   *)
(* an external owner exists" (lib.rs:369-372).                             *)
KilledOnlyUnowned == killed => owners = 0

(* When the app has dropped its last handle, every stream it listened to   *)
(* ends: none stays parked for ever on the Arc it holds itself             *)
(* (lib.rs:362-390, stream.rs:30-40).                                      *)
DroppedEnds == owners = 0 ~> \A s \in Streams : spc[s] \in {"none", "ended"}
=============================================================================
