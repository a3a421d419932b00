--------------------------- MODULE GatewayPolling ---------------------------
(***************************************************************************)
(* Who pumps the gateway (interface/discord/src/gateways/polling.rs,       *)
(* lazy_arc.rs, lib.rs, query.rs).                                         *)
(*                                                                         *)
(* There is no task of the connection's own: whoever wants an event, an    *)
(* event stream or a query waiting for a cache, runs poll_for_events.  The *)
(* first to get the receiver lock runs one pass; the others park on        *)
(* `pulled_notification` until some pass ends.  Everybody works on the     *)
(* connection he has loaded, while the cell `gateway` is cleared by passes *)
(* and filled again by listen().                                           *)
(*                                                                         *)
(* A pass ends when an event has been handled, or a heartbeat sent, or     *)
(* either fails, or its future is dropped.  Its locals are dropped in      *)
(* reverse order, so the notification comes before the unlock.             *)
(***************************************************************************)
EXTENDS Integers, FiniteSets

CONSTANTS Pollers,     \* streams and queries that pump events
          Listeners,   \* calls of listen() that want a connection
          Conns,       \* bound: connections made in one run
          None         \* no connection; no holder

ASSUME GatewayPollingAssumption ==
    /\ IsFiniteSet(Pollers) /\ IsFiniteSet(Listeners) /\ IsFiniteSet(Conns)
    /\ None \notin Conns \cup Pollers \cup Listeners

VARIABLES
    gateway,    \* InnerDiscord::gateway
    fresh,      \* connections not made yet
    closed,     \* connections the server has closed or asked to close
    holder,     \* who holds the receiver lock of each connection
    ppc,        \* where each poller is
    conn,       \* the connection it has loaded
    lpc,        \* where each listen() is in get_or_try_init
    init,       \* who holds the init lock of the LazyArc
    killed      \* InnerDiscord::killed

vars == <<gateway, fresh, closed, holder, ppc, conn, lpc, init, killed>>

(* looping   between two passes                                            *)
(* loaded    has loaded a connection and yields                            *)
(* refused   try_lock failed, notified() is not registered yet             *)
(* parked    waits for the notification                                    *)
(* pumping   holds the lock and waits for an event or the timer            *)
(* handling  runs the handler of an event, awaits included                 *)
(* leaving, over      the pass ends; the loop goes on, or is left          *)
(* notified, done     the waiters are woken, the lock is still held        *)
(* ended     the stream is over, or the query has given up polling         *)
PollerPC == {"looping", "loaded", "refused", "parked", "pumping", "handling",
             "leaving", "over", "notified", "done", "ended"}
Holding == {"pumping", "handling", "leaving", "over", "notified", "done"}

Init ==
    /\ gateway = None
    /\ fresh = Conns
    /\ closed = {}
    /\ holder = [c \in Conns |-> None]
    /\ ppc = [p \in Pollers |-> "ended"]
    /\ conn = [p \in Pollers |-> None]
    /\ lpc = [l \in Listeners |-> "idle"]
    /\ init = None
    /\ killed = FALSE

-----------------------------------------------------------------------------
(* ensure_gateway: an error once killed, get_or_try_init otherwise.  The   *)
(* flag is not looked at again.                                            *)
LoadFull(l) ==
    /\ lpc[l] = "idle"
    /\ ~killed
    /\ lpc' = [lpc EXCEPT ![l] = IF gateway = None THEN "locking" ELSE "listening"]
    /\ UNCHANGED <<gateway, fresh, closed, holder, ppc, conn, init, killed>>

(* Mutant: no second look under the init lock.                             *)
LockInitBlindly(l) ==
    /\ lpc[l] = "locking"
    /\ init = None
    /\ lpc' = [lpc EXCEPT ![l] = "connecting"]
    /\ init' = l
    /\ UNCHANGED <<gateway, fresh, closed, holder, ppc, conn, killed>>

(* Under the init lock the cell is looked at again.                        *)
LockInit(l) ==
    /\ lpc[l] = "locking"
    /\ init = None
    /\ \/ /\ gateway = None
          /\ lpc' = [lpc EXCEPT ![l] = "connecting"]
          /\ init' = l
       \/ /\ gateway # None
          /\ lpc' = [lpc EXCEPT ![l] = "listening"]
          /\ UNCHANGED init
    /\ UNCHANGED <<gateway, fresh, closed, holder, ppc, conn, killed>>

(* Gateway::<General>::new: connect, Hello, token, Identify.               *)
Connect(l) ==
    /\ lpc[l] = "connecting"
    /\ \E c \in fresh :
          /\ gateway' = c
          /\ fresh' = fresh \ {c}
    /\ lpc' = [lpc EXCEPT ![l] = "listening"]
    /\ init' = None
    /\ UNCHANGED <<closed, holder, ppc, conn, killed>>

ConnectFails(l) ==
    /\ lpc[l] = "connecting"
    /\ lpc' = [lpc EXCEPT ![l] = "idle"]
    /\ init' = None
    /\ UNCHANGED <<gateway, fresh, closed, holder, ppc, conn, killed>>

(* listen() returns a stream, or poll_gateway_until begins to poll.        *)
StartPolling(l, p) ==
    /\ lpc[l] = "listening"
    /\ ppc[p] = "ended"
    /\ lpc' = [lpc EXCEPT ![l] = "idle"]
    /\ ppc' = [ppc EXCEPT ![p] = "looping"]
    /\ UNCHANGED <<gateway, fresh, closed, holder, conn, init, killed>>

-----------------------------------------------------------------------------
(* The server closes a connection, or sends Reconnect or InvalidSession    *)
(* and closes it later.                                                    *)
ServerCloses(c) ==
    /\ c \notin fresh \cup closed
    /\ closed' = closed \cup {c}
    /\ UNCHANGED <<gateway, fresh, holder, ppc, conn, lpc, init, killed>>

-----------------------------------------------------------------------------
(* Mutant: the pass does not look whether there is a connection.           *)
LoadUnchecked(p) ==
    /\ ppc[p] = "looping"
    /\ ppc' = [ppc EXCEPT ![p] = "loaded"]
    /\ conn' = [conn EXCEPT ![p] = gateway]
    /\ UNCHANGED <<gateway, fresh, closed, holder, lpc, init, killed>>

(* poll_for_events: load the cell; once killed, or without a connection,   *)
(* the stream ends.                                                        *)
Load(p) ==
    /\ ppc[p] = "looping"
    /\ \/ /\ killed \/ gateway = None
          /\ ppc' = [ppc EXCEPT ![p] = "ended"]
          /\ conn' = [conn EXCEPT ![p] = None]
       \/ /\ ~killed /\ gateway # None
          /\ ppc' = [ppc EXCEPT ![p] = "loaded"]
          /\ conn' = [conn EXCEPT ![p] = gateway]
    /\ UNCHANGED <<gateway, fresh, closed, holder, lpc, init, killed>>

TryLock(p) ==
    /\ ppc[p] = "loaded"
    /\ \/ /\ holder[conn[p]] = None
          /\ holder' = [holder EXCEPT ![conn[p]] = p]
          /\ ppc' = [ppc EXCEPT ![p] = "pumping"]
       \/ /\ holder[conn[p]] # None
          /\ ppc' = [ppc EXCEPT ![p] = "refused"]
          /\ UNCHANGED holder
    /\ UNCHANGED <<gateway, fresh, closed, conn, lpc, init, killed>>

(* notified().await: the waiter exists only from its first poll on.        *)
Park(p) ==
    /\ ppc[p] = "refused"
    /\ ppc' = [ppc EXCEPT ![p] = "parked"]
    /\ UNCHANGED <<gateway, fresh, closed, holder, conn, lpc, init, killed>>

(* select!: an event, the end of the connection, or the heartbeat.         *)
ReceiveEvent(p) ==
    /\ ppc[p] = "pumping"
    /\ conn[p] \notin closed
    /\ ppc' = [ppc EXCEPT ![p] = "handling"]
    /\ UNCHANGED <<gateway, fresh, closed, holder, conn, lpc, init, killed>>

HandleEvent(p) ==
    /\ ppc[p] = "handling"
    /\ ppc' = [ppc EXCEPT ![p] = "leaving"]
    /\ UNCHANGED <<gateway, fresh, closed, holder, conn, lpc, init, killed>>

(* Reconnect and InvalidSession: exec clears the cell.                     *)
Reconnect(p) ==
    /\ ppc[p] = "pumping"
    /\ conn[p] \in closed
    /\ gateway' = None
    /\ ppc' = [ppc EXCEPT ![p] = "leaving"]
    /\ UNCHANGED <<fresh, closed, holder, conn, lpc, init, killed>>

Beat(p) ==
    /\ ppc[p] = "pumping"
    /\ ppc' = [ppc EXCEPT ![p] = "leaving"]
    /\ UNCHANGED <<gateway, fresh, closed, holder, conn, lpc, init, killed>>

(* The socket has ended, or the heartbeat cannot be sent.                  *)
TearDown(p) ==
    /\ ppc[p] = "pumping"
    /\ conn[p] \in closed
    /\ gateway' = None
    /\ ppc' = [ppc EXCEPT ![p] = "over"]
    /\ UNCHANGED <<fresh, closed, holder, conn, lpc, init, killed>>

(* The consumer drops the poll: a stream that is dropped, or a query whose *)
(* 500 ms are over.  The query may have attempts left.                     *)
Cancel(p) ==
    /\ ppc[p] \in {"pumping", "handling"}
    /\ \E next \in {"leaving", "over"} : ppc' = [ppc EXCEPT ![p] = next]
    /\ UNCHANGED <<gateway, fresh, closed, holder, conn, lpc, init, killed>>

(* The same where the poll holds no lock and has no guard; a query that    *)
(* waited its 500 ms out tries again.                                      *)
GiveUp(p) ==
    /\ \/ /\ ppc[p] \in {"loaded", "parked"}
          /\ ppc' = [ppc EXCEPT ![p] = "ended"]
       \/ /\ ppc[p] = "parked"
          /\ ppc' = [ppc EXCEPT ![p] = "looping"]
    /\ conn' = [conn EXCEPT ![p] = None]
    /\ UNCHANGED <<gateway, fresh, closed, holder, lpc, init, killed>>

(* Mutant: a pass ends without a notification.                             *)
NotifyNobody(p) ==
    /\ ppc[p] \in {"leaving", "over"}
    /\ ppc' = [ppc EXCEPT ![p] = IF @ = "leaving" THEN "notified" ELSE "done"]
    /\ UNCHANGED <<gateway, fresh, closed, holder, conn, lpc, init, killed>>

(* NotifyOnDrop: everyone parked goes on, the lock is still held.          *)
Notify(p) ==
    /\ ppc[p] \in {"leaving", "over"}
    /\ ppc' = [q \in Pollers |->
                  IF q = p THEN (IF ppc[p] = "leaving" THEN "notified" ELSE "done")
                  ELSE IF ppc[q] = "parked" THEN "looping" ELSE ppc[q]]
    /\ UNCHANGED <<gateway, fresh, closed, holder, conn, lpc, init, killed>>

(* The receiver guard is dropped; the loop runs poll_for_events again, or  *)
(* next() returns None.                                                    *)
Unlock(p) ==
    /\ ppc[p] \in {"notified", "done"}
    /\ holder' = [holder EXCEPT ![conn[p]] = None]
    /\ ppc' = [ppc EXCEPT ![p] = IF @ = "notified" THEN "looping" ELSE "ended"]
    /\ conn' = [conn EXCEPT ![p] = None]
    /\ UNCHANGED <<gateway, fresh, closed, lpc, init, killed>>

(* kill(), when a stream takes the app to be gone (StreamOwner): clear the *)
(* cell and wake everyone parked.                                          *)
Kill ==
    /\ ~killed
    /\ killed' = TRUE
    /\ gateway' = None
    /\ ppc' = [q \in Pollers |-> IF ppc[q] = "parked" THEN "looping" ELSE ppc[q]]
    /\ UNCHANGED <<fresh, closed, holder, conn, lpc, init>>

-----------------------------------------------------------------------------
Poll(p) == \/ Load(p) \/ TryLock(p) \/ Park(p)
           \/ ReceiveEvent(p) \/ HandleEvent(p) \/ Reconnect(p) \/ Beat(p)
           \/ TearDown(p) \/ Notify(p) \/ Unlock(p)

Listen(l) == LoadFull(l) \/ LockInit(l) \/ Connect(l) \/ ConnectFails(l)

Next ==
    \/ \E l \in Listeners : \/ Listen(l)
                            \/ \E p \in Pollers : StartPolling(l, p)
    \/ \E c \in Conns : ServerCloses(c)
    \/ \E p \in Pollers : Poll(p) \/ Cancel(p) \/ GiveUp(p)
    \/ Kill

Spec == Init /\ [][Next]_vars

(* A poll that can go on does: the executor runs it, the heartbeat timer   *)
(* ends its wait, and handlers return.                                     *)
FairSpec == Spec /\ \A p \in Pollers : WF_vars(Poll(p))

-----------------------------------------------------------------------------
TypeOK ==
    /\ gateway \in Conns \cup {None}
    /\ fresh \subseteq Conns
    /\ closed \subseteq Conns \ fresh
    /\ holder \in [Conns -> Pollers \cup {None}]
    /\ ppc \in [Pollers -> PollerPC]
    /\ conn \in [Pollers -> Conns \cup {None}]
    /\ \A p \in Pollers : conn[p] = None => ppc[p] \in {"looping", "ended"}
    /\ lpc \in [Listeners -> {"idle", "locking", "connecting", "listening"}]
    /\ init \in Listeners \cup {None}
    /\ killed \in BOOLEAN

(* One pass at a time on a connection, and the lock is held by exactly the *)
(* poller that runs it, through cancellation and teardown                  *)
(* (polling.rs:86-98).                                                     *)
LockHeldByPass ==
    \A c \in Conns : \A p \in Pollers :
        holder[c] = p <=> ppc[p] \in Holding /\ conn[p] = c

(* "so concurrent callers don't each build a T and race the final store"   *)
(* (lazy_arc.rs:6-8): a connection in the cell is never replaced by        *)
(* another one, however many listeners start together.                     *)
NeverReplaced == [][gateway # None => gateway' \in {gateway, None}]_vars

(* As long as one poller goes on pumping, nobody else waits for ever: a    *)
(* parked poller goes on, unless the pumping one parks or ends as well     *)
(* (polling.rs:14-24, 86-97).                                              *)
Pumping(p) == ppc[p] \notin {"parked", "ended"}
WokenByPump ==
    \A p, q \in Pollers : ppc[p] = "parked" ~> ppc[p] # "parked" \/ ~Pumping(q)
=============================================================================
