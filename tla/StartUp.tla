------------------------------ MODULE StartUp ------------------------------
(***************************************************************************)
(* Booting, logging in and starting up with Discord messengers             *)
(* (record_v2/src/main.rs, auth.rs, pages/login.rs; interface/discord/src/ *)
(* lib.rs, rest_api.rs, query.rs).                                         *)
(*                                                                         *)
(* The app loads its messengers from LoginInfo or asks for one, verifies   *)
(* that one with client_user, and then asks every messenger four questions *)
(* at once.  Each question is answered from the cache that the gateway's   *)
(* Ready fills, else by REST, else by polling the gateway until the cache  *)
(* is there.  Passwords are exchanged for a token on the way.              *)
(*                                                                         *)
(* LoginInfo is cut to nothing and written again at every start, by writes *)
(* of a name, a colon, a token and a newline that nothing buffers.  The    *)
(* app can be killed at any time, also between two of them: a name without *)
(* a colon is skipped by the next load, a line without its newline is a    *)
(* whole line, and an empty or cut token becomes a messenger that the      *)
(* server refuses.                                                         *)
(***************************************************************************)
EXTENDS Integers, FiniteSets

CONSTANTS Messengers,    \* backends, each built once: by load or by a submit
          Saved,         \* those in LoginInfo at first
          Nobody,
          Queries,       \* client_user, contacts, rooms, houses
          ClientUser,    \* the query that verifies a login
          Attempts,      \* GATEWAY_CACHE_POLL_ATTEMPTS
          MaxCrashes     \* bound: times the app is killed

ASSUME StartUpAssumption ==
    /\ Saved \subseteq Messengers /\ Nobody \notin Messengers
    /\ ClientUser \in Queries
    /\ Attempts \in Nat \ {0} /\ MaxCrashes \in Nat

VARIABLES
    screen,      \* App::screen
    button,      \* Login::button_state
    registry,    \* MessengerRegistry::entries
    file,        \* LoginInfo: those whose line is whole
    cut,         \* LoginInfo: those whose line has an empty or cut token
    unsaved,     \* MessengersGenerator::save: entries it has yet to write
    broken,      \* those registered from a cut line
    lost,        \* history: logins that LoginInfo has lost
    verifying,   \* the messenger whose login is being verified
    step,        \* how far AppMessage::StartUp has come
    built,       \* messengers built so far
    token,       \* those whose token is known
    failed,      \* those with a cached login error
    exchanges,   \* history: login exchanges begun by each
    gateway,     \* those with a gateway connection
    cache,       \* what Ready has cached, of each
    query,       \* each question to each messenger
    data,        \* MessengerData: the questions answered
    streams,     \* messengers whose events are streamed
    accepted,    \* history: those that answered, and those first saved
    crashes      \* bound: crashes so far

backend == <<token, failed, exchanges, gateway, cache>>
app == <<screen, button, registry, verifying, step, built, data, streams>>
disk == <<file, cut, unsaved, broken, lost>>
vars == <<app, disk, backend, query, accepted, crashes>>

(* token     in ensure_token; exchange: in login_with_credentials, with    *)
(*           token_lock; both go on with `next`                            *)
(* rest      the request is under way                                      *)
(* open      poll_gateway_until: ensure_gateway                            *)
(* identify  Hello is there, the token is needed again                     *)
(* poll      in its loop                                                   *)
PC == {"idle", "cache", "token", "exchange", "rest", "open", "identify", "poll", "ok", "err"}
Question == [pc : PC, next : {"rest", "identify"}, tries : 0 .. Attempts]
Idle == [pc |-> "idle", next |-> "rest", tries |-> 0]
Fetching == [Idle EXCEPT !.pc = "cache"]
Ended == {"ok", "err"}

Booted(lines, page) ==
    /\ screen' = page /\ button' = TRUE /\ registry' = lines /\ verifying' = Nobody
    /\ step' = IF page = "loading" THEN "begin" ELSE "none"
    /\ built' = built \cup lines
    /\ token' = lines /\ failed' = {} /\ gateway' = {}
    /\ exchanges' = [m \in Messengers |-> 0]
    /\ cache' = [m \in Messengers |-> {}]
    /\ query' = [m \in Messengers |-> [q \in Queries |-> Idle]]
    /\ data' = [m \in Messengers |-> {}] /\ streams' = {}

Init ==
    /\ file = Saved /\ cut = {} /\ unsaved = {} /\ broken = {} /\ lost = {}
    /\ registry = {} /\ screen = "off" /\ button = TRUE
    /\ verifying = Nobody /\ step = "none" /\ built = {}
    /\ token = {} /\ failed = {} /\ gateway = {}
    /\ exchanges = [m \in Messengers |-> 0]
    /\ cache = [m \in Messengers |-> {}]
    /\ query = [m \in Messengers |-> [q \in Queries |-> Idle]]
    /\ data = [m \in Messengers |-> {}] /\ streams = {}
    /\ accepted = Saved /\ crashes = 0

-----------------------------------------------------------------------------
(* App::boot: every line becomes a messenger with its token, whatever is   *)
(* left of it.  A line that cannot be read ends the load with an error,    *)
(* the messengers before it stay registered.                               *)
Boot ==
    /\ screen = "off"
    /\ \E lines \in SUBSET (file \cup cut) :
          /\ Booted(lines, IF lines # {} /\ lines = file \cup cut THEN "loading" ELSE "login")
          /\ broken' = cut \cap lines
    /\ UNCHANGED <<file, cut, unsaved, lost, accepted, crashes>>

(* Message::SubmitToken: a messenger with a token, or with a password that *)
(* is yet to be exchanged.                                                 *)
Submit(m) ==
    /\ screen = "login" /\ button /\ m \notin built
    /\ button' = FALSE /\ verifying' = m /\ built' = built \cup {m}
    /\ token' \in {token, token \cup {m}}
    /\ query' = [query EXCEPT ![m][ClientUser] = Fetching]
    /\ UNCHANGED <<screen, registry, step, data, streams, disk, failed, exchanges, gateway,
                   cache, accepted, crashes>>

(* Mutant: the messenger is added whatever client_user said.               *)
VerifiedAnyway ==
    /\ verifying # Nobody /\ query[verifying][ClientUser].pc \in Ended
    /\ registry' = registry \cup {verifying} /\ verifying' = Nobody
    /\ step' = "begin"
    /\ UNCHANGED <<screen, button, built, data, streams, disk, backend, query, accepted, crashes>>

(* AppMessage::Login: the messenger is added once client_user has answered *)
Verified ==
    /\ verifying # Nobody /\ query[verifying][ClientUser].pc = "ok"
    /\ registry' = registry \cup {verifying} /\ verifying' = Nobody
    /\ step' = "begin"
    /\ UNCHANGED <<screen, button, built, data, streams, disk, backend, query, accepted, crashes>>

(* and Message::LoginFailed lets the user try again with another one.      *)
LoginFailed ==
    /\ verifying # Nobody /\ query[verifying][ClientUser].pc = "err"
    /\ button' = TRUE /\ verifying' = Nobody
    /\ UNCHANGED <<screen, registry, step, built, data, streams, disk, backend, query,
                   accepted, crashes>>

-----------------------------------------------------------------------------
(* AppMessage::StartUp: all questions to all messengers at once.           *)
Begin ==
    /\ step = "begin"
    /\ step' = "fetch"
    /\ query' = [m \in Messengers |->
                    [q \in Queries |-> IF m \in registry THEN Fetching ELSE Idle]]
    /\ UNCHANGED <<screen, button, registry, verifying, built, data, streams, disk, backend,
                   accepted, crashes>>

(* Every messenger has answered and opened its streams, or failed to open  *)
(* the gateway for them.                                                   *)
Navigate ==
    /\ step = "fetch"
    /\ \A m \in registry, q \in Queries : query[m][q].pc \in Ended
    /\ screen' = "messenger" /\ step' = "save"
    /\ \E opened \in SUBSET (registry \cap token) :
          /\ registry \cap gateway \subseteq opened
          /\ streams' = opened
          /\ gateway' = gateway \cup opened
    /\ UNCHANGED <<button, registry, verifying, built, data, disk, token, failed, exchanges,
                   cache, query, accepted, crashes>>

(* AppMessage::SaveCredentials: LoginInfo is cut to nothing.  What a load  *)
(* did not get to is lost with it.                                         *)
SaveCredentials ==
    /\ step = "save"
    /\ step' = "write"
    /\ file' = {} /\ cut' = {} /\ unsaved' = registry
    /\ lost' = lost \cup (file \ registry)
    /\ UNCHANGED <<screen, button, registry, verifying, built, data, streams, broken, backend,
                   query, accepted, crashes>>

(* The name and the colon of an entry                                      *)
WriteName(m) ==
    /\ step = "write" /\ m \in unsaved /\ cut \cap unsaved = {}
    /\ cut' = cut \cup {m}
    /\ UNCHANGED <<app, file, unsaved, broken, lost, backend, query, accepted, crashes>>

(* Mutant: who has not answered in this run is not written.                *)
WriteAnswered(m) ==
    /\ m \in unsaved \cap cut
    /\ unsaved' = unsaved \ {m}
    /\ IF \A q \in Queries : query[m][q].pc = "err"
         THEN cut' = cut \ {m} /\ UNCHANGED file
         ELSE file' = file \cup {m} /\ cut' = cut \ {m}
    /\ UNCHANGED <<app, broken, lost, backend, query, accepted, crashes>>

(* and its token, as it was read or as the user gave it.                   *)
WriteToken(m) ==
    /\ m \in unsaved \cap cut
    /\ unsaved' = unsaved \ {m}
    /\ IF m \in broken
         THEN UNCHANGED <<file, cut>>
         ELSE file' = file \cup {m} /\ cut' = cut \ {m}
    /\ UNCHANGED <<app, broken, lost, backend, query, accepted, crashes>>

(* modify_data: what failed is empty.                                      *)
ModifyData ==
    /\ step = "write" /\ unsaved = {}
    /\ data' = [m \in Messengers |-> {q \in Queries : query[m][q].pc = "ok"}]
    /\ query' = [m \in Messengers |-> [q \in Queries |-> Idle]]
    /\ step' = "done"
    /\ UNCHANGED <<screen, button, registry, verifying, built, streams, disk, backend,
                   accepted, crashes>>

(* What a kill takes with it: the lines a save has yet to finish, or what  *)
(* LoginInfo has not had before.                                           *)
AtRisk ==
    CASE step = "write" -> unsaved
      [] step = "done" -> {}
      [] OTHER -> (registry \cup ({verifying} \ {Nobody})) \ file

(* The app is killed; LoginInfo stays as it is.                            *)
Crash ==
    /\ screen # "off" /\ crashes < MaxCrashes
    /\ crashes' = crashes + 1
    /\ screen' = "off" /\ button' = TRUE /\ registry' = {} /\ verifying' = Nobody /\ step' = "none"
    /\ token' = {} /\ failed' = {} /\ gateway' = {}
    /\ exchanges' = [m \in Messengers |-> 0]
    /\ cache' = [m \in Messengers |-> {}]
    /\ query' = [m \in Messengers |-> [q \in Queries |-> Idle]]
    /\ data' = [m \in Messengers |-> {}] /\ streams' = {}
    /\ unsaved' = {} /\ broken' = {} /\ lost' = lost \cup AtRisk
    /\ UNCHANGED <<file, cut, built, accepted>>

-----------------------------------------------------------------------------
(* A question.                                                             *)
At(m, q, pc) == query[m][q].pc = pc
Becomes(m, q, r) == query' = [query EXCEPT ![m][q] = r]
Goto(m, q, pc) == Becomes(m, q, [Idle EXCEPT !.pc = pc])

Answer(m, q) == Goto(m, q, "ok") /\ accepted' = accepted \cup {m}

Ask(m, q) ==
    /\ At(m, q, "cache")
    /\ IF q \in cache[m]
         THEN Answer(m, q)
         ELSE /\ Goto(m, q, IF m \in token THEN "rest" ELSE "token")
              /\ UNCHANGED accepted
    /\ UNCHANGED <<app, disk, backend, crashes>>

(* ensure_token.                                                           *)
Locked(m) == \E q \in Queries : At(m, q, "exchange")
Refused(r) == IF r.next = "rest" THEN [Idle EXCEPT !.pc = "open"] ELSE [Idle EXCEPT !.pc = "err"]

(* Mutant: the error is not looked at.                                     *)
EnsureTokenAgain(m, q) ==
    /\ At(m, q, "token") /\ ~Locked(m)
    /\ IF m \in token
         THEN Goto(m, q, query[m][q].next) /\ UNCHANGED exchanges
         ELSE /\ Becomes(m, q, [query[m][q] EXCEPT !.pc = "exchange"])
              /\ exchanges' = [exchanges EXCEPT ![m] = @ + 1]
    /\ UNCHANGED <<app, disk, token, failed, gateway, cache, accepted, crashes>>

EnsureToken(m, q) ==
    /\ At(m, q, "token") /\ ~Locked(m)
    /\ IF m \in token
         THEN Goto(m, q, query[m][q].next) /\ UNCHANGED exchanges
       ELSE IF m \in failed
         THEN Becomes(m, q, Refused(query[m][q])) /\ UNCHANGED exchanges
         ELSE /\ Becomes(m, q, [query[m][q] EXCEPT !.pc = "exchange"])
              /\ exchanges' = [exchanges EXCEPT ![m] = @ + 1]
    /\ UNCHANGED <<app, disk, token, failed, gateway, cache, accepted, crashes>>

(* login_with_credentials: a token, at once or for the TOTP code, or an    *)
(* error, which is kept.                                                   *)
Exchange(m, q) ==
    /\ At(m, q, "exchange")
    /\ \/ token' = token \cup {m} /\ UNCHANGED failed /\ Goto(m, q, query[m][q].next)
       \/ failed' = failed \cup {m} /\ UNCHANGED token /\ Becomes(m, q, Refused(query[m][q]))
    /\ UNCHANGED <<app, disk, exchanges, gateway, cache, accepted, crashes>>

(* The server answers nothing to what is left of a token.                  *)
Rest(m, q) ==
    /\ At(m, q, "rest")
    /\ \/ m \notin broken /\ Answer(m, q)
       \/ Goto(m, q, "open") /\ UNCHANGED accepted
    /\ UNCHANGED <<app, disk, backend, crashes>>

(* poll_gateway_until: a connection, if Hello comes and there is a token,  *)
EnsureGateway(m, q) ==
    /\ At(m, q, "open")
    /\ \/ q \in cache[m] /\ Answer(m, q)
       \/ q \notin cache[m] /\ m \in gateway /\ Goto(m, q, "poll") /\ UNCHANGED accepted
       \/ /\ q \notin cache[m] /\ m \notin gateway
          /\ \/ Goto(m, q, "err")
             \/ m \notin token /\ Becomes(m, q, [pc |-> "token", next |-> "identify", tries |-> 0])
             \/ m \in token /\ Goto(m, q, "identify")
          /\ UNCHANGED accepted
    /\ UNCHANGED <<app, disk, backend, crashes>>

Identify(m, q) ==
    /\ At(m, q, "identify")
    /\ Goto(m, q, "poll")
    /\ gateway' = gateway \cup {m}
    /\ UNCHANGED <<app, disk, token, failed, exchanges, cache, accepted, crashes>>

(* Mutant: a poll does not count.                                          *)
PolledForever(r) == r

(* and then at most Attempts polls of half a second.                       *)
Polled(r) == [r EXCEPT !.tries = @ + 1]

(* Mutant: one poll too many.                                              *)
PollingTooLong(m, q) == At(m, q, "poll") /\ query[m][q].tries <= Attempts

Polling(m, q) == At(m, q, "poll") /\ query[m][q].tries < Attempts

Timeout(m, q) ==
    /\ Polling(m, q) /\ q \notin cache[m]
    /\ Becomes(m, q, Polled(query[m][q]))
    /\ UNCHANGED <<app, disk, backend, accepted, crashes>>

(* The event is handled, or dropped half-way: some of Ready is cached.     *)
Event(m, q) ==
    /\ Polling(m, q) /\ m \in gateway \ broken
    /\ \E new \in SUBSET Queries : cache' = [cache EXCEPT ![m] = @ \cup new]
    /\ Becomes(m, q, Polled(query[m][q]))
    /\ UNCHANGED <<app, disk, token, failed, exchanges, gateway, accepted, crashes>>

(* The connection is closed, and torn down by whoever notices.             *)
GatewayGone(m, q) ==
    /\ Polling(m, q)
    /\ gateway' = gateway \ {m}
    /\ Goto(m, q, "err")
    /\ UNCHANGED <<app, disk, token, failed, exchanges, cache, accepted, crashes>>

PollEnds(m, q) ==
    /\ At(m, q, "poll")
    /\ \/ q \in cache[m] /\ Answer(m, q)
       \/ q \notin cache[m] /\ ~Polling(m, q) /\ Goto(m, q, "err") /\ UNCHANGED accepted
    /\ UNCHANGED <<app, disk, backend, crashes>>

-----------------------------------------------------------------------------
AppStep ==
    \/ Verified \/ LoginFailed \/ Begin \/ Navigate \/ SaveCredentials \/ ModifyData
    \/ \E m \in Messengers : WriteName(m) \/ WriteToken(m)

QueryStep(m, q) ==
    \/ Ask(m, q) \/ EnsureToken(m, q) \/ Exchange(m, q) \/ Rest(m, q)
    \/ EnsureGateway(m, q) \/ Identify(m, q) \/ Timeout(m, q) \/ PollEnds(m, q)

Next ==
    \/ Boot \/ Crash \/ AppStep
    \/ \E m \in Messengers :
          \/ Submit(m)
          \/ \E q \in Queries : QueryStep(m, q) \/ Event(m, q) \/ GatewayGone(m, q)

(* The app processes its messages, and every request, connect and exchange *)
(* is answered or fails; the gateway need not send anything.               *)
Spec ==
    /\ Init /\ [][Next]_vars /\ WF_vars(AppStep)
    /\ \A m \in Messengers : \A q \in Queries : WF_vars(QueryStep(m, q))

-----------------------------------------------------------------------------
TypeOK ==
    /\ screen \in {"off", "loading", "login", "messenger"} /\ button \in BOOLEAN
    /\ step \in {"none", "begin", "fetch", "save", "write", "done"}
    /\ verifying \in Messengers \cup {Nobody}
    /\ registry \subseteq Messengers /\ built \subseteq Messengers /\ broken \subseteq registry
    /\ file \subseteq Messengers /\ cut \subseteq Messengers \ file
    /\ unsaved \subseteq Messengers \ file /\ lost \subseteq Messengers
    /\ token \subseteq Messengers /\ failed \subseteq Messengers /\ gateway \subseteq Messengers
    /\ streams \subseteq Messengers /\ accepted \subseteq Messengers
    /\ exchanges \in [Messengers -> Nat]
    /\ cache \in [Messengers -> SUBSET Queries] /\ data \in [Messengers -> SUBSET Queries]
    /\ query \in [Messengers -> [Queries -> Question]]
    /\ crashes \in 0 .. MaxCrashes

(* A password is exchanged once, whatever comes of it: the fallback to the *)
(* gateway needs the token as well and must not log in again.              *)
OneExchange == \A m \in Messengers : exchanges[m] <= 1

(* Only a messenger that has answered is registered and saved, with a      *)
(* token and not with a password, also after crashes and partial loads,    *)
(* except one that a kill in its own line has left without its token: it   *)
(* is registered and saved again as what is left of it.                    *)
LoginsVerified ==
    /\ file \subseteq accepted
    /\ registry \ broken \subseteq accepted /\ registry \subseteq token
    /\ broken \cup (cut \ unsaved) \subseteq lost

(* A login that has answered is registered or has its line in LoginInfo,   *)
(* whatever its questions come to in later runs, unless LoginInfo lost it: *)
(* by a kill before its line was whole, or by a load that did not get to   *)
(* it and a save after that.                                               *)
LoginsKept == accepted \subseteq file \cup (registry \ broken) \cup {verifying} \cup lost

CommitVerified == LoginsVerified /\ LoginsKept

(* The login page and the loading page are always left, even if neither    *)
(* REST nor the gateway ever has the answer to a question, as long as each *)
(* request, connect and wait for Hello itself comes to an end.             *)
StartUpEnds ==
    /\ (verifying # Nobody) ~> (verifying = Nobody)
    /\ (step # "none") ~> (step = "done" \/ screen = "off")
=============================================================================
