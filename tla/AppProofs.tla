------------------------------ MODULE AppProofs ------------------------------
(***************************************************************************)
(* Proofs about what the app does when it starts and when the user sends,  *)
(* for any messengers, questions, polls, crashes, sends and messages.      *)
(*                                                                         *)
(* StartUp.tla: a password is exchanged once, only messengers that have    *)
(* answered are registered or saved, and LoginInfo loses a login only to a *)
(* kill before its line was whole or to a load that stopped before it.     *)
(* PendingSends.tla: sends leave no bubbles behind, and messages are       *)
(* neither lost nor shown twice.                                           *)
(***************************************************************************)
EXTENDS StartUp, PendingSends, FiniteSetTheorems, TLAPS

-----------------------------------------------------------------------------
(* THE START-UP                                                            *)

Running(m, q) == query[m][q].pc \notin {"idle", "ok", "err"}

(* Whose questions are under way: that of the login being verified, or     *)
(* those of the start-up.  Nothing else may replace a question by another. *)
AskedInv ==
    /\ verifying # Nobody => step = "none" /\ ~button
    /\ screen = "login" /\ button => step = "none"
    /\ \A m \in Messengers, q \in Queries :
          Running(m, q) => \/ step = "none" /\ m = verifying /\ q = ClientUser
                           \/ step = "fetch" /\ m \in registry

(* An exchange was never begun, is under way, or has left a token or an    *)
(* error behind that keeps the next caller from another one.               *)
ExchangeInv ==
    \A m \in Messengers :
        \/ exchanges[m] = 0
        \/ exchanges[m] = 1 /\ (m \in token \/ m \in failed \/ Locked(m))

(* There is a token wherever one was needed.                               *)
TokenInv ==
    /\ registry \subseteq token /\ gateway \subseteq token
    /\ \A m \in Messengers : cache[m] # {} => m \in token
    /\ \A m \in Messengers, q \in Queries :
          query[m][q].pc \in {"rest", "identify", "ok"} => m \in token

(* An answer is remembered, and what is saved, or registered from a whole  *)
(* line, has answered.                                                     *)
AcceptedInv ==
    /\ file \subseteq accepted /\ registry \ broken \subseteq accepted
    /\ \A m \in Messengers, q \in Queries : query[m][q].pc = "ok" => m \in accepted

(* Every login that answered is in LoginInfo, registered or known to be    *)
(* lost; from the first write of a save on, registered means written or    *)
(* yet to be written; and a cut line that nobody is writing is a loss.     *)
SavedInv ==
    /\ screen = "off" => registry = {} /\ verifying = Nobody
    /\ unsaved \subseteq registry /\ (unsaved # {} => step = "write")
    /\ broken \cap file = {} /\ broken \cup (cut \ unsaved) \subseteq lost
    /\ step \in {"write", "done"} => registry \ broken \subseteq file \cup unsaved
    /\ \A m \in accepted : \/ m \in file \cup (registry \ broken) \cup lost
                           \/ m = verifying /\ query[m][ClientUser].pc = "ok"

-----------------------------------------------------------------------------
(* TypeOK holds at first and is kept by every step: Polled counts no       *)
(* further than Attempts.                                                  *)
LEMMA IdleIsQuestion == Idle \in Question /\ Fetching \in Question
BY StartUpAssumption DEF StartUpAssumption, Idle, Fetching, Question, PC

(* The start-up begins well typed,                                         *)
LEMMA TypeOKInit == Init => TypeOK
BY StartUpAssumption, IdleIsQuestion DEF StartUpAssumption, Init, TypeOK

(* A question stays a question wherever it goes.                           *)
LEMMA GotoType ==
    ASSUME TypeOK, NEW m \in Messengers, NEW q \in Queries, NEW pc \in PC, Goto(m, q, pc)
    PROVE  query' \in [Messengers -> [Queries -> Question]]
<1>1. [Idle EXCEPT !.pc = pc] \in Question
      BY StartUpAssumption DEF StartUpAssumption, Idle, Question, PC
<1> QED
    BY <1>1 DEF Goto, Becomes, TypeOK

(* So does it whatever it becomes.                                         *)
LEMMA BecomesType ==
    ASSUME TypeOK, NEW m \in Messengers, NEW q \in Queries, NEW r \in Question,
           Becomes(m, q, r)
    PROVE  query' \in [Messengers -> [Queries -> Question]]
BY DEF Becomes, TypeOK

(* Every step of the start-up keeps the types.                             *)
LEMMA TypeOKStep == TypeOK /\ [Next]_vars => TypeOK'
<1> SUFFICES ASSUME TypeOK, [Next]_vars PROVE TypeOK'
    OBVIOUS
<1> DEFINE QS == [Messengers -> [Queries -> Question]]
<1>1. CASE Boot
  <2>1. PICK lines \in SUBSET (file \cup cut), first \in {"login", "loading"} :
            Booted(lines, first) /\ broken' = cut \cap lines
        BY <1>1 DEF Boot
  <2>2. lines \subseteq Messengers
        BY DEF TypeOK
  <2> QED
      BY <1>1, <2>1, <2>2, StartUpAssumption, IdleIsQuestion
      DEF StartUpAssumption, Boot, Booted, TypeOK
<1>2. ASSUME NEW m \in Messengers, Submit(m) PROVE TypeOK'
      BY <1>2, StartUpAssumption, IdleIsQuestion DEF StartUpAssumption, Submit, TypeOK, disk
<1>3. CASE Verified
      BY <1>3 DEF Verified, TypeOK, backend, disk
<1>4. CASE LoginFailed
      BY <1>4 DEF LoginFailed, TypeOK, backend, disk
<1>5. CASE Begin
      BY <1>5, IdleIsQuestion DEF Begin, TypeOK, backend, disk
<1>6. CASE Navigate
      BY <1>6 DEF Navigate, TypeOK, disk
<1>7. CASE SaveCredentials
      BY <1>7 DEF SaveCredentials, TypeOK, backend
<1>8. CASE ModifyData
      BY <1>8, IdleIsQuestion DEF ModifyData, TypeOK, backend, disk
<1>9. CASE Crash
  <2>1. AtRisk \subseteq Messengers
        BY DEF AtRisk, TypeOK
  <2> QED
      BY <1>9, <2>1, StartUpAssumption, IdleIsQuestion DEF StartUpAssumption, Crash, TypeOK
<1>10. ASSUME NEW m \in Messengers, NEW q \in Queries,
              QueryStep(m, q) \/ Event(m, q) \/ GatewayGone(m, q)
       PROVE  TypeOK'
  <2>0. query[m][q] \in Question
        BY DEF TypeOK
  <2>g. \A pc \in PC : Goto(m, q, pc) => query' \in QS
        BY GotoType
  <2>b. \A r \in Question : Becomes(m, q, r) => query' \in QS
        BY BecomesType
  <2>p. {"cache", "token", "rest", "open", "identify", "poll", "ok", "err"} \subseteq PC
        BY DEF PC
  <2>1. CASE Ask(m, q)
        BY <2>1, <2>g, <2>p DEF Ask, Answer, TypeOK, app, backend, disk
  <2>2. CASE EnsureToken(m, q) \/ Exchange(m, q)
    <3>1. Refused(query[m][q]) \in Question
          BY StartUpAssumption DEF StartUpAssumption, Refused, Idle, Question, PC
    <3>2. [query[m][q] EXCEPT !.pc = "exchange"] \in Question
          BY <2>0 DEF Question, PC
    <3>3. query[m][q].next \in PC
          BY <2>0 DEF Question, PC
    <3>4. query' \in QS
          BY <2>2, <2>g, <2>b, <3>1, <3>2, <3>3 DEF EnsureToken, Exchange
    <3>5. exchanges' \in [Messengers -> Nat]
          BY <2>2 DEF EnsureToken, Exchange, TypeOK
    <3> QED
        BY <2>2, <3>4, <3>5 DEF EnsureToken, Exchange, TypeOK, app, disk
  <2>3. CASE Rest(m, q)
        BY <2>3, <2>g, <2>p DEF Rest, Answer, TypeOK, app, backend, disk
  <2>4. CASE EnsureGateway(m, q)
    <3>1. [pc |-> "token", next |-> "identify", tries |-> 0] \in Question
          BY StartUpAssumption DEF StartUpAssumption, Question, PC
    <3>2. query' \in QS
          BY <2>4, <2>g, <2>b, <2>p, <3>1 DEF EnsureGateway, Answer
    <3>3. accepted' \subseteq Messengers
          BY <2>4 DEF EnsureGateway, Answer, TypeOK
    <3> QED
        BY <2>4, <3>2, <3>3 DEF EnsureGateway, TypeOK, app, backend, disk
  <2>5. CASE Identify(m, q)
        BY <2>5, <2>g, <2>p DEF Identify, TypeOK, app, disk
  <2>6. CASE Timeout(m, q) \/ Event(m, q)
    <3>1. Polling(m, q)
          BY <2>6 DEF Timeout, Event
    <3>2. Polled(query[m][q]) \in Question
          BY <2>0, <3>1, StartUpAssumption DEF StartUpAssumption, Polled, Polling, Question
    <3>3. query' \in QS
          BY <2>6, <2>b, <3>2 DEF Timeout, Event
    <3>4. cache' \in [Messengers -> SUBSET Queries]
          BY <2>6 DEF Timeout, Event, TypeOK, backend
    <3> QED
        BY <2>6, <3>3, <3>4 DEF Timeout, Event, TypeOK, app, backend, disk
  <2>7. CASE PollEnds(m, q)
        BY <2>7, <2>g, <2>p DEF PollEnds, Answer, TypeOK, app, backend, disk
  <2>8. CASE GatewayGone(m, q)
        BY <2>8, <2>g, <2>p DEF GatewayGone, TypeOK, app, disk
  <2> QED
      BY <1>10, <2>1, <2>2, <2>3, <2>4, <2>5, <2>6, <2>7, <2>8 DEF QueryStep
<1>11. CASE UNCHANGED vars
       BY <1>11 DEF vars, app, backend, disk, TypeOK
<1>12. ASSUME NEW m \in Messengers, WriteName(m) \/ WriteToken(m) PROVE TypeOK'
       BY <1>12 DEF WriteName, WriteToken, TypeOK, app, backend
<1> QED
    BY <1>1, <1>2, <1>3, <1>4, <1>5, <1>6, <1>7, <1>8, <1>9, <1>10, <1>11, <1>12
    DEF Next, AppStep

-----------------------------------------------------------------------------
(* What Goto and Becomes do.                                               *)
LEMMA BecomesEffect ==
    ASSUME TypeOK, NEW m \in Messengers, NEW q \in Queries, NEW r, Becomes(m, q, r)
    PROVE  /\ query'[m][q] = r
           /\ \A n \in Messengers, p \in Queries :
                 n # m \/ p # q => query'[n][p] = query[n][p]
BY DEF Becomes, TypeOK

(* Goto touches one question, and its pc alone.                            *)
LEMMA GotoEffect ==
    ASSUME TypeOK, NEW m \in Messengers, NEW q \in Queries, NEW pc, Goto(m, q, pc)
    PROVE  /\ query'[m][q].pc = pc
           /\ \A n \in Messengers, p \in Queries :
                 n # m \/ p # q => query'[n][p] = query[n][p]
<1> DEFINE r == [Idle EXCEPT !.pc = pc]
<1>1. r.pc = pc /\ Becomes(m, q, r)
      BY DEF Idle, Goto
<1> HIDE DEF r
<1> QED
    BY <1>1, BecomesEffect

(* A step of a question touches no other question, nothing of the app and  *)
(* of LoginInfo, and takes back neither a token, an error nor an answer.   *)
LEMMA QuestionEffect ==
    ASSUME TypeOK, NEW m \in Messengers, NEW q \in Queries,
           QueryStep(m, q) \/ Event(m, q) \/ GatewayGone(m, q)
    PROVE  /\ Running(m, q)
           /\ UNCHANGED <<app, disk>>
           /\ token \subseteq token' /\ failed \subseteq failed' /\ accepted \subseteq accepted'
           /\ accepted' \subseteq accepted \cup {m}
           /\ accepted' # accepted => query'[m][q].pc = "ok"
           /\ \A n \in Messengers, p \in Queries :
                 n # m \/ p # q => query'[n][p] = query[n][p]
<1> DEFINE Elsewhere == \A n \in Messengers, p \in Queries :
                        n # m \/ p # q => query'[n][p] = query[n][p]
<1>g. \A pc : Goto(m, q, pc) => Elsewhere
      BY GotoEffect
<1>b. \A r : Becomes(m, q, r) => Elsewhere
      BY BecomesEffect
<1> HIDE DEF Elsewhere
<1>1. Elsewhere
      BY <1>g, <1>b DEF QueryStep, Ask, Answer, EnsureToken, Exchange, Rest, EnsureGateway,
                        Identify, Timeout, PollEnds, Event, GatewayGone
<1>2. Running(m, q)
      BY DEF Running, QueryStep, Ask, EnsureToken, Exchange, Rest, EnsureGateway,
             Identify, Timeout, PollEnds, Event, GatewayGone, Polling, At
<1>3. UNCHANGED <<app, disk>>
      BY DEF QueryStep, Ask, EnsureToken, Exchange, Rest, EnsureGateway,
             Identify, Timeout, PollEnds, Event, GatewayGone
<1>4. token \subseteq token' /\ failed \subseteq failed' /\ accepted \subseteq accepted'
      BY DEF QueryStep, Ask, Answer, EnsureToken, Exchange, Rest, EnsureGateway,
             Identify, Timeout, PollEnds, Event, GatewayGone, backend
<1>5. /\ accepted' \subseteq accepted \cup {m}
      /\ accepted' # accepted => Goto(m, q, "ok")
      BY DEF QueryStep, Ask, Answer, EnsureToken, Exchange, Rest, EnsureGateway,
             Identify, Timeout, PollEnds, Event, GatewayGone, backend
<1>6. Goto(m, q, "ok") => query'[m][q].pc = "ok"
      BY GotoEffect
<1> QED
    BY <1>1, <1>2, <1>3, <1>4, <1>5, <1>6 DEF Elsewhere

-----------------------------------------------------------------------------
(* Nothing is asked at first.                                              *)
LEMMA AskedInit == Init => AskedInv
BY StartUpAssumption DEF StartUpAssumption, Init, AskedInv, Running, Idle

(* Only a login or the start-up asks, and they exclude each other.         *)
LEMMA AskedStep == TypeOK /\ AskedInv /\ [Next]_vars => AskedInv'
<1> SUFFICES ASSUME TypeOK, AskedInv, [Next]_vars PROVE AskedInv'
    OBVIOUS
<1>0. Idle.pc = "idle" /\ Nobody \notin Messengers
      BY StartUpAssumption DEF StartUpAssumption, Idle
<1>1. CASE Boot
  <2>1. PICK lines \in SUBSET (file \cup cut), first \in {"login", "loading"} :
            Booted(lines, first) /\ broken' = cut \cap lines
        BY <1>1 DEF Boot
  <2> QED
      BY <2>1, <1>0 DEF Booted, AskedInv, Running
<1>2. ASSUME NEW m \in Messengers, Submit(m) PROVE AskedInv'
  <2>1. verifying = Nobody /\ step = "none" /\ \A n \in Messengers, p \in Queries : ~Running(n, p)
        BY <1>2, <1>0 DEF Submit, AskedInv
  <2>2. \A n \in Messengers, p \in Queries :
            n # m \/ p # ClientUser => query'[n][p] = query[n][p]
        BY <1>2 DEF Submit, TypeOK
  <2> QED
      BY <1>2, <2>1, <2>2 DEF Submit, AskedInv, Running
<1>3. CASE Verified \/ LoginFailed
  <2>1. query[verifying][ClientUser].pc \in Ended /\ verifying # Nobody
        BY <1>3 DEF Verified, LoginFailed, Ended
  <2>2. \A n \in Messengers, p \in Queries : ~Running(n, p)
        BY <2>1 DEF AskedInv, Running, Ended
  <2> QED
      BY <1>3, <2>1, <2>2 DEF Verified, LoginFailed, AskedInv, Running
<1>4. CASE Begin
      BY <1>4, <1>0 DEF Begin, AskedInv, Running
<1>5. CASE Navigate
      BY <1>5 DEF Navigate, AskedInv, Running, Ended
<1>6. CASE SaveCredentials \/ \E m \in Messengers : WriteName(m) \/ WriteToken(m)
      BY <1>6 DEF SaveCredentials, WriteName, WriteToken, AskedInv, Running, app
<1>7. CASE ModifyData
      BY <1>7, <1>0 DEF ModifyData, AskedInv, Running
<1>8. CASE Crash
      BY <1>8, <1>0 DEF Crash, AskedInv, Running
<1>9. ASSUME NEW m \in Messengers, NEW q \in Queries,
             QueryStep(m, q) \/ Event(m, q) \/ GatewayGone(m, q)
      PROVE  AskedInv'
      BY <1>9, QuestionEffect DEF AskedInv, Running, app
<1>10. CASE UNCHANGED vars
       BY <1>10 DEF vars, app, AskedInv, Running
<1> QED
    BY <1>1, <1>2, <1>3, <1>4, <1>5, <1>6, <1>7, <1>8, <1>9, <1>10 DEF Next, AppStep

-----------------------------------------------------------------------------
(* No password has been exchanged at first.                                *)
LEMMA ExchangeInit == Init => ExchangeInv
BY DEF Init, ExchangeInv

(* An exchange is not begun where one has been, or is under way.           *)
LEMMA ExchangeStep == TypeOK /\ AskedInv /\ ExchangeInv /\ [Next]_vars => ExchangeInv'
<1> SUFFICES ASSUME TypeOK, AskedInv, ExchangeInv, [Next]_vars PROVE ExchangeInv'
    OBVIOUS
(* Steps that begin no exchange and end none keep the invariant.           *)
<1>k. ASSUME UNCHANGED exchanges, token \subseteq token', failed \subseteq failed',
             \A n \in Messengers : Locked(n) => Locked(n)'
      PROVE  ExchangeInv'
      BY <1>k DEF ExchangeInv
<1>l. ASSUME \A n \in Messengers, p \in Queries : ~Running(n, p)
      PROVE  \A n \in Messengers : ~Locked(n)
      BY <1>l DEF Running, Locked, At
<1>1. CASE Boot \/ Crash
      BY <1>1 DEF Boot, Booted, Crash, ExchangeInv
<1>2. ASSUME NEW m \in Messengers, Submit(m) PROVE ExchangeInv'
  <2>1. \A n \in Messengers, p \in Queries : ~Running(n, p)
        BY <1>2, StartUpAssumption DEF StartUpAssumption, Submit, AskedInv
  <2> QED
      BY <1>2, <1>k, <1>l, <2>1 DEF Submit
<1>3. CASE Verified \/ LoginFailed \/ Navigate \/ SaveCredentials
      BY <1>3, <1>k DEF Verified, LoginFailed, Navigate, SaveCredentials, backend, Locked, At
<1>4. CASE Begin \/ ModifyData
  <2>1. \A n \in Messengers, p \in Queries : ~Running(n, p)
        BY <1>4 DEF Begin, ModifyData, AskedInv
  <2> QED
      BY <1>4, <1>k, <1>l, <2>1 DEF Begin, ModifyData, backend
<1>5. ASSUME NEW m \in Messengers, NEW q \in Queries,
             QueryStep(m, q) \/ Event(m, q) \/ GatewayGone(m, q)
      PROVE  ExchangeInv'
  <2>e. /\ token \subseteq token' /\ failed \subseteq failed'
        /\ \A n \in Messengers, p \in Queries :
              n # m \/ p # q => query'[n][p] = query[n][p]
        BY <1>5, QuestionEffect
  <2>1. CASE EnsureToken(m, q) /\ m \notin token /\ m \notin failed
    <3>1. Becomes(m, q, [query[m][q] EXCEPT !.pc = "exchange"])
          BY <2>1 DEF EnsureToken
    <3>2. query'[m][q] = [query[m][q] EXCEPT !.pc = "exchange"]
          BY <3>1, BecomesEffect
    <3>3. query[m][q] \in Question
          BY DEF TypeOK
    <3>4. Locked(m)'
          BY <3>2, <3>3 DEF Locked, At, Question
    <3>5. exchanges[m] = 0
          BY <2>1 DEF EnsureToken, ExchangeInv
    <3>6. exchanges'[m] = 1 /\ \A n \in Messengers \ {m} : exchanges'[n] = exchanges[n]
          BY <2>1, <3>5 DEF EnsureToken, TypeOK
    <3>7. \A n \in Messengers \ {m} : Locked(n) => Locked(n)'
          BY <2>e DEF Locked, At
    <3> QED
        BY <2>e, <3>4, <3>6, <3>7 DEF ExchangeInv
  <2>2. CASE Exchange(m, q)
    <3>1. m \in token' \/ m \in failed'
          BY <2>2 DEF Exchange
    <3>2. UNCHANGED exchanges
          BY <2>2 DEF Exchange
    <3>3. \A n \in Messengers \ {m} : Locked(n) => Locked(n)'
          BY <2>e DEF Locked, At
    <3> QED
        BY <2>e, <3>1, <3>2, <3>3 DEF ExchangeInv
  <2>3. CASE ~Exchange(m, q) /\ ~(EnsureToken(m, q) /\ m \notin token /\ m \notin failed)
    <3>1. UNCHANGED exchanges
          BY <1>5, <2>3 DEF QueryStep, Ask, EnsureToken, Rest, EnsureGateway, Identify,
             Timeout, PollEnds, Event, GatewayGone, backend
    <3>2. ~At(m, q, "exchange")
          BY <1>5, <2>3 DEF QueryStep, Ask, EnsureToken, Rest, EnsureGateway, Identify,
             Timeout, PollEnds, Event, GatewayGone, Polling, At
    <3>3. \A n \in Messengers : Locked(n) => Locked(n)'
          BY <2>e, <3>2 DEF Locked, At
    <3> QED
        BY <1>k, <2>e, <3>1, <3>3
  <2> QED
      BY <2>1, <2>2, <2>3
<1>6. CASE UNCHANGED vars \/ \E m \in Messengers : WriteName(m) \/ WriteToken(m)
      BY <1>6, <1>k DEF vars, WriteName, WriteToken, backend, Locked, At
<1> QED
    BY <1>1, <1>2, <1>3, <1>4, <1>5, <1>6 DEF Next, AppStep

-----------------------------------------------------------------------------
(* No token is needed at first.                                            *)
LEMMA TokenInit == Init => TokenInv
BY DEF Init, TokenInv, Idle

(* Whatever needs a token is reached through one.                          *)
LEMMA TokenStep == TypeOK /\ TokenInv /\ [Next]_vars => TokenInv'
<1> SUFFICES ASSUME TypeOK, TokenInv, [Next]_vars PROVE TokenInv'
    OBVIOUS
<1>0. Idle.pc = "idle" /\ Fetching.pc = "cache"
      BY DEF Idle, Fetching
<1>1. CASE Boot
  <2>1. PICK lines \in SUBSET (file \cup cut), first \in {"login", "loading"} :
            Booted(lines, first) /\ broken' = cut \cap lines
        BY <1>1 DEF Boot
  <2> QED
      BY <2>1, <1>0 DEF Booted, TokenInv
<1>2. ASSUME NEW m \in Messengers, Submit(m) PROVE TokenInv'
  <2>1. query'[m][ClientUser] = Fetching
        BY <1>2, StartUpAssumption DEF StartUpAssumption, Submit, TypeOK
  <2>2. \A n \in Messengers, p \in Queries :
            n # m \/ p # ClientUser => query'[n][p] = query[n][p]
        BY <1>2 DEF Submit, TypeOK
  <2>3. token \subseteq token'
        BY <1>2 DEF Submit
  <2>4. UNCHANGED <<registry, gateway, cache>>
        BY <1>2 DEF Submit
  <2> QED
      BY <1>0, <2>1, <2>2, <2>3, <2>4 DEF TokenInv
<1>3. CASE Verified
      BY <1>3, StartUpAssumption DEF StartUpAssumption, Verified, TokenInv, TypeOK, backend
<1>4. CASE LoginFailed \/ SaveCredentials
      BY <1>4 DEF LoginFailed, SaveCredentials, TokenInv, backend
<1>5. CASE Begin \/ ModifyData
      BY <1>5, <1>0 DEF Begin, ModifyData, TokenInv, backend
<1>6. CASE Navigate
      BY <1>6 DEF Navigate, TokenInv
<1>7. CASE Crash
      BY <1>7, <1>0 DEF Crash, TokenInv
<1>8. ASSUME NEW m \in Messengers, NEW q \in Queries,
             QueryStep(m, q) \/ Event(m, q) \/ GatewayGone(m, q)
      PROVE  TokenInv'
  <2>e. /\ UNCHANGED registry /\ token \subseteq token'
        /\ \A n \in Messengers, p \in Queries :
              n # m \/ p # q => query'[n][p] = query[n][p]
        BY <1>8, QuestionEffect DEF app
  <2>g. \A pc : Goto(m, q, pc) => query'[m][q].pc = pc
        BY GotoEffect
  <2>b. \A r : Becomes(m, q, r) => query'[m][q] = r
        BY BecomesEffect
  <2>1. gateway' \subseteq token'
        BY <1>8, <2>e DEF QueryStep, Ask, EnsureToken, Exchange, Rest, EnsureGateway, Identify,
           Timeout, PollEnds, Event, GatewayGone, backend, TokenInv, At
  <2>2. \A n \in Messengers : cache'[n] # {} => n \in token'
    <3>1. CASE Event(m, q)
      <4>1. m \in token /\ \A n \in Messengers \ {m} : cache'[n] = cache[n]
            BY <3>1 DEF Event, TokenInv, TypeOK
      <4> QED
          BY <2>e, <4>1 DEF TokenInv
    <3>2. CASE ~Event(m, q)
      <4>1. UNCHANGED cache
            BY <1>8, <3>2 DEF QueryStep, Ask, EnsureToken, Exchange, Rest, EnsureGateway,
               Identify, Timeout, PollEnds, GatewayGone, backend
      <4> QED
          BY <2>e, <4>1 DEF TokenInv
    <3> QED
        BY <3>1, <3>2
  <2>3. query'[m][q].pc \in {"rest", "identify", "ok"} => m \in token'
    <3>1. CASE Ask(m, q)
          BY <3>1, <2>e, <2>g DEF Ask, Answer, TokenInv
    <3>2. CASE EnsureToken(m, q)
      <4>1. Refused(query[m][q]).pc \in {"open", "err"}
            BY DEF Refused, Idle
      <4>2. query[m][q] \in Question
            BY DEF TypeOK
      <4>3. [query[m][q] EXCEPT !.pc = "exchange"].pc = "exchange"
            BY <4>2 DEF Question
      <4> QED
          BY <3>2, <2>e, <2>b, <4>1, <4>3 DEF EnsureToken
    <3>3. CASE Exchange(m, q)
      <4>1. Refused(query[m][q]).pc \in {"open", "err"}
            BY DEF Refused, Idle
      <4> QED
          BY <3>3, <2>b, <4>1 DEF Exchange
    <3>4. CASE Rest(m, q)
          BY <3>4, <2>e, <2>g DEF Rest, Answer, TokenInv, At
    <3>5. CASE EnsureGateway(m, q)
      <4>1. [pc |-> "token", next |-> "identify", tries |-> 0].pc = "token"
            OBVIOUS
      <4> QED
          BY <3>5, <2>e, <2>g, <2>b, <4>1 DEF EnsureGateway, Answer, TokenInv
    <3>6. CASE Identify(m, q) \/ GatewayGone(m, q)
          BY <3>6, <2>g DEF Identify, GatewayGone
    <3>7. CASE Timeout(m, q) \/ Event(m, q)
      <4>1. query[m][q] \in Question
            BY DEF TypeOK
      <4>2. Polled(query[m][q]).pc = "poll"
            BY <3>7, <4>1 DEF Timeout, Event, Polling, Polled, At, Question
      <4> QED
          BY <3>7, <2>b, <4>2 DEF Timeout, Event
    <3>8. CASE PollEnds(m, q)
          BY <3>8, <2>e, <2>g DEF PollEnds, Answer, TokenInv
    <3> QED
        BY <1>8, <3>1, <3>2, <3>3, <3>4, <3>5, <3>6, <3>7, <3>8 DEF QueryStep
  <2> QED
      BY <2>e, <2>1, <2>2, <2>3 DEF TokenInv
<1>9. CASE UNCHANGED vars \/ \E m \in Messengers : WriteName(m) \/ WriteToken(m)
      BY <1>9 DEF vars, WriteName, WriteToken, app, backend, TokenInv
<1> QED
    BY <1>1, <1>2, <1>3, <1>4, <1>5, <1>6, <1>7, <1>8, <1>9 DEF Next, AppStep

-----------------------------------------------------------------------------
(* Nothing is registered or saved at first.                                *)
LEMMA AcceptedInit == Init => AcceptedInv
BY StartUpAssumption DEF StartUpAssumption, Init, AcceptedInv, Idle

(* Only what has answered is registered or saved.                          *)
LEMMA AcceptedStep == TypeOK /\ AcceptedInv /\ SavedInv /\ [Next]_vars => AcceptedInv'
<1> SUFFICES ASSUME TypeOK, AcceptedInv, SavedInv, [Next]_vars PROVE AcceptedInv'
    OBVIOUS
<1>0. Idle.pc = "idle" /\ Fetching.pc = "cache"
      BY DEF Idle, Fetching
<1>1. CASE Boot
  <2>1. PICK lines \in SUBSET (file \cup cut), first \in {"login", "loading"} :
            Booted(lines, first) /\ broken' = cut \cap lines
        BY <1>1 DEF Boot
  <2> QED
      BY <1>1, <2>1, <1>0 DEF Boot, Booted, AcceptedInv, TypeOK
<1>2. ASSUME NEW m \in Messengers, Submit(m) PROVE AcceptedInv'
  <2>1. query'[m][ClientUser] = Fetching
        BY <1>2, StartUpAssumption DEF StartUpAssumption, Submit, TypeOK
  <2>2. \A n \in Messengers, p \in Queries :
            n # m \/ p # ClientUser => query'[n][p] = query[n][p]
        BY <1>2 DEF Submit, TypeOK
  <2>3. UNCHANGED <<registry, file, broken, accepted>>
        BY <1>2 DEF Submit, disk
  <2> QED
      BY <1>0, <2>1, <2>2, <2>3 DEF AcceptedInv
<1>3. CASE Verified
      BY <1>3, StartUpAssumption DEF StartUpAssumption, Verified, AcceptedInv, TypeOK, disk
<1>4. CASE LoginFailed \/ Navigate \/ SaveCredentials
      BY <1>4 DEF LoginFailed, Navigate, SaveCredentials, AcceptedInv, disk
<1>5. CASE Begin \/ ModifyData
      BY <1>5, <1>0 DEF Begin, ModifyData, AcceptedInv, disk
<1>6. CASE Crash
      BY <1>6, <1>0 DEF Crash, AcceptedInv
<1>7. ASSUME NEW m \in Messengers, NEW q \in Queries,
             QueryStep(m, q) \/ Event(m, q) \/ GatewayGone(m, q)
      PROVE  AcceptedInv'
  <2>e. /\ UNCHANGED <<registry, file, broken>> /\ accepted \subseteq accepted'
        /\ \A n \in Messengers, p \in Queries :
              n # m \/ p # q => query'[n][p] = query[n][p]
        BY <1>7, QuestionEffect DEF app, disk
  <2>g. \A pc : Goto(m, q, pc) => query'[m][q].pc = pc
        BY GotoEffect
  <2>b. \A r : Becomes(m, q, r) => query'[m][q] = r
        BY BecomesEffect
  <2>1. query'[m][q].pc = "ok" => m \in accepted'
    <3>1. CASE Ask(m, q) \/ Rest(m, q) \/ PollEnds(m, q)
          BY <3>1, <2>g DEF Ask, Rest, PollEnds, Answer
    <3>2. CASE EnsureToken(m, q) \/ Exchange(m, q)
      <4>1. Refused(query[m][q]).pc \in {"open", "err"}
            BY DEF Refused, Idle
      <4>2. query[m][q] \in Question
            BY DEF TypeOK
      <4>3. [query[m][q] EXCEPT !.pc = "exchange"].pc = "exchange" /\ query[m][q].next # "ok"
            BY <4>2 DEF Question
      <4> QED
          BY <3>2, <2>g, <2>b, <4>1, <4>3 DEF EnsureToken, Exchange
    <3>3. CASE EnsureGateway(m, q)
      <4>1. [pc |-> "token", next |-> "identify", tries |-> 0].pc = "token"
            OBVIOUS
      <4> QED
          BY <3>3, <2>g, <2>b, <4>1 DEF EnsureGateway, Answer
    <3>4. CASE Identify(m, q) \/ GatewayGone(m, q)
          BY <3>4, <2>g DEF Identify, GatewayGone
    <3>5. CASE Timeout(m, q) \/ Event(m, q)
      <4>1. query[m][q] \in Question
            BY DEF TypeOK
      <4>2. Polled(query[m][q]).pc = "poll"
            BY <3>5, <4>1 DEF Timeout, Event, Polling, Polled, At, Question
      <4> QED
          BY <3>5, <2>b, <4>2 DEF Timeout, Event
    <3> QED
        BY <1>7, <3>1, <3>2, <3>3, <3>4, <3>5 DEF QueryStep
  <2> QED
      BY <2>e, <2>1 DEF AcceptedInv
<1>8. CASE UNCHANGED vars
      BY <1>8 DEF vars, app, disk, AcceptedInv
<1>9. ASSUME NEW m \in Messengers, WriteName(m) \/ WriteToken(m) PROVE AcceptedInv'
      BY <1>9 DEF WriteName, WriteToken, AcceptedInv, SavedInv, TypeOK, app
<1> QED
    BY <1>1, <1>2, <1>3, <1>4, <1>5, <1>6, <1>7, <1>8, <1>9 DEF Next, AppStep


-----------------------------------------------------------------------------
(* Nothing is lost at first.                                               *)
LEMMA SavedInit == Init => SavedInv
BY DEF Init, SavedInv

(* A kill loses what has not been saved or is yet to be written, and the   *)
(* first write of a save what a load did not get to; nothing else does.    *)
LEMMA SavedStep == TypeOK /\ AskedInv /\ SavedInv /\ [Next]_vars => SavedInv'
<1> SUFFICES ASSUME TypeOK, AskedInv, SavedInv, [Next]_vars PROVE SavedInv'
    OBVIOUS
<1>0. Idle.pc = "idle" /\ Nobody \notin Messengers
      BY StartUpAssumption DEF StartUpAssumption, Idle
<1>1. CASE Boot
  <2>1. PICK lines \in SUBSET (file \cup cut), first \in {"login", "loading"} :
            Booted(lines, first) /\ broken' = cut \cap lines
        BY <1>1 DEF Boot
  <2>2. /\ screen = "off" /\ registry = {} /\ verifying = Nobody /\ unsaved = {}
        /\ cut \subseteq lost /\ cut \cap file = {} /\ accepted \subseteq Messengers
        BY <1>1 DEF Boot, SavedInv, TypeOK
  <2>3. UNCHANGED <<file, cut, unsaved, lost, accepted>>
        BY <1>1 DEF Boot
  <2>4. step' \in {"begin", "none"} /\ screen' # "off"
        BY <2>1 DEF Booted
  <2>5. \A m \in accepted : m \in file \cup lost
        BY <1>0, <2>2 DEF SavedInv
  <2> QED
      BY <2>1, <2>2, <2>3, <2>4, <2>5 DEF SavedInv
<1>2. ASSUME NEW m \in Messengers, Submit(m) PROVE SavedInv'
  <2>1. verifying = Nobody /\ step = "none" /\ screen = "login"
        BY <1>2 DEF Submit, AskedInv
  <2>2. UNCHANGED <<screen, registry, step, file, cut, unsaved, broken, lost, accepted>>
        BY <1>2 DEF Submit, disk
  <2>3. \A n \in accepted : n \in file \cup (registry \ broken) \cup lost
        BY <1>0, <2>1 DEF SavedInv, TypeOK
  <2> QED
      BY <2>1, <2>2, <2>3 DEF SavedInv
<1>3. CASE Verified \/ LoginFailed
  <2>1. /\ verifying # Nobody /\ verifying' = Nobody /\ step = "none" /\ screen # "off"
        /\ step' \in {"none", "begin"} /\ unsaved = {}
        /\ UNCHANGED <<screen, file, cut, unsaved, broken, lost, query, accepted>>
        BY <1>3 DEF Verified, LoginFailed, AskedInv, SavedInv, disk
  <2>2. /\ registry \subseteq registry'
        /\ query[verifying][ClientUser].pc = "ok" => verifying \in registry'
        BY <1>3 DEF Verified, LoginFailed
  <2>3. \A m \in accepted : m \in file \cup (registry' \ broken) \cup lost
        BY <2>2 DEF SavedInv
  <2> QED
      BY <2>1, <2>3 DEF SavedInv
<1>4. CASE Begin \/ Navigate \/ ModifyData
  <2>1. /\ verifying = Nobody /\ (screen' # "off" \/ screen' = screen)
        /\ UNCHANGED <<registry, verifying, file, cut, unsaved, broken, lost, accepted>>
        BY <1>4 DEF Begin, Navigate, ModifyData, AskedInv, disk
  <2>2. \A m \in accepted : m \in file \cup (registry \ broken) \cup lost
        BY <1>0, <2>1 DEF SavedInv, TypeOK
  <2>3. \/ step' \in {"fetch", "save"} /\ unsaved = {}
        \/ step = "write" /\ step' = "done" /\ unsaved = {}
        BY <1>4 DEF Begin, Navigate, ModifyData, SavedInv
  <2> QED
      BY <2>1, <2>2, <2>3 DEF SavedInv
<1>5. CASE SaveCredentials
  <2>1. /\ verifying = Nobody /\ step' = "write" /\ file' = {} /\ cut' = {}
        /\ unsaved' = registry /\ lost' = lost \cup (file \ registry)
        /\ UNCHANGED <<screen, registry, verifying, broken, accepted>>
        BY <1>5 DEF SaveCredentials, AskedInv
  <2>2. \A m \in accepted : m \in file \cup (registry \ broken) \cup lost
        BY <1>0, <2>1 DEF SavedInv, TypeOK
  <2>3. \A m \in accepted : m \in (registry \ broken) \cup lost'
        BY <2>1, <2>2 DEF SavedInv
  <2> QED
      BY <2>1, <2>3 DEF SavedInv
<1>6. ASSUME NEW m \in Messengers, WriteName(m) \/ WriteToken(m) PROVE SavedInv'
      BY <1>6 DEF WriteName, WriteToken, SavedInv, TypeOK, app
<1>7. CASE Crash
  <2>1. /\ registry' = {} /\ verifying' = Nobody /\ step' = "none" /\ unsaved' = {}
        /\ broken' = {} /\ lost' = lost \cup AtRisk /\ UNCHANGED <<file, cut, accepted>>
        BY <1>7 DEF Crash
  <2>2. unsaved \subseteq AtRisk
        BY DEF AtRisk, SavedInv
  <2>3. ASSUME NEW m \in accepted PROVE m \in file \cup lost'
    <3>1. CASE m \in file \cup lost
          BY <2>1, <3>1
    <3>2. CASE m \in registry \ broken
      <4>1. CASE step = "write"
            BY <2>1, <2>2, <3>2, <4>1 DEF SavedInv
      <4>2. CASE step = "done"
            BY <3>2, <4>2 DEF SavedInv
      <4>3. CASE step \notin {"write", "done"}
            BY <2>1, <3>2, <4>3 DEF AtRisk
      <4> QED
          BY <4>1, <4>2, <4>3
    <3>3. CASE m = verifying
      <4>1. m # Nobody /\ step = "none"
            BY <1>0, <3>3 DEF AskedInv, TypeOK
      <4> QED
          BY <2>1, <3>3, <4>1 DEF AtRisk
    <3> QED
        BY <3>1, <3>2, <3>3 DEF SavedInv
  <2> QED
      BY <2>1, <2>2, <2>3 DEF SavedInv
<1>8. ASSUME NEW m \in Messengers, NEW q \in Queries,
             QueryStep(m, q) \/ Event(m, q) \/ GatewayGone(m, q)
      PROVE  SavedInv'
  <2>e. /\ Running(m, q) /\ accepted' \subseteq accepted \cup {m}
        /\ accepted' # accepted => query'[m][q].pc = "ok"
        /\ UNCHANGED <<screen, registry, verifying, step, file, cut, unsaved, broken, lost>>
        /\ \A n \in Messengers, p \in Queries :
              n # m \/ p # q => query'[n][p] = query[n][p]
        BY <1>8, QuestionEffect DEF app, disk
  <2>1. ASSUME NEW n \in accepted'
        PROVE  \/ n \in file \cup (registry \ broken) \cup lost
               \/ n = verifying /\ query'[n][ClientUser].pc = "ok"
    <3>1. CASE n \in accepted
      <4>1. n \in Messengers /\ ClientUser \in Queries
            BY <3>1, StartUpAssumption DEF StartUpAssumption, TypeOK
      <4>2. CASE n = m /\ q = ClientUser
            BY <2>e, <3>1, <4>2 DEF SavedInv, Running
      <4>3. CASE n # m \/ q # ClientUser
            BY <2>e, <3>1, <4>1, <4>3 DEF SavedInv
      <4> QED
          BY <4>2, <4>3
    <3>2. CASE n \notin accepted
      <4>1. n = m /\ query'[m][q].pc = "ok"
            BY <2>e, <3>2
      <4>2. \/ m = verifying /\ q = ClientUser
            \/ m \in registry
            BY <2>e DEF AskedInv
      <4> QED
          BY <4>1, <4>2 DEF SavedInv
    <3> QED
        BY <3>1, <3>2
  <2> QED
      BY <2>e, <2>1 DEF SavedInv
<1>9. CASE UNCHANGED vars
      BY <1>9 DEF vars, app, disk, SavedInv
<1> QED
    BY <1>1, <1>2, <1>3, <1>4, <1>5, <1>6, <1>7, <1>8, <1>9 DEF Next, AppStep

-----------------------------------------------------------------------------
(* Every variable of the start-up keeps its type; no question polls the    *)
(* gateway more often than poll_gateway_until allows.                      *)
THEOREM StartUpTypeOK == Spec => []TypeOK
<1> QED
    BY TypeOKInit, TypeOKStep, PTL DEF Spec

(* A password is exchanged once however many callers of ensure_token meet, *)
(* whatever the exchange brings (interface/discord/src/lib.rs:307-337).    *)
THEOREM StartUpOneExchange == Spec => []OneExchange
<1>1. Init => TypeOK /\ AskedInv /\ ExchangeInv
      BY TypeOKInit, AskedInit, ExchangeInit
<1>2. TypeOK /\ AskedInv /\ ExchangeInv /\ [Next]_vars => (TypeOK /\ AskedInv /\ ExchangeInv)'
      BY TypeOKStep, AskedStep, ExchangeStep
<1>3. ExchangeInv => OneExchange
      BY DEF ExchangeInv, OneExchange
<1> QED
    BY <1>1, <1>2, <1>3, PTL DEF Spec

(* Registry and LoginInfo hold only messengers that have answered, and     *)
(* what is left of one in whose line the app was killed; and a login that  *)
(* answered stays in one of them unless a kill before its line was whole,  *)
(* or a load that did not get to it, has lost it: for any kills, at any    *)
(* write (record_v2/src/main.rs:263-288, auth.rs:13-63).                   *)
THEOREM StartUpCommitVerified == Spec => []CommitVerified
<1> DEFINE I == TypeOK /\ AskedInv /\ TokenInv /\ AcceptedInv /\ SavedInv
<1>1. Init => I
      BY TypeOKInit, AskedInit, TokenInit, AcceptedInit, SavedInit
<1>2. I /\ [Next]_vars => I'
      BY TypeOKStep, AskedStep, TokenStep, AcceptedStep, SavedStep
<1>3. I => CommitVerified
      BY DEF TokenInv, AcceptedInv, SavedInv, CommitVerified, LoginsVerified, LoginsKept
<1> HIDE DEF I
<1> QED
    BY <1>1, <1>2, <1>3, PTL DEF Spec

-----------------------------------------------------------------------------
(* OPTIMISTIC SENDS                                                        *)

(* Sequences as the sets they list.                                        *)
LEMMA NothingListed == ToSet(<<>>) = {} /\ IsInjective(<<>>)
BY DEF ToSet, IsInjective

(* push adds to the set, and keeps the list free of repeats if the entry   *)
(* is new.                                                                 *)
LEMMA AppendLists ==
    ASSUME NEW S, NEW q \in Seq(S), NEW e \in S
    PROVE  /\ Append(q, e) \in Seq(S) /\ Len(Append(q, e)) = Len(q) + 1
           /\ ToSet(Append(q, e)) = ToSet(q) \cup {e}
           /\ IsInjective(q) /\ e \notin ToSet(q) => IsInjective(Append(q, e))
<1> DEFINE n == Len(q)
           a == Append(q, e)
<1>1. /\ n \in Nat /\ DOMAIN q = 1 .. n /\ DOMAIN a = 1 .. n + 1 /\ a[n + 1] = e
      /\ \A i \in 1 .. n : a[i] = q[i] /\ i \in 1 .. n + 1
      /\ \A i \in 1 .. n + 1 : i \in 1 .. n \/ i = n + 1
  BY SMT
<1> HIDE DEF n, a
<1>2. n + 1 \in 1 .. n + 1
  BY <1>1
<1>3. ToSet(a) = ToSet(q) \cup {e}
  <2>1. \A x : x \in ToSet(a) <=> \E i \in 1 .. n + 1 : x = a[i]
    BY <1>1 DEF ToSet
  <2>2. \A x : x \in ToSet(q) <=> \E i \in 1 .. n : x = q[i]
    BY <1>1 DEF ToSet
  <2>3. QED
    BY <1>1, <1>2, <2>1, <2>2
<1>4. IsInjective(q) /\ e \notin ToSet(q) => IsInjective(a)
  BY <1>1 DEF IsInjective, ToSet
<1>5. a \in Seq(S) /\ Len(a) = n + 1
  BY DEF a, n
<1>6. QED
  BY <1>3, <1>4, <1>5 DEF a, n

(* remove of the first takes an entry of the list away.                    *)
LEMMA TailLists ==
    ASSUME NEW S, NEW q \in Seq(S), q # <<>>
    PROVE  /\ Tail(q) \in Seq(S) /\ Len(Tail(q)) = Len(q) - 1
           /\ Head(q) \in S /\ Head(q) \in ToSet(q) /\ ToSet(Tail(q)) \subseteq ToSet(q)
<1> DEFINE n == Len(q)
           a == Tail(q)
           h == Head(q)
<1>1. /\ n \in Nat /\ DOMAIN q = 1 .. n /\ DOMAIN a = 1 .. n - 1 /\ h = q[1] /\ 1 \in 1 .. n
      /\ \A i \in 1 .. n - 1 : a[i] = q[i + 1] /\ i + 1 \in 1 .. n
      /\ h \in S /\ a \in Seq(S) /\ Len(a) = n - 1
  BY SMT
<1> HIDE DEF n, a, h
<1>2. h \in ToSet(q) /\ ToSet(a) \subseteq ToSet(q)
  BY <1>1 DEF ToSet
<1>3. QED
  BY <1>1, <1>2 DEF a, n, h

(* A bubble that becomes a message leaves the set and the message enters;  *)
(* no repeat comes of it unless the message was there.                     *)
LEMMA SubstituteLists ==
    ASSUME NEW S, NEW q \in Seq(S), NEW old, NEW new \in S
    PROVE  /\ Substitute(q, old, new) \in Seq(S)
           /\ ToSet(Substitute(q, old, new)) =
                 IF old \in ToSet(q) THEN (ToSet(q) \ {old}) \cup {new} ELSE ToSet(q)
           /\ IsInjective(q) /\ (old \in ToSet(q) => new \notin ToSet(q))
                 => IsInjective(Substitute(q, old, new))
<1> DEFINE n == Len(q)
           a == Substitute(q, old, new)
<1>1. /\ n \in Nat /\ DOMAIN q = 1 .. n /\ DOMAIN a = 1 .. n
      /\ \A i \in 1 .. n : q[i] \in S /\ a[i] = IF q[i] = old THEN new ELSE q[i]
  BY DEF Substitute
<1>2. a \in Seq(S)
  <2>1. a = [i \in 1 .. n |-> IF q[i] = old THEN new ELSE q[i]]
    BY <1>1 DEF Substitute
  <2>2. a \in [1 .. n -> S]
    BY <1>1, <2>1
  <2>3. QED
    BY <1>1, <2>2
<1> HIDE DEF n, a
<1>3. \A x : x \in ToSet(a) <=> \E i \in 1 .. n : x = a[i]
  BY <1>1 DEF ToSet
<1>4. \A x : x \in ToSet(q) <=> \E i \in 1 .. n : x = q[i]
  BY <1>1 DEF ToSet
<1>5. ToSet(a) = IF old \in ToSet(q) THEN (ToSet(q) \ {old}) \cup {new} ELSE ToSet(q)
  <2>1. CASE old \in ToSet(q)
    <3>1. \A x : x \in ToSet(a) => x = new \/ (x \in ToSet(q) /\ x # old)
      BY <1>1, <1>3, <1>4
    <3>2. \A x : x \in ToSet(q) /\ x # old => x \in ToSet(a)
      BY <1>1, <1>3, <1>4
    <3>3. new \in ToSet(a)
      BY <1>1, <1>3, <1>4, <2>1
    <3>4. ToSet(a) = (ToSet(q) \ {old}) \cup {new}
      BY <3>1, <3>2, <3>3
    <3>5. QED
      BY <2>1, <3>4
  <2>2. CASE old \notin ToSet(q)
    <3>1. \A i \in 1 .. n : a[i] = q[i]
      BY <1>1, <1>4, <2>2
    <3>2. ToSet(a) = ToSet(q)
      BY <1>3, <1>4, <3>1
    <3>3. QED
      BY <2>2, <3>2
  <2>3. QED
    BY <2>1, <2>2
<1>6. IsInjective(q) /\ (old \in ToSet(q) => new \notin ToSet(q)) => IsInjective(a)
  <2> SUFFICES ASSUME IsInjective(q), old \in ToSet(q) => new \notin ToSet(q),
                      NEW i \in 1 .. n, NEW j \in 1 .. n, a[i] = a[j]
               PROVE  i = j
    BY <1>1 DEF IsInjective
  <2>1. q[i] = q[j]
    BY <1>1, <1>4
  <2>2. QED
    BY <1>1, <2>1 DEF IsInjective
<1>7. QED
  BY <1>2, <1>5, <1>6 DEF a

(* retain takes exactly one entry out of the set, and brings no repeats.   *)
LEMMA WithoutLists ==
    ASSUME NEW S, NEW q \in Seq(S), NEW e
    PROVE  /\ Without(q, e) \in Seq(S) /\ ToSet(Without(q, e)) = ToSet(q) \ {e}
           /\ IsInjective(q) => IsInjective(Without(q, e))
<1> DEFINE K == Staying(q, e)
           n == Cardinality(K)
           Before(i) == {j \in K : j <= i}
           rank == [i \in K |-> Cardinality(Before(i))]
           place == [m \in 1 .. n |-> CHOOSE i \in K : Cardinality(Before(i)) = m]
           a == Without(q, e)
<1>1. /\ K \in SUBSET (1 .. Len(q)) /\ Len(q) \in Nat /\ DOMAIN q = 1 .. Len(q)
      /\ \A i \in DOMAIN q : q[i] \in S
  BY DEF Staying
<1>2. IsFiniteSet(K) /\ n \in Nat
  <2>1. IsFiniteSet(1 .. Len(q))
    BY <1>1, FS_Interval
  <2>2. IsFiniteSet(K)
    BY <1>1, <2>1, FS_Subset
  <2>3. QED
    BY <2>2, FS_CardinalityType
<1>3. a = [m \in 1 .. n |-> q[place[m]]]
  BY DEF Without
<1>4. \A i \in K : i \in Nat
  BY <1>1
<1>5. \A i \in K : i \in DOMAIN q /\ q[i] # e
  BY DEF Staying
<1>6. \A i \in DOMAIN q : q[i] # e => i \in K
  BY DEF Staying
<1> HIDE DEF K, a
<1>7. ASSUME NEW i \in K
      PROVE  Cardinality(Before(i)) \in 1 .. n
  <2>1. Before(i) \in SUBSET K /\ i \in Before(i)
    BY <1>4
  <2> DEFINE B == Before(i)
  <2> HIDE DEF B
  <2>2. B \in SUBSET K /\ B # {}
    BY <2>1 DEF B
  <2>3. IsFiniteSet(B) /\ Cardinality(B) <= n
    BY <1>2, <2>2, FS_Subset
  <2>4. Cardinality(B) \in Nat /\ Cardinality(B) # 0
    BY <2>2, <2>3, FS_CardinalityType, FS_EmptySet
  <2>5. Cardinality(B) \in 1 .. n
    BY <1>2, <2>3, <2>4
  <2>6. QED
    BY <2>5 DEF B
<1>8. ASSUME NEW i \in K, NEW j \in K, Cardinality(Before(i)) = Cardinality(Before(j)), i < j
      PROVE  FALSE
  <2> DEFINE B == Before(i)
             C == Before(j)
  <2>1. B \in SUBSET C /\ C \in SUBSET K /\ j \in C /\ j \notin B
    BY <1>4, <1>8
  <2> HIDE DEF B, C
  <2>2. IsFiniteSet(C)
    BY <1>2, <2>1, FS_Subset
  <2>3. Cardinality(C) = Cardinality(B)
    BY <1>8 DEF B, C
  <2>4. C = B
    BY <2>1, <2>2, <2>3, FS_Subset
  <2>5. QED
    BY <2>1, <2>4
<1>9. rank \in Injection(K, 1 .. n)
  <2>1. rank \in [K -> 1 .. n]
    BY <1>7
  <2>2. IsInjective(rank)
    <3> SUFFICES ASSUME NEW i \in K, NEW j \in K, rank[i] = rank[j] PROVE i = j
      BY DEF IsInjective
    <3>1. Cardinality(Before(i)) = Cardinality(Before(j))
      OBVIOUS
    <3> HIDE DEF Before
    <3>2. ~(i < j) /\ ~(j < i)
      BY <1>8, <3>1
    <3>3. QED
      BY <1>4, <3>2
  <2>3. QED
    BY <2>1, <2>2 DEF Injection
<1>10. IsFiniteSet(1 .. n) /\ Cardinality(1 .. n) = n
  BY <1>2, FS_Interval
<1>11. rank \in Surjection(K, 1 .. n)
  <2> HIDE DEF rank
  <2>1. QED
    BY <1>2, <1>9, <1>10, FS_Injection
<1>12. \A m \in 1 .. n : \E i \in K : Cardinality(Before(i)) = m
  BY <1>11 DEF Surjection
<1>13. \A m \in 1 .. n : place[m] \in K /\ Cardinality(Before(place[m])) = m
  <2> HIDE DEF Before, n
  <2>1. QED
    BY <1>12
<1>14. \A i \in K : \E m \in 1 .. n : place[m] = i
  <2> TAKE i \in K
  <2> DEFINE m == Cardinality(Before(i))
  <2>1. m \in 1 .. n
    BY <1>7
  <2>2. place[m] \in K /\ Cardinality(Before(place[m])) = m
    BY <1>13, <2>1
  <2> HIDE DEF place, Before
  <2>3. ~(place[m] < i) /\ ~(i < place[m])
    BY <1>8, <2>2
  <2>4. place[m] = i
    BY <1>4, <2>2, <2>3
  <2>5. QED
    BY <2>1, <2>4
<1> HIDE DEF place, Before, rank, n
<1>15. a \in Seq(S)
  <2>1. a \in [1 .. n -> S]
    BY <1>1, <1>3, <1>5, <1>13
  <2>2. QED
    BY <1>2, <2>1
<1>16. ToSet(a) = ToSet(q) \ {e}
  <2>1. \A x : x \in ToSet(a) <=> \E m \in 1 .. n : x = q[place[m]]
    BY <1>3 DEF ToSet
  <2>2. \A x : x \in ToSet(q) <=> \E i \in DOMAIN q : x = q[i]
    BY DEF ToSet
  <2>3. QED
    BY <1>5, <1>6, <1>13, <1>14, <2>1, <2>2
<1>17. IsInjective(q) => IsInjective(a)
  <2> SUFFICES ASSUME IsInjective(q), NEW m \in 1 .. n, NEW k \in 1 .. n, a[m] = a[k]
               PROVE  m = k
    BY <1>3 DEF IsInjective
  <2>1. q[place[m]] = q[place[k]]
    BY <1>3
  <2>2. place[m] = place[k]
    BY <1>5, <1>13, <2>1 DEF IsInjective
  <2>3. QED
    BY <1>13, <2>2
<1>18. QED
  BY <1>15, <1>16, <1>17 DEF a

-----------------------------------------------------------------------------
(* The server stores a message once, and dispatches what it has stored.    *)
ServerInv ==
    /\ IsInjective(server)
    /\ ToSet(wire) \subseteq ToSet(server) /\ consumed \subseteq ToSet(server)
    /\ \A s \in Sends : /\ spc[s] \in {"new", "posting"} => s \notin ToSet(server)
                        /\ spc[s] = "answered" => s \in ToSet(server)

(* The lists show what the server has.                                     *)
ListInv ==
    /\ ToSet(page) \subseteq {Msg(m) : m \in ToSet(server)} /\ IsInjective(page)
    /\ \A m \in Messages : Shown(Msg(m)) => m \in ToSet(server)

(* A page has every message processed before it was answered.              *)
GapInv ==
    /\ fpc # "idle" => chatOpen
    /\ fpc # "answered" => gap = {}
    /\ fpc = "answered" => \A m \in consumed \ gap : Msg(m) \in ToSet(page)

(* If sends come one at a time: the bubble and the entry in pending_sends  *)
(* come and go together, and what is on the wire then is not shown yet.    *)
SoloInv ==
    ~mixed =>
        /\ IsInjective(view)
        /\ \A s, t \in Sends : InFlight(s) /\ InFlight(t) => s = t
        /\ pendingSends = <<>> \/ \E s \in Sends : pendingSends = <<s>> /\ InFlight(s)
        /\ \A s \in Sends : Shown(Bubble(s)) => s \in ToSet(pendingSends)
        /\ \A s \in ToSet(pendingSends) : ~Shown(Msg(s))
        /\ pendingSends # <<>> => \A m \in ToSet(wire) : ~Shown(Msg(m))

(* The inductive invariant of the sends of a room.                         *)
PendingInv == PTypeOK /\ NoGhosts /\ ConsumedShown /\ ServerInv /\ ListInv /\ GapInv /\ SoloInv

(* Bubbles and messages are never mistaken for each other.                 *)
LEMMA EntryFacts ==
    /\ \A s \in Sends : Bubble(s) \in Entries
    /\ \A m \in Messages : Msg(m) \in Entries
    /\ \A s, m : Bubble(s) # Msg(m)
    /\ \A s, t : Bubble(s) = Bubble(t) => s = t
    /\ \A m, k : Msg(m) = Msg(k) => m = k
    /\ Sends \subseteq Messages /\ Others \subseteq Messages
BY DEF Bubble, Msg, Entries, Messages

(* It holds at first.                                                      *)
LEMMA PendingInit ==
    ASSUME PInit
    PROVE  PendingInv
<1> USE NothingListed DEF PInit
<1>1. PTypeOK
  <2>1. spc \in [Sends -> {"new", "posting", "answered", "failed", "settled"}]
    OBVIOUS
  <2>2. view \in Seq(Entries) /\ pendingSends \in Seq(Sends) /\ server \in Seq(Messages)
        /\ wire \in Seq(Messages) /\ page \in Seq(Entries)
    OBVIOUS
  <2>3. QED
    BY <2>1, <2>2 DEF PTypeOK
<1>2. NoGhosts /\ ConsumedShown /\ ServerInv /\ ListInv /\ GapInv
  BY DEF NoGhosts, ConsumedShown, ServerInv, ListInv, GapInv, Shown
<1>3. SoloInv
  BY DEF SoloInv, Shown, InFlight
<1>4. QED
  BY <1>1, <1>2, <1>3 DEF PendingInv

(* What MessageCreated makes of the list.                                  *)
LEMMA WithMessageLists ==
    ASSUME PTypeOK, NEW m \in Messages
    PROVE  /\ WithMessage(m) \in Seq(Entries)
           /\ Msg(m) \in ToSet(WithMessage(m))
           /\ ToSet(WithMessage(m)) \subseteq ToSet(view) \cup {Msg(m)}
           /\ \A k : Msg(k) \in ToSet(view) => Msg(k) \in ToSet(WithMessage(m))
           /\ pendingSends # <<>> => Bubble(Head(pendingSends)) \notin ToSet(WithMessage(m))
           /\ IsInjective(view) /\ (pendingSends # <<>> => Msg(m) \notin ToSet(view))
                 => IsInjective(WithMessage(m))
<1> DEFINE e == Msg(m)
           b == Bubble(Head(pendingSends))
           sub == Substitute(view, b, e)
           add == Append(view, e)
           w == WithMessage(m)
<1>1. /\ e \in Entries /\ view \in Seq(Entries) /\ b # e
      /\ \A k : Msg(k) # b
  BY EntryFacts DEF PTypeOK
<1> HIDE DEF e, b
<1>2. /\ sub \in Seq(Entries)
      /\ ToSet(sub) = IF b \in ToSet(view) THEN (ToSet(view) \ {b}) \cup {e} ELSE ToSet(view)
      /\ IsInjective(view) /\ (b \in ToSet(view) => e \notin ToSet(view)) => IsInjective(sub)
  BY <1>1, SubstituteLists
<1>3. /\ add \in Seq(Entries) /\ ToSet(add) = ToSet(view) \cup {e}
      /\ IsInjective(view) /\ e \notin ToSet(view) => IsInjective(add)
  BY <1>1, AppendLists
<1>4. w = IF pendingSends # <<>>
          THEN IF b \in ToSet(view) THEN sub ELSE add
          ELSE IF e \in ToSet(view) THEN view ELSE add
  BY DEF WithMessage, Shown, b, e
<1> HIDE DEF sub, add, w
<1>5. CASE pendingSends # <<>> /\ b \in ToSet(view)
  BY <1>1, <1>2, <1>4, <1>5 DEF w, e, b
<1>6. CASE pendingSends # <<>> /\ b \notin ToSet(view)
  BY <1>1, <1>3, <1>4, <1>6 DEF w, e, b
<1>7. CASE pendingSends = <<>> /\ e \in ToSet(view)
  BY <1>1, <1>4, <1>7 DEF w, e
<1>8. CASE pendingSends = <<>> /\ e \notin ToSet(view)
  BY <1>1, <1>3, <1>4, <1>8 DEF w, e
<1>9. QED
  BY <1>5, <1>6, <1>7, <1>8

(* What ConfirmPending and RemovePending make of it.                       *)
LEMMA SettledLists ==
    ASSUME PTypeOK, NEW s \in Sends,
           NEW v \in {Substitute(view, Bubble(s), Msg(s)), Without(view, Bubble(s))}
    PROVE  /\ v \in Seq(Entries) /\ Bubble(s) \notin ToSet(v)
           /\ ToSet(v) \subseteq ToSet(view) \cup {Msg(s)}
           /\ \A k : Msg(k) \in ToSet(view) => Msg(k) \in ToSet(v)
           /\ IsInjective(view) /\ (Shown(Bubble(s)) => ~Shown(Msg(s))) => IsInjective(v)
<1> DEFINE e == Msg(s)
           b == Bubble(s)
<1>1. e \in Entries /\ view \in Seq(Entries) /\ b # e /\ \A k : Msg(k) # b
  BY EntryFacts DEF PTypeOK
<1>2. v = Substitute(view, b, e) \/ v = Without(view, b)
  OBVIOUS
<1> HIDE DEF e, b
<1>3. CASE v = Substitute(view, b, e)
  <2>1. /\ v \in Seq(Entries)
        /\ ToSet(v) = IF b \in ToSet(view) THEN (ToSet(view) \ {b}) \cup {e} ELSE ToSet(view)
        /\ IsInjective(view) /\ (b \in ToSet(view) => e \notin ToSet(view)) => IsInjective(v)
    BY <1>1, <1>3, SubstituteLists
  <2>2. QED
    BY <1>1, <2>1 DEF Shown, e, b
<1>4. CASE v = Without(view, b)
  <2>1. /\ v \in Seq(Entries) /\ ToSet(v) = ToSet(view) \ {b}
        /\ IsInjective(view) => IsInjective(v)
    BY <1>1, <1>4, WithoutLists
  <2>2. QED
    BY <1>1, <2>1 DEF Shown, e, b
<1>5. QED
  BY <1>2, <1>3, <1>4

-----------------------------------------------------------------------------
(* The fetch.                                                              *)
LEMMA FetchInv ==
    ASSUME PendingInv, OpenChat \/ AnswerFetch \/ FetchFails \/ UpdateChat
    PROVE  PendingInv'
<1>1. PTypeOK /\ NoGhosts /\ ConsumedShown /\ ServerInv /\ ListInv /\ GapInv /\ SoloInv
  BY DEF PendingInv
<1>2. ASSUME UNCHANGED <<server, wire, spc, consumed>> PROVE ServerInv'
  BY <1>1, <1>2 DEF ServerInv
<1>3. ASSUME UNCHANGED <<view, spc, pendingSends>> PROVE NoGhosts'
  BY <1>1, <1>3 DEF NoGhosts, Shown, InFlight
<1>4. ASSUME UNCHANGED <<view, consumed, missed>> PROVE ConsumedShown'
  BY <1>1, <1>4 DEF ConsumedShown, Shown
<1>5. ASSUME UNCHANGED <<view, spc, pendingSends, wire, mixed>> PROVE SoloInv'
  BY <1>1, <1>5 DEF SoloInv, Shown, InFlight
<1>6. CASE OpenChat
  <2>1. /\ ~chatOpen /\ chatOpen' = TRUE /\ fpc' \in {"idle", "asked"}
        /\ UNCHANGED <<view, fetched, pendingSends, spc, server, wire, page, consumed, gap,
                       missed, mixed>>
    BY <1>6 DEF OpenChat, history
  <2>2. PTypeOK'
    BY <1>1, <2>1 DEF PTypeOK
  <2>3. ListInv'
    BY <1>1, <2>1 DEF ListInv, Shown
  <2>4. GapInv'
    BY <1>1, <2>1 DEF GapInv
  <2>5. QED
    BY <1>2, <1>3, <1>4, <1>5, <2>1, <2>2, <2>3, <2>4 DEF PendingInv
<1>7. CASE AnswerFetch
  <2>1. /\ fpc = "asked" /\ fpc' = "answered" /\ page' = [i \in DOMAIN server |-> Msg(server[i])]
        /\ UNCHANGED <<chatOpen, view, fetched, pendingSends, spc, server, wire, consumed, gap,
                       missed, mixed>>
    BY <1>7 DEF AnswerFetch, history
  <2>2. server \in Seq(Messages) /\ IsInjective(server)
    BY <1>1 DEF PTypeOK, ServerInv
  <2>3. page' \in Seq(Entries)
    <3>1. \A i \in 1 .. Len(server) : Msg(server[i]) \in Entries
      BY <2>2, EntryFacts
    <3>2. page' \in [1 .. Len(server) -> Entries]
      BY <2>1, <2>2, <3>1
    <3>3. QED
      BY <2>2, <3>2
  <2>4. DOMAIN page' = DOMAIN server /\ \A i \in DOMAIN server : page'[i] = Msg(server[i])
    BY <2>1
  <2>5. ToSet(page') = {Msg(m) : m \in ToSet(server)}
    BY <2>4 DEF ToSet
  <2>6. IsInjective(page')
    BY <2>2, <2>4, EntryFacts DEF IsInjective
  <2>7. PTypeOK'
    BY <1>1, <2>1, <2>3 DEF PTypeOK
  <2>8. ListInv'
    BY <1>1, <2>1, <2>5, <2>6 DEF ListInv, Shown
  <2>9. GapInv'
    BY <1>1, <2>1, <2>5 DEF GapInv, ServerInv
  <2>10. QED
    BY <1>2, <1>3, <1>4, <1>5, <2>1, <2>7, <2>8, <2>9 DEF PendingInv
<1>8. CASE FetchFails
  <2>1. /\ fpc' = "idle" /\ page' = <<>> /\ gap' = {}
        /\ UNCHANGED <<chatOpen, view, fetched, pendingSends, spc, server, wire, consumed,
                       missed, mixed>>
    BY <1>8 DEF FetchFails
  <2>2. PTypeOK'
    BY <1>1, <2>1 DEF PTypeOK
  <2>3. ListInv'
    BY <1>1, <2>1, NothingListed DEF ListInv, Shown
  <2>4. GapInv'
    BY <2>1 DEF GapInv
  <2>5. QED
    BY <1>2, <1>3, <1>4, <1>5, <2>1, <2>2, <2>3, <2>4 DEF PendingInv
<1>9. CASE UpdateChat
  <2>1. /\ fpc = "answered" /\ view' = page /\ fetched' = TRUE /\ fpc' = "idle" /\ page' = <<>>
        /\ missed' = missed \cup gap /\ gap' = {}
        /\ mixed' = (mixed \/ \E s \in Sends : InFlight(s))
        /\ UNCHANGED <<chatOpen, pendingSends, spc, server, wire, consumed>>
    BY <1>9 DEF UpdateChat
  <2>2. PTypeOK'
    BY <1>1, <2>1 DEF PTypeOK
  <2>3. \A s \in Sends : Bubble(s) \notin ToSet(page)
    BY <1>1, EntryFacts DEF ListInv
  <2>4. \A m \in Messages : Msg(m) \in ToSet(page) => m \in ToSet(server)
    BY <1>1, EntryFacts DEF ListInv
  <2>5. NoGhosts'
    BY <1>1, <2>1, <2>3 DEF NoGhosts, Shown, InFlight
  <2>6. ConsumedShown'
    BY <1>1, <2>1 DEF ConsumedShown, Shown, GapInv
  <2>7. ListInv'
    BY <1>1, <2>1, <2>4, NothingListed DEF ListInv, Shown
  <2>8. GapInv'
    BY <2>1 DEF GapInv
  <2>9. SoloInv'
    <3>1. SUFFICES ASSUME ~mixed' PROVE SoloInv'
      BY DEF SoloInv
    <3>2. ~mixed /\ \A s \in Sends : ~InFlight(s)
      BY <1>1, <2>1, <3>1 DEF PTypeOK
    <3>3. pendingSends = <<>>
      BY <1>1, <3>2 DEF SoloInv
    <3>4. /\ \A s \in Sends : ~InFlight(s)'
          /\ IsInjective(view') /\ pendingSends' = <<>> /\ \A s \in Sends : ~Shown(Bubble(s))'
      BY <1>1, <2>1, <2>3, <3>2, <3>3 DEF InFlight, Shown, ListInv
    <3>5. QED
      BY <3>4, NothingListed DEF SoloInv
  <2>10. QED
    BY <1>2, <2>1, <2>2, <2>5, <2>6, <2>7, <2>8, <2>9 DEF PendingInv
<1>10. QED
  BY <1>6, <1>7, <1>8, <1>9

-----------------------------------------------------------------------------
(* Send.                                                                   *)
LEMMA SendInv ==
    ASSUME PendingInv, NEW s \in Sends, Send(s)
    PROVE  PendingInv'
<1>1. PTypeOK /\ NoGhosts /\ ConsumedShown /\ ServerInv /\ ListInv /\ GapInv /\ SoloInv
  BY DEF PendingInv
<1>2. /\ spc[s] = "new" /\ pendingSends' = Append(pendingSends, s)
      /\ view' = Append(view, Bubble(s))
      /\ fetched' = TRUE /\ spc' = [spc EXCEPT ![s] = "posting"]
      /\ mixed' = (mixed \/ wire # <<>> \/ \E t \in Sends : InFlight(t))
      /\ UNCHANGED <<chatOpen, server, wire, fpc, page, consumed, gap, missed>>
  BY DEF Send
<1> DEFINE b == Bubble(s)
           v == Append(view, b)
           q == Append(pendingSends, s)
<1>3. b \in Entries /\ (\A m : Msg(m) # b) /\ \A t \in Sends : Bubble(t) = b => t = s
  BY EntryFacts
<1> HIDE DEF b
<1>4. /\ v \in Seq(Entries) /\ ToSet(v) = ToSet(view) \cup {b}
      /\ IsInjective(view) /\ b \notin ToSet(view) => IsInjective(v)
  BY <1>1, <1>3, AppendLists DEF PTypeOK
<1>5. q \in Seq(Sends) /\ ToSet(q) = ToSet(pendingSends) \cup {s}
  BY <1>1, AppendLists DEF PTypeOK
<1>6. view' = v /\ pendingSends' = q
  BY <1>2 DEF b
<1>7. b \notin ToSet(view) /\ ~InFlight(s)
  BY <1>1, <1>2 DEF NoGhosts, InFlight, Shown, b
<1>8. /\ spc \in [Sends -> {"new", "posting", "answered", "failed", "settled"}]
      /\ spc'[s] = "posting" /\ \A t \in Sends : t # s => spc'[t] = spc[t]
  BY <1>1, <1>2 DEF PTypeOK
<1>9. InFlight(s)' /\ \A t \in Sends : t # s => InFlight(t)' = InFlight(t)
  BY <1>8 DEF InFlight
<1>10. ASSUME pendingSends = <<>> PROVE q = <<s>>
  BY <1>10
<1> HIDE DEF v, q
<1>11. PTypeOK'
  BY <1>1, <1>2, <1>4, <1>5, <1>6 DEF PTypeOK
<1>12. NoGhosts'
  BY <1>1, <1>3, <1>4, <1>5, <1>6, <1>9 DEF NoGhosts, Shown
<1>13. ConsumedShown'
  BY <1>1, <1>2, <1>4, <1>6 DEF ConsumedShown, Shown
<1>14. ServerInv'
  BY <1>1, <1>2, <1>8 DEF ServerInv
<1>15. ListInv'
  BY <1>1, <1>2, <1>3, <1>4, <1>6 DEF ListInv, Shown
<1>16. GapInv'
  BY <1>1, <1>2 DEF GapInv
<1>17. SoloInv'
  <2>1. SUFFICES ASSUME ~mixed' PROVE SoloInv'
    BY DEF SoloInv
  <2>2. ~mixed /\ wire = <<>> /\ \A t \in Sends : ~InFlight(t)
    BY <1>1, <1>2, <2>1 DEF PTypeOK
  <2>3. pendingSends = <<>> /\ IsInjective(view)
    BY <1>1, <2>2 DEF SoloInv
  <2>4. pendingSends' = <<s>> /\ ToSet(pendingSends') = {s}
    BY <1>5, <1>6, <1>10, <2>3, NothingListed
  <2>5. IsInjective(view')
    BY <1>4, <1>6, <1>7, <2>3
  <2>6. \A t \in Sends : InFlight(t)' => t = s
    BY <1>9, <2>2
  <2>7. \A t \in Sends : Shown(Bubble(t))' => t = s
    BY <1>1, <1>3, <1>4, <1>6, <2>2 DEF Shown, NoGhosts
  <2>8. ~Shown(Msg(s))'
    <3>1. s \notin ToSet(server) /\ s \in Messages
      BY <1>1, <1>2, EntryFacts DEF ServerInv
    <3>2. ~Shown(Msg(s))
      BY <1>1, <3>1 DEF ListInv
    <3>3. QED
      BY <1>3, <1>4, <1>6, <3>2 DEF Shown
  <2>9. ToSet(wire') = {}
    BY <1>2, <2>2, NothingListed
  <2>10. QED
    BY <1>9, <2>4, <2>5, <2>6, <2>7, <2>8, <2>9 DEF SoloInv
<1>18. QED
  BY <1>11, <1>12, <1>13, <1>14, <1>15, <1>16, <1>17 DEF PendingInv

-----------------------------------------------------------------------------
(* The server.                                                             *)
LEMMA PostInv ==
    ASSUME PendingInv, NEW m \in Messages, m \notin ToSet(server), Post(m),
           \A t \in Sends : InFlight(t)' = InFlight(t),
           \A t \in Sends : spc'[t] \in {"new", "posting"} =>
                               spc[t] \in {"new", "posting"} /\ t # m,
           \A t \in Sends : spc'[t] = "answered" => spc[t] = "answered" \/ t = m,
           spc' \in [Sends -> {"new", "posting", "answered", "failed", "settled"}],
           UNCHANGED <<chatOpen, view, fetched, pendingSends, fpc, page, consumed, gap, missed,
                       mixed>>
    PROVE  PendingInv'
<1>1. PTypeOK /\ NoGhosts /\ ConsumedShown /\ ServerInv /\ ListInv /\ GapInv /\ SoloInv
  BY DEF PendingInv
<1> DEFINE S == Append(server, m)
           W == Append(wire, m)
<1>2. server' = S /\ wire' = W
  BY DEF Post
<1>3. /\ S \in Seq(Messages) /\ ToSet(S) = ToSet(server) \cup {m}
      /\ IsInjective(server) => IsInjective(S)
      /\ W \in Seq(Messages) /\ ToSet(W) = ToSet(wire) \cup {m}
  BY <1>1, AppendLists DEF PTypeOK
<1> HIDE DEF S, W
<1>4. PTypeOK'
  BY <1>1, <1>2, <1>3 DEF PTypeOK
<1>5. NoGhosts' /\ ConsumedShown'
  BY <1>1 DEF NoGhosts, ConsumedShown, Shown
<1>6. ServerInv'
  BY <1>1, <1>2, <1>3 DEF ServerInv
<1>7. ListInv'
  BY <1>1, <1>2, <1>3 DEF ListInv, Shown
<1>8. GapInv'
  BY <1>1 DEF GapInv
<1>9. SoloInv'
  <2>1. SUFFICES ASSUME ~mixed' PROVE SoloInv'
    BY DEF SoloInv
  <2>2. ~Shown(Msg(m))
    BY <1>1 DEF ListInv
  <2>3. pendingSends' # <<>> => \A k \in ToSet(wire') : ~Shown(Msg(k))'
    BY <1>1, <1>2, <1>3, <2>1, <2>2 DEF SoloInv, Shown
  <2>4. QED
    BY <1>1, <2>1, <2>3 DEF SoloInv, Shown
<1>10. QED
  BY <1>4, <1>5, <1>6, <1>7, <1>8, <1>9 DEF PendingInv

(* The server takes the message of a send, or of somebody else,            *)
LEMMA AcceptInv ==
    ASSUME PendingInv, NEW s \in Sends, Accept(s)
    PROVE  PendingInv'
<1>1. PICK answer \in {"answered", "failed"} : spc' = [spc EXCEPT ![s] = answer]
  BY DEF Accept
<1>2. /\ spc[s] = "posting" /\ Post(s)
      /\ UNCHANGED <<chatOpen, view, fetched, pendingSends, fpc, page, consumed, gap, missed,
                     mixed>>
  BY DEF Accept, history
<1>3. /\ spc \in [Sends -> {"new", "posting", "answered", "failed", "settled"}]
      /\ s \notin ToSet(server) /\ s \in Messages
  BY <1>2, EntryFacts DEF PendingInv, PTypeOK, ServerInv
<1>4. /\ spc' \in [Sends -> {"new", "posting", "answered", "failed", "settled"}]
      /\ spc'[s] \in {"answered", "failed"} /\ \A t \in Sends : t # s => spc'[t] = spc[t]
  BY <1>1, <1>3
<1>5. \A t \in Sends : InFlight(t)' = InFlight(t)
  BY <1>2, <1>4 DEF InFlight
<1>6. QED
  BY <1>2, <1>3, <1>4, <1>5, PostInv

(* which nobody has been waiting for,                                      *)
LEMMA OtherPostsInv ==
    ASSUME PendingInv, NEW m \in Others, OtherPosts(m)
    PROVE  PendingInv'
<1>1. /\ m \notin ToSet(server) /\ Post(m)
      /\ UNCHANGED <<chatOpen, view, fetched, pendingSends, spc, fpc, page, consumed, gap,
                     missed, mixed>>
  BY DEF OtherPosts, history
<1>2. /\ spc \in [Sends -> {"new", "posting", "answered", "failed", "settled"}]
      /\ m \in Messages /\ \A t \in Sends : t # m
  BY EntryFacts, PendingSendsAssumption DEF PendingInv, PTypeOK, PendingSendsAssumption
<1>3. \A t \in Sends : InFlight(t)' = InFlight(t)
  BY <1>1 DEF InFlight
<1>4. QED
  BY <1>1, <1>2, <1>3, PostInv

(* or refuses it.                                                          *)
LEMMA RefuseInv ==
    ASSUME PendingInv, NEW s \in Sends, Refuse(s)
    PROVE  PendingInv'
<1>1. PTypeOK /\ NoGhosts /\ ConsumedShown /\ ServerInv /\ ListInv /\ GapInv /\ SoloInv
  BY DEF PendingInv
<1>2. /\ spc[s] = "posting" /\ spc' = [spc EXCEPT ![s] = "failed"]
      /\ UNCHANGED <<chatOpen, view, fetched, pendingSends, server, wire, fpc, page, consumed,
                     gap,
                     missed, mixed>>
  BY DEF Refuse, history
<1>3. /\ spc' \in [Sends -> {"new", "posting", "answered", "failed", "settled"}]
      /\ spc'[s] = "failed" /\ \A t \in Sends : t # s => spc'[t] = spc[t]
  BY <1>1, <1>2 DEF PTypeOK
<1>4. \A t \in Sends : InFlight(t)' = InFlight(t)
  BY <1>2, <1>3 DEF InFlight
<1>5. PTypeOK'
  BY <1>1, <1>2, <1>3 DEF PTypeOK
<1>6. NoGhosts' /\ ConsumedShown'
  BY <1>1, <1>2, <1>4 DEF NoGhosts, ConsumedShown, Shown
<1>7. ServerInv'
  BY <1>1, <1>2, <1>3 DEF ServerInv
<1>8. ListInv' /\ GapInv'
  BY <1>1, <1>2 DEF ListInv, GapInv, Shown
<1>9. SoloInv'
  BY <1>1, <1>2, <1>4 DEF SoloInv, Shown
<1>10. QED
  BY <1>5, <1>6, <1>7, <1>8, <1>9 DEF PendingInv

-----------------------------------------------------------------------------
(* The answer of the server to a send, or its error.                       *)
LEMMA SettleInv ==
    ASSUME PendingInv, NEW s \in Sends, ConfirmPending(s) \/ RemovePending(s)
    PROVE  PendingInv'
<1>1. PTypeOK /\ NoGhosts /\ ConsumedShown /\ ServerInv /\ ListInv /\ GapInv /\ SoloInv
  BY DEF PendingInv
<1>2. /\ pendingSends' = Without(pendingSends, s) /\ spc' = [spc EXCEPT ![s] = "settled"]
      /\ UNCHANGED <<chatOpen, fetched, server, wire, fpc, page, consumed, gap, missed, mixed>>
  BY DEF ConfirmPending, RemovePending, history
<1>3. /\ spc[s] \in {"answered", "failed"} /\ InFlight(s)
      /\ \/ spc[s] = "answered" /\ view' = Substitute(view, Bubble(s), Msg(s))
         \/ view' = Without(view, Bubble(s))
  BY DEF ConfirmPending, RemovePending, InFlight
<1>4. /\ spc' \in [Sends -> {"new", "posting", "answered", "failed", "settled"}]
      /\ spc'[s] = "settled" /\ \A t \in Sends : t # s => spc'[t] = spc[t]
  BY <1>1, <1>2 DEF PTypeOK
<1>5. ~InFlight(s)' /\ \A t \in Sends : t # s => InFlight(t)' = InFlight(t)
  BY <1>4 DEF InFlight
<1>6. /\ pendingSends' \in Seq(Sends) /\ ToSet(pendingSends') = ToSet(pendingSends) \ {s}
  BY <1>1, <1>2, WithoutLists DEF PTypeOK
<1> DEFINE b == Bubble(s)
           e == Msg(s)
<1>7. b # e /\ (\A m : Msg(m) # b) /\ (\A t \in Sends : Bubble(t) = b => t = s)
      /\ \A m : Msg(m) = e => m = s
  BY EntryFacts
<1>8. /\ view' \in Seq(Entries) /\ b \notin ToSet(view')
      /\ ToSet(view') \subseteq ToSet(view) \cup {e}
      /\ \A k : Msg(k) \in ToSet(view) => Msg(k) \in ToSet(view')
      /\ IsInjective(view) /\ (Shown(b) => ~Shown(e)) => IsInjective(view')
  BY <1>1, <1>3, SettledLists
<1>9. e \in ToSet(view') => e \in ToSet(view) \/ s \in ToSet(server)
  <2>1. CASE spc[s] = "answered"
    BY <1>1, <2>1 DEF ServerInv
  <2>2. CASE view' = Without(view, b)
    <3>1. ToSet(view') = ToSet(view) \ {b}
      BY <1>1, <2>2, WithoutLists DEF PTypeOK
    <3>2. QED
      BY <3>1
  <2>3. QED
    BY <1>3, <2>1, <2>2
<1> HIDE DEF b, e
<1>10. PTypeOK'
  BY <1>1, <1>2, <1>4, <1>6, <1>8 DEF PTypeOK
<1>11. NoGhosts'
  <2> SUFFICES ASSUME NEW t \in Sends, ~InFlight(t)'
               PROVE  Bubble(t) \notin ToSet(view') /\ t \notin ToSet(pendingSends')
    BY DEF NoGhosts, Shown
  <2>1. CASE t = s
    BY <1>6, <1>8, <2>1 DEF b
  <2>2. CASE t # s
    <3>1. Bubble(t) \notin ToSet(view) /\ t \notin ToSet(pendingSends)
      BY <1>1, <1>5, <2>2 DEF NoGhosts, Shown
    <3>2. Bubble(t) # e
      BY EntryFacts DEF e
    <3>3. QED
      BY <1>6, <1>8, <3>1, <3>2
  <2>3. QED
    BY <2>1, <2>2
<1>12. ConsumedShown'
  BY <1>1, <1>2, <1>8 DEF ConsumedShown, Shown
<1>13. ServerInv'
  BY <1>1, <1>2, <1>4 DEF ServerInv
<1>14. ListInv'
  <2>1. ASSUME NEW m \in Messages, Msg(m) \in ToSet(view') PROVE m \in ToSet(server)
    <3>1. CASE Msg(m) \in ToSet(view)
      BY <1>1, <3>1 DEF ListInv, Shown
    <3>2. CASE Msg(m) \notin ToSet(view)
      BY <1>7, <1>8, <1>9, <2>1, <3>2
    <3>3. QED
      BY <3>1, <3>2
  <2>2. QED
    BY <1>1, <1>2, <2>1 DEF ListInv, Shown
<1>15. GapInv'
  BY <1>1, <1>2 DEF GapInv
<1>16. SoloInv'
  <2>1. SUFFICES ASSUME ~mixed' PROVE SoloInv'
    BY DEF SoloInv
  <2>2. /\ IsInjective(view) /\ \A t, u \in Sends : InFlight(t) /\ InFlight(u) => t = u
        /\ pendingSends = <<>> \/ \E t \in Sends : pendingSends = <<t>> /\ InFlight(t)
        /\ \A t \in Sends : Shown(Bubble(t)) => t \in ToSet(pendingSends)
        /\ \A t \in ToSet(pendingSends) : ~Shown(Msg(t))
    BY <1>1, <1>2, <2>1 DEF SoloInv
  <2>3. ToSet(pendingSends') = {}
    <3>1. CASE pendingSends = <<>>
      BY <1>6, <3>1, NothingListed
    <3>2. ASSUME NEW t \in Sends, pendingSends = <<t>>, InFlight(t)
          PROVE  ToSet(pendingSends') = {}
      <4>1. t = s
        BY <1>3, <2>2, <3>2
      <4>2. ToSet(<<t>>) = {t}
        BY DEF ToSet
      <4>3. QED
        BY <1>6, <3>2, <4>1, <4>2
    <3>3. QED
      BY <2>2, <3>1, <3>2
  <2>4. pendingSends' = <<>>
    BY <1>6, <2>3 DEF ToSet
  <2>5. IsInjective(view')
    BY <1>8, <2>2 DEF b, e
  <2>6. \A t \in Sends : ~Shown(Bubble(t))'
    <3> SUFFICES ASSUME NEW t \in Sends, Bubble(t) \in ToSet(view') PROVE FALSE
      BY DEF Shown
    <3>1. t # s /\ Bubble(t) # e
      BY <1>8, EntryFacts DEF b, e
    <3>2. Shown(Bubble(t))
      BY <1>8, <3>1 DEF Shown
    <3>3. t \in ToSet(pendingSends)
      BY <2>2, <3>2
    <3>4. QED
      BY <1>6, <2>3, <3>1, <3>3
  <2>7. \A t, u \in Sends : InFlight(t)' /\ InFlight(u)' => t = u
    BY <1>5, <2>2
  <2>8. QED
    BY <2>3, <2>4, <2>5, <2>6, <2>7 DEF SoloInv
<1>17. QED
  BY <1>10, <1>11, <1>12, <1>13, <1>14, <1>15, <1>16 DEF PendingInv

-----------------------------------------------------------------------------
(* MessageCreated.                                                         *)
LEMMA ConsumeInv ==
    ASSUME PendingInv, Consume
    PROVE  PendingInv'
<1>1. PTypeOK /\ NoGhosts /\ ConsumedShown /\ ServerInv /\ ListInv /\ GapInv /\ SoloInv
  BY DEF PendingInv
<1> DEFINE m == Head(wire)
           e == Msg(m)
<1>2. /\ wire # <<>> /\ view' = WithMessage(m) /\ fetched' = TRUE
      /\ pendingSends' = IF pendingSends = <<>> THEN <<>> ELSE Tail(pendingSends)
      /\ wire' = Tail(wire) /\ consumed' = consumed \cup {m}
      /\ gap' = IF fpc = "answered" THEN gap \cup {m} ELSE gap
      /\ UNCHANGED <<chatOpen, spc, server, fpc, page, missed, mixed>>
  BY DEF Consume
<1>3. /\ m \in Messages /\ m \in ToSet(wire) /\ wire' \in Seq(Messages)
      /\ ToSet(wire') \subseteq ToSet(wire)
  BY <1>1, <1>2, TailLists DEF PTypeOK
<1> HIDE DEF m
<1>4. m \in ToSet(server)
  BY <1>1, <1>3 DEF ServerInv
<1>5. /\ view' \in Seq(Entries) /\ e \in ToSet(view')
      /\ ToSet(view') \subseteq ToSet(view) \cup {e}
      /\ \A k : Msg(k) \in ToSet(view) => Msg(k) \in ToSet(view')
      /\ pendingSends # <<>> => Bubble(Head(pendingSends)) \notin ToSet(view')
      /\ IsInjective(view) /\ (pendingSends # <<>> => e \notin ToSet(view)) => IsInjective(view')
  BY <1>1, <1>2, <1>3, WithMessageLists
<1>6. /\ \A k : Msg(k) = e => k = m
      /\ \A t : Bubble(t) # e
  BY EntryFacts
<1> HIDE DEF e
<1>7. pendingSends' \in Seq(Sends) /\ ToSet(pendingSends') \subseteq ToSet(pendingSends)
  <2>1. CASE pendingSends = <<>>
    BY <1>1, <1>2, <2>1 DEF PTypeOK
  <2>2. CASE pendingSends # <<>>
    BY <1>1, <1>2, <2>2, TailLists DEF PTypeOK
  <2>3. QED
    BY <2>1, <2>2
<1>8. PTypeOK'
  BY <1>1, <1>2, <1>3, <1>5, <1>7 DEF PTypeOK
<1>9. NoGhosts'
  BY <1>1, <1>2, <1>5, <1>6, <1>7 DEF NoGhosts, Shown, InFlight
<1>10. ConsumedShown'
  BY <1>1, <1>2, <1>5 DEF ConsumedShown, Shown, e
<1>11. ServerInv'
  BY <1>1, <1>2, <1>3, <1>4 DEF ServerInv
<1>12. ListInv'
  <2>1. ASSUME NEW k \in Messages, Msg(k) \in ToSet(view') PROVE k \in ToSet(server)
    BY <1>1, <1>4, <1>5, <1>6, <2>1 DEF ListInv, Shown
  <2>2. QED
    BY <1>1, <1>2, <2>1 DEF ListInv, Shown
<1>13. GapInv'
  BY <1>1, <1>2 DEF GapInv
<1>14. SoloInv'
  <2>1. SUFFICES ASSUME ~mixed' PROVE SoloInv'
    BY DEF SoloInv
  <2>2. /\ IsInjective(view) /\ \A t, u \in Sends : InFlight(t) /\ InFlight(u) => t = u
        /\ pendingSends = <<>> \/ \E t \in Sends : pendingSends = <<t>> /\ InFlight(t)
        /\ \A t \in Sends : Shown(Bubble(t)) => t \in ToSet(pendingSends)
        /\ pendingSends # <<>> => \A k \in ToSet(wire) : ~Shown(Msg(k))
    BY <1>1, <1>2, <2>1 DEF SoloInv
  <2>3. pendingSends' = <<>> /\ \A t \in ToSet(pendingSends) : Bubble(t) \notin ToSet(view')
    <3>1. CASE pendingSends = <<>>
      BY <1>2, <3>1, NothingListed
    <3>2. ASSUME NEW t \in Sends, pendingSends = <<t>>
          PROVE  /\ pendingSends' = <<>>
                 /\ \A u \in ToSet(pendingSends) : Bubble(u) \notin ToSet(view')
      <4>1. /\ <<t>> # <<>> /\ Head(<<t>>) = t /\ Tail(<<t>>) = <<>>
            /\ \A u \in ToSet(<<t>>) : u = t
        BY DEF ToSet
      <4>2. QED
        BY <1>2, <1>5, <3>2, <4>1
    <3>3. QED
      BY <2>2, <3>1, <3>2
  <2>4. IsInjective(view')
    BY <1>3, <1>5, <2>2 DEF Shown, e
  <2>5. \A t \in Sends : ~Shown(Bubble(t))'
    BY <1>5, <1>6, <2>2, <2>3 DEF Shown
  <2>6. \A t \in Sends : InFlight(t)' = InFlight(t)
    BY <1>2 DEF InFlight
  <2>7. QED
    BY <2>2, <2>3, <2>4, <2>5, <2>6, NothingListed DEF SoloInv
<1>15. QED
  BY <1>8, <1>9, <1>10, <1>11, <1>12, <1>13, <1>14 DEF PendingInv

(* Every step keeps the invariant.                                         *)
LEMMA PendingNext ==
    ASSUME PendingInv, [PNext]_pvars
    PROVE  PendingInv'
<1>1. CASE UNCHANGED pvars
  <2>1. UNCHANGED <<chatOpen, view, fetched, pendingSends, spc, server, wire, fpc, page, consumed,
                    gap, missed, mixed>>
    BY <1>1 DEF pvars, history
  <2>2. PTypeOK' /\ NoGhosts' /\ ConsumedShown'
    BY <2>1 DEF PendingInv, PTypeOK, NoGhosts, ConsumedShown, Shown, InFlight
  <2>3. ServerInv' /\ ListInv' /\ GapInv'
    BY <2>1 DEF PendingInv, ServerInv, ListInv, GapInv, Shown
  <2>4. SoloInv'
    BY <2>1 DEF PendingInv, SoloInv, Shown, InFlight
  <2>5. QED
    BY <2>2, <2>3, <2>4 DEF PendingInv
<1>2. CASE PNext
  BY <1>2, FetchInv, SendInv, AcceptInv, RefuseInv, OtherPostsInv, SettleInv, ConsumeInv DEF PNext
<1>3. QED
  BY <1>1, <1>2

(* It holds of every behaviour of the room.                                *)
THEOREM PendingSendsInvariant == PSpec => []PendingInv
<1>1. PInit => PendingInv
  BY PendingInit
<1>2. PendingInv /\ [PNext]_pvars => PendingInv'
  BY PendingNext
<1>3. QED
  BY <1>1, <1>2, PTL DEF PSpec

(* Every variable keeps its type, for any numbers of sends and messages.   *)
THEOREM PendingSendsTypeOK == PSpec => []PTypeOK
<1>1. PendingInv => PTypeOK
  BY DEF PendingInv
<1>2. QED
  BY <1>1, PendingSendsInvariant, PTL

(* However answers, echoes and the fetch interleave, and whichever message *)
(* takes the bubble, a send that is over has left neither a bubble nor an  *)
(* entry in pending_sends behind (messenger.rs:175-209).                   *)
THEOREM PendingSendsNoGhosts == PSpec => []NoGhosts
<1>1. PendingInv => NoGhosts
  BY DEF PendingInv
<1>2. QED
  BY <1>1, PendingSendsInvariant, PTL

(* A message whose event was processed stays in the list, unless a fetch   *)
(* answered before takes it away (events.rs:91-118, messenger.rs:132-209). *)
THEOREM PendingSendsConsumedShown == PSpec => []ConsumedShown
<1>1. PendingInv => ConsumedShown
  BY DEF PendingInv
<1>2. QED
  BY <1>1, PendingSendsInvariant, PTL

(* Of sends that each begin with nothing else on its way, and that no      *)
(* fetch runs into, every message is shown once (events.rs:103-113).       *)
THEOREM PendingSendsNoRepeats == PSpec => []OneAtATimeNoRepeats
<1>1. PendingInv => OneAtATimeNoRepeats
  BY DEF PendingInv, SoloInv, OneAtATimeNoRepeats
<1>2. QED
  BY <1>1, PendingSendsInvariant, PTL
=============================================================================
