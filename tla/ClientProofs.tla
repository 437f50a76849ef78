---------------------------- MODULE ClientProofs ----------------------------
(***************************************************************************)
(* Proofs about Client.tla for every set of calls, URLs and threads: each  *)
(* step of a call is a step of the session it runs on, so that the         *)
(* session's invariant holds here too; every variable has its type; and a  *)
(* call goes where its URL says, under TLS if it says so.                  *)
(***************************************************************************)
EXTENDS Client, TLAPS

SessionOf == INSTANCE IoSessionProofs WITH Work <- Calls, Initial <- {}

\* The session's own theorem, of the instance that Client.tla makes.
LEMMA SessionInductive == Io!IInv /\ [Io!Next]_iovars => Io!IInv'
<1>1. Io!SessionConstants
  BY ClientAssumption
<1>2. SessionOf!SessionConstants <=> Io!SessionConstants
  BY DEF SessionOf!SessionConstants, Io!SessionConstants
<1>3. SessionOf!IInv <=> Io!IInv
  BY DEF Io!IInv, SessionOf!IInv, Io!TypeInv, SessionOf!TypeInv, Io!HandlersInRun, SessionOf!HandlersInRun, Io!PhaseInv, SessionOf!PhaseInv,
     Io!Phases, SessionOf!Phases, Io!Threads, SessionOf!Threads, Io!ThreadStates, SessionOf!ThreadStates
<1>4. SessionOf!IInv' <=> Io!IInv'
  BY DEF Io!IInv, SessionOf!IInv, Io!TypeInv, SessionOf!TypeInv, Io!HandlersInRun, SessionOf!HandlersInRun, Io!PhaseInv, SessionOf!PhaseInv,
     Io!Phases, SessionOf!Phases, Io!Threads, SessionOf!Threads, Io!ThreadStates, SessionOf!ThreadStates
<1>5. SessionOf!Next <=> Io!Next
  BY DEF Io!Next, SessionOf!Next, Io!Post, SessionOf!Post, Io!Complete, SessionOf!Complete,
   Io!Take, SessionOf!Take, Io!Finish, SessionOf!Finish, Io!Throw, SessionOf!Throw, Io!Return, SessionOf!Return, Io!Join, SessionOf!Join,
   Io!Start, SessionOf!Start, Io!Run, SessionOf!Run, Io!Destroy, SessionOf!Destroy, Io!Free, SessionOf!Free, Io!Settle, SessionOf!Settle, Io!Usable, SessionOf!Usable, Io!Idle, SessionOf!Idle, Io!Outstanding, SessionOf!Outstanding, Io!Threads, SessionOf!Threads
<1>6. [Io!Next]_iovars => [SessionOf!Next]_(SessionOf!vars)
  BY <1>5 DEF SessionOf!vars, iovars
<1> QED BY <1>1, <1>2, <1>3, <1>4, <1>6, SessionOf!Inductive

LEMMA SessionStarts == Io!Init => Io!IInv
<1>1. SessionOf!SessionConstants
  BY ClientAssumption DEF SessionOf!SessionConstants, Io!SessionConstants
<1>2. SessionOf!Init <=> Io!Init
  BY DEF SessionOf!Init, Io!Init, SessionOf!Threads, Io!Threads
<1>3. SessionOf!IInv <=> Io!IInv
  BY DEF Io!IInv, SessionOf!IInv, Io!TypeInv, SessionOf!TypeInv, Io!HandlersInRun, SessionOf!HandlersInRun,
         Io!PhaseInv, SessionOf!PhaseInv, Io!Phases, SessionOf!Phases, Io!Threads, SessionOf!Threads,
         Io!ThreadStates, SessionOf!ThreadStates
<1> QED BY <1>1, <1>2, <1>3, SessionOf!InitInv

-----------------------------------------------------------------------------
\* A call of the user starts a resolve on the io_context, or nothing.
LEMMA CallStep ==
  ASSUME NEW c \in Calls, NEW u \in Urls,
         \/ HttpRequest(c, u) \/ HttpsRequest(c, u) \/ HttpUrl(c, u)
         \/ WsConnect(c, u) \/ WssConnect(c, u) \/ WsUrl(c, u)
  PROVE  UNCHANGED iovars \/ Io!Post({c})
<1>1. ASSUME NEW d, MakeHttpConnection(c, d) PROVE UNCHANGED iovars
  BY <1>1 DEF MakeHttpConnection
<1>2. ASSUME NEW d, MakeWsConnection(c, d) PROVE UNCHANGED iovars \/ Io!Post({c})
  BY <1>2 DEF MakeWsConnection
<1> QED BY <1>1, <1>2 DEF HttpRequest, HttpsRequest, HttpUrl, WsConnect, WssConnect, WsUrl

\* What a step of a call does to the session is a step of the session, or
\* nothing.
LEMMA StepOfSession == [Next]_vars => [Io!Next]_iovars
<1> SUFFICES ASSUME [Next]_vars PROVE [Io!Next]_iovars
  OBVIOUS
<1>1. ASSUME NEW c \in Calls, Io!Post({c}) PROVE Io!Next
  <2>1. {c} \in SUBSET Calls
    OBVIOUS
  <2> QED BY <1>1, <2>1 DEF Io!Next
<1>2. ASSUME NEW t \in Workers \cup {Caller}, OfThread(t) PROVE Io!Next
  <2>1. t \in Io!Threads
    BY DEF Io!Threads
  <2>2. CASE Return(t) \/ Join(t)
    BY <2>1, <2>2 DEF Return, Join, Io!Next
  <2>3. ASSUME NEW c \in Calls, Take(t, c) PROVE Io!Next
    BY <2>1, <2>3 DEF Take, Io!Next
  <2>4. ASSUME NEW c \in Calls, HttpHandler(t, c) \/ WsHandler(t, c) PROVE Io!Next
    <3>1. {} \in SUBSET Calls /\ {c} \in SUBSET Calls
      OBVIOUS
    <3>2. \E ws \in SUBSET Calls : Io!Finish(t, c, ws)
      BY <2>4, <3>1 DEF HttpHandler, WsHandler, OnResolved, OnConnect, OnTlsHandshake, OnHandshake, OnTalk
    <3> QED BY <2>1, <3>2 DEF Io!Next
  <2> QED BY <1>2, <2>2, <2>3, <2>4 DEF OfThread
<1>3. ASSUME NEW c \in Calls, OfCall(c) \/ StreamEnds(c) PROVE [Io!Next]_iovars
  <2>1. CASE HttpResolved(c) \/ HttpContinue(c)
    BY <1>1, <2>1 DEF HttpResolved, HttpContinue
  <2>2. CASE WsResolved(c) \/ TimesOut(c) \/ StreamEnds(c)
    <3>1. Io!Complete(c)
      BY <2>2 DEF WsResolved, TimesOut, StreamEnds, Ends
    <3> QED BY <3>1 DEF Io!Next
  <2> QED BY <1>3, <2>1, <2>2 DEF OfCall
<1>4. CASE Use
  <2>1. CASE Start \/ Run \/ Destroy
    BY <2>1 DEF Start, Run, Destroy, Io!Next
  <2>2. CASE InitTls
    BY <2>2 DEF InitTls
  <2> QED BY <1>1, <1>4, <2>1, <2>2, CallStep DEF Use
<1>5. CASE Free
  BY <1>5 DEF Free, Io!Next
<1>6. CASE UNCHANGED vars
  BY <1>6 DEF vars
<1> QED BY <1>2, <1>3, <1>4, <1>5, <1>6 DEF Next

-----------------------------------------------------------------------------
\* d is where a URL u leads to.
Agreed(u, d) == /\ d.tls <=> u.scheme \in {"https", "wss"}
                /\ d.port = IF u.port > 0 /\ u.port < 65536 THEN u.port ELSE IF d.tls THEN 443 ELSE 80

\* A call on its way knows what it was asked, and goes there; with a TLS context
\* where it needs one.
OnItsWay(c) == \E u \in Urls, d \in Places : /\ asked[c] = {u} /\ to[c] = {d}
                                             /\ Agreed(u, d)
                                             /\ d.tls => tls

ClientInv == /\ TypeInv
             /\ \A c \in Calls : InProgress(c) => OnItsWay(c)

\* build_request() and build_endpoint() lead where the URL says.
LEMMA BuildersAgree ==
  ASSUME NEW u \in Urls, NEW d \in BuildRequest(u) \cup BuildEndpoint(u)
  PROVE  d \in Places /\ Agreed(u, d)
<1>1. u \in [scheme : Schemes, port : Nat, target : STRING]
  BY ClientAssumption
<1>2. PICK s \in {u.scheme} \cap {"http", "https", "ws", "wss"} :
           /\ d = [tls |-> s \in {"https", "wss"},
                   port |-> IF PortNumber(u) # 0 THEN PortNumber(u) ELSE IF s \in {"https", "wss"} THEN 443 ELSE 80,
                   target |-> TargetOf(u)]
  BY DEF BuildRequest, BuildEndpoint, Destination, PortOf
<1>3. TargetOf(u) \in {"/"} \cup {v.target : v \in Urls}
  BY DEF TargetOf
<1>4. /\ PortNumber(u) \in Nat
      /\ u.port > 0 /\ u.port < 65536 => PortNumber(u) = u.port /\ PortNumber(u) # 0
      /\ ~(u.port > 0 /\ u.port < 65536) => PortNumber(u) = 0
  BY <1>1 DEF PortNumber
<1> QED BY <1>1, <1>2, <1>3, <1>4 DEF Places, Agreed

\* A call that the controller takes starts with a place that agrees with the
\* URL, and with a TLS context if that place needs one.
LEMMA TakenInv ==
  ASSUME ClientInv, Io!IInv', NEW c \in Calls, NEW u \in Urls, NEW d \in Places,
         Agreed(u, d), Call(c, u), MakeHttpConnection(c, d) \/ MakeWsConnection(c, d)
  PROVE  ClientInv'
<1>1. /\ to' = [to EXCEPT ![c] = {d}] /\ asked' = [asked EXCEPT ![c] = {u}]
      /\ tls' = tls /\ result' = result
  BY DEF Call, MakeHttpConnection, MakeWsConnection
<1>2. \/ at' = [at EXCEPT ![c] = "resolve"] /\ answer' = answer /\ (d.tls => tls)
      \/ /\ at' = [at EXCEPT ![c] = "over"]
         /\ \E what \in Answers : answer' = [answer EXCEPT ![c] = what]
  BY DEF MakeHttpConnection, MakeWsConnection, TlsContextValid, Tell, GoOn, Answers
<1>3. TypeInv'
  BY <1>1, <1>2 DEF ClientInv, TypeInv, Places, Stages
<1>4. ASSUME NEW k \in Calls, InProgress(k)' PROVE OnItsWay(k)'
  <2>1. CASE k = c
    BY <1>1, <1>2, <1>4, <2>1 DEF ClientInv, TypeInv, InProgress, OnItsWay, Agreed
  <2>2. CASE k # c
    <3>1. at'[k] = at[k] /\ to'[k] = to[k] /\ asked'[k] = asked[k]
      BY <1>1, <1>2, <2>2 DEF ClientInv, TypeInv
    <3> QED BY <1>1, <1>4, <3>1 DEF ClientInv, InProgress, OnItsWay
  <2> QED BY <2>1, <2>2
<1> QED BY <1>3, <1>4 DEF ClientInv

LEMMA CallInv ==
  ASSUME ClientInv, Io!IInv', NEW c \in Calls, NEW u \in Urls,
         \/ HttpRequest(c, u) \/ HttpsRequest(c, u) \/ HttpUrl(c, u)
         \/ WsConnect(c, u) \/ WssConnect(c, u) \/ WsUrl(c, u)
  PROVE  ClientInv'
<1> DEFINE given(secure) == [tls |-> secure, port |-> u.port, target |-> u.target]
<1>0. u \in [scheme : Schemes, port : Nat, target : STRING]
  BY ClientAssumption
<1>00. PortNumber(u) # 0 => u.port > 0 /\ u.port < 65536
  BY <1>0 DEF PortNumber
<1>1. CASE HttpRequest(c, u) \/ WsConnect(c, u)
  <2>1. given(FALSE) \in Places /\ Agreed(u, given(FALSE))
    BY <1>0, <1>00, <1>1 DEF HttpRequest, WsConnect, Places, Agreed
  <2> QED BY <1>1, <2>1, TakenInv DEF HttpRequest, WsConnect
<1>2. CASE HttpsRequest(c, u) \/ WssConnect(c, u)
  <2>1. given(TRUE) \in Places /\ Agreed(u, given(TRUE))
    BY <1>0, <1>00, <1>2 DEF HttpsRequest, WssConnect, Places, Agreed
  <2> QED BY <1>2, <2>1, TakenInv DEF HttpsRequest, WssConnect
<1>3. ASSUME NEW d \in BuildRequest(u) \cup BuildEndpoint(u), Call(c, u),
             MakeHttpConnection(c, d) \/ MakeWsConnection(c, d)
      PROVE  ClientInv'
  BY <1>3, BuildersAgree, TakenInv
<1>4. ASSUME Call(c, u), NEW what \in Answers, Tell(c, what), UNCHANGED <<iovars, to>>
      PROVE  ClientInv'
  <2>1. /\ to' = to /\ asked' = [asked EXCEPT ![c] = {u}] /\ tls' = tls /\ result' = result
        /\ at' = [at EXCEPT ![c] = "over"] /\ answer' = [answer EXCEPT ![c] = what]
    BY <1>4 DEF Call, Tell
  <2>2. TypeInv'
    BY <2>1 DEF ClientInv, TypeInv, Stages
  <2>3. ASSUME NEW k \in Calls, InProgress(k)' PROVE OnItsWay(k)'
    <3>1. k # c /\ at'[k] = at[k] /\ asked'[k] = asked[k]
      BY <2>1, <2>3 DEF ClientInv, TypeInv, InProgress
    <3> QED BY <2>1, <2>3, <3>1 DEF ClientInv, InProgress, OnItsWay
  <2> QED BY <2>2, <2>3 DEF ClientInv
<1>5. CASE HttpUrl(c, u)
  BY <1>3, <1>4, <1>5 DEF HttpUrl, Answers
<1>6. CASE WsUrl(c, u)
  BY <1>3, <1>4, <1>6 DEF WsUrl, Answers
<1> QED BY <1>1, <1>2, <1>5, <1>6

\* The stages of a websocket are no stages of a request.
StageInv == \A c \in Http : at[c] \notin {"secure", "upgrade", "talk"}

\* The operation that follows is one of a request.
LEMMA AfterStage ==
  ASSUME StageInv, NEW c \in Http, InProgress(c), at[c] # "resolve", at[c] \in Stages
  PROVE  After(c) \in {"handshake", "write", "read", "over"}
<1>1. HookConnected(c) \in {"handshake", "write"}
  BY DEF HookConnected
<1>2. at[c] \in {"connect", "handshake", "write", "read"}
  BY DEF InProgress, Stages, StageInv
<1> QED BY <1>1, <1>2 DEF After

\* A request only gets to stages of its own.
LEMMA StageInductive == TypeInv /\ StageInv /\ [Next]_vars => StageInv'
<1> SUFFICES ASSUME TypeInv, StageInv, [Next]_vars PROVE StageInv'
  OBVIOUS
<1>0. at \in [Calls -> Stages] /\ Http \cap Ws = {} /\ Http \subseteq Calls
  BY ClientAssumption DEF TypeInv, Calls
<1>1. ASSUME UNCHANGED at PROVE StageInv'
  BY <1>1 DEF StageInv
<1>2. ASSUME NEW c \in Calls, NEW what, Tell(c, what) PROVE StageInv'
  BY <1>0, <1>2 DEF Tell, StageInv
<1>3. ASSUME NEW c \in Calls, NEW stage, GoOn(c, stage),
             c \in Ws \/ stage \notin {"secure", "upgrade", "talk"}
      PROVE  StageInv'
  BY <1>0, <1>3 DEF GoOn, StageInv
<1>4. ASSUME NEW c \in Calls, NEW u \in Urls,
             \/ HttpRequest(c, u) \/ HttpsRequest(c, u) \/ HttpUrl(c, u)
             \/ WsConnect(c, u) \/ WssConnect(c, u) \/ WsUrl(c, u)
      PROVE  StageInv'
  <2>1. GoOn(c, "resolve") => StageInv'
    BY <1>3
  <2>2. ASSUME NEW d, MakeHttpConnection(c, d) \/ MakeWsConnection(c, d) PROVE StageInv'
    BY <1>2, <2>1, <2>2 DEF MakeHttpConnection, MakeWsConnection
  <2> QED BY <1>2, <1>4, <2>2 DEF HttpRequest, HttpsRequest, HttpUrl, WsConnect, WssConnect, WsUrl
<1>5. ASSUME NEW c \in Calls, OfCall(c) \/ StreamEnds(c) PROVE StageInv'
  <2>1. CASE WsResolved(c) \/ TimesOut(c) \/ StreamEnds(c)
    BY <1>1, <2>1 DEF WsResolved, TimesOut, StreamEnds, Ends
  <2>2. CASE HttpResolved(c)
    BY <1>2, <1>3, <2>2 DEF HttpResolved
  <2>3. CASE HttpContinue(c)
    <3>1. After(c) \notin {"secure", "upgrade", "talk"}
      BY <1>0, <2>3, AfterStage DEF HttpContinue, OnExecutor
    <3> QED BY <1>2, <1>3, <2>3, <3>1 DEF HttpContinue
  <2> QED BY <1>5, <2>1, <2>2, <2>3 DEF OfCall
<1>6. ASSUME NEW t \in Workers \cup {Caller}, NEW c \in Calls, WsHandler(t, c) PROVE StageInv'
  BY <1>0, <1>6 DEF WsHandler, OnResolved, OnConnect, OnTlsHandshake, OnHandshake, OnTalk, GoOn, Tell, StageInv
<1>7. ASSUME NEW t \in Workers \cup {Caller},
             Return(t) \/ Join(t) \/ \E c \in Calls : Take(t, c) \/ HttpHandler(t, c)
      PROVE  StageInv'
  BY <1>1, <1>7 DEF Return, Join, Take, HttpHandler, callvars
<1>8. ASSUME InitTls \/ Start \/ Run \/ Destroy \/ UNCHANGED vars PROVE StageInv'
  BY <1>1, <1>8 DEF InitTls, Start, Run, Destroy, vars, callvars
<1>9. CASE Free
  BY <1>0, <1>9 DEF Free, StageInv
<1> QED BY <1>4, <1>5, <1>6, <1>7, <1>8, <1>9 DEF Next, Use, OfThread

\* The io_context has work of calls in progress only, and none of a request
\* whose name is being resolved.
WorkInv == \A c \in Calls : op[c] # "none" => InProgress(c) /\ (c \in Http => at[c] # "resolve")

LEMMA CallWorkInv ==
  ASSUME TypeInv, WorkInv, NEW c \in Calls, NEW u \in Urls,
         \/ HttpRequest(c, u) \/ HttpsRequest(c, u) \/ HttpUrl(c, u)
         \/ WsConnect(c, u) \/ WssConnect(c, u) \/ WsUrl(c, u)
  PROVE  WorkInv'
<1> USE DEF TypeInv, InProgress
<1>1. op[c] = "none"
  BY DEF WorkInv, HttpRequest, HttpsRequest, HttpUrl, WsConnect, WssConnect, WsUrl, Call
<1>2. /\ \A k \in Calls \ {c} : at'[k] = at[k]
      /\ op' = op \/ (at'[c] = "resolve" /\ c \in Ws /\ Io!Post({c}))
  <2>1. ASSUME NEW stage, GoOn(c, stage)
        PROVE  at'[c] = stage /\ \A k \in Calls \ {c} : at'[k] = at[k]
    BY <2>1 DEF GoOn
  <2>2. ASSUME NEW what, Tell(c, what) PROVE \A k \in Calls \ {c} : at'[k] = at[k]
    BY <2>2 DEF Tell
  <2>3. ASSUME NEW d, MakeHttpConnection(c, d)
        PROVE  op' = op /\ \A k \in Calls \ {c} : at'[k] = at[k]
    BY <2>1, <2>2, <2>3 DEF MakeHttpConnection, iovars
  <2>4. ASSUME NEW d, MakeWsConnection(c, d)
        PROVE  /\ \A k \in Calls \ {c} : at'[k] = at[k]
               /\ op' = op \/ (at'[c] = "resolve" /\ Io!Post({c}))
    BY <2>1, <2>2, <2>4 DEF MakeWsConnection, iovars
  <2>5. ASSUME NEW what, Tell(c, what), UNCHANGED iovars
        PROVE  op' = op /\ \A k \in Calls \ {c} : at'[k] = at[k]
    BY <2>2, <2>5 DEF iovars
  <2> QED BY <2>3, <2>4, <2>5 DEF HttpRequest, HttpsRequest, HttpUrl, WsConnect, WssConnect, WsUrl
<1>3. \A k \in Calls \ {c} : at'[k] = at[k] /\ op'[k] = op[k]
  BY <1>2 DEF Io!Post
<1>4. op'[c] # "none" => at'[c] = "resolve" /\ c \notin Http
  BY <1>1, <1>2, ClientAssumption DEF Io!Post
<1> QED BY <1>3, <1>4 DEF WorkInv

LEMMA OperationWorkInv ==
  ASSUME TypeInv, WorkInv, StageInv, NEW c \in Calls,
         \/ OfCall(c) \/ StreamEnds(c)
         \/ \E t \in Workers \cup {Caller} : HttpHandler(t, c) \/ WsHandler(t, c)
  PROVE  WorkInv'
<1>0. /\ at \in [Calls -> Stages]
      /\ op \in [Calls -> {"none", "pending", "ready"} \cup Io!Threads]
  BY DEF TypeInv, Io!IInv, Io!TypeInv
<1>1. CASE WsResolved(c) \/ TimesOut(c) \/ StreamEnds(c)
  <2>1. at' = at /\ op[c] = "pending" /\ op' = [op EXCEPT ![c] = "ready"]
    BY <1>1 DEF WsResolved, TimesOut, StreamEnds, Ends, Io!Complete
  <2> QED BY <1>0, <2>1 DEF WorkInv, InProgress, Stages
<1>2. CASE HttpResolved(c) \/ HttpContinue(c)
  <2>1. c \in Http /\ op[c] = "none"
    BY <1>2 DEF HttpResolved, HttpContinue, OnExecutor, WorkInv
  <2>2. \/ op' = op /\ \E stage \in Stages : at' = [at EXCEPT ![c] = stage]
        \/ Io!Post({c}) /\ \E stage \in {"connect", "handshake", "write", "read"} : at' = [at EXCEPT ![c] = stage]
    <3>1. CASE HttpResolved(c)
      BY <3>1 DEF HttpResolved, Tell, GoOn, iovars, Stages
    <3>2. CASE HttpContinue(c)
      BY <1>0, <3>2, AfterStage DEF HttpContinue, OnExecutor, Tell, GoOn, iovars, Stages
    <3> QED BY <1>2, <3>1, <3>2
  <2>3. \A k \in Calls \ {c} : at'[k] = at[k] /\ op'[k] = op[k]
    BY <1>0, <2>2 DEF Io!Post
  <2>4. op'[c] # "none" => at'[c] \in {"connect", "handshake", "write", "read"}
    BY <1>0, <2>1, <2>2
  <2> QED BY <2>3, <2>4 DEF WorkInv, InProgress
<1>3. ASSUME NEW t \in Workers \cup {Caller}, HttpHandler(t, c) PROVE WorkInv'
  BY <1>0, <1>3 DEF HttpHandler, callvars, Io!Finish, WorkInv, InProgress
<1>4. ASSUME NEW t \in Workers \cup {Caller}, WsHandler(t, c) PROVE WorkInv'
  <2>1. c \notin Http
    BY <1>4, ClientAssumption DEF WsHandler, OnResolved, OnConnect, OnTlsHandshake, OnHandshake, OnTalk
  <2>2. \/ /\ \E stage \in {"connect", "secure", "upgrade", "talk"} : at' = [at EXCEPT ![c] = stage]
           /\ Io!Finish(t, c, {c})
        \/ at' = [at EXCEPT ![c] = "over"] /\ Io!Finish(t, c, {})
    BY <1>4 DEF WsHandler, OnResolved, OnConnect, OnTlsHandshake, OnHandshake, OnTalk, HookWs, Tell, GoOn
  <2> QED BY <1>0, <2>1, <2>2 DEF Io!Finish, WorkInv, InProgress
<1> QED BY <1>1, <1>2, <1>3, <1>4 DEF OfCall

LEMMA SessionWorkInv ==
  ASSUME TypeInv, WorkInv,
         \/ InitTls \/ Start \/ Run \/ Destroy \/ Free
         \/ \E t \in Workers \cup {Caller} : Return(t) \/ Join(t) \/ \E c \in Calls : Take(t, c)
  PROVE  WorkInv'
<1>0. /\ at \in [Calls -> Stages]
      /\ op \in [Calls -> {"none", "pending", "ready"} \cup Io!Threads]
  BY DEF TypeInv, Io!IInv, Io!TypeInv
<1> USE <1>0 DEF WorkInv, InProgress, callvars, iovars
<1>1. CASE InitTls \/ Start \/ Run \/ Destroy
  BY <1>1 DEF InitTls, Start, Io!Start, Run, Io!Run, Destroy, Io!Destroy
<1>2. CASE Free
  BY <1>2 DEF Free, Io!Free
<1>3. ASSUME NEW t \in Workers \cup {Caller}, Return(t) \/ Join(t) PROVE WorkInv'
  BY <1>3 DEF Return, Io!Return, Join, Io!Join
<1>4. ASSUME NEW t \in Workers \cup {Caller}, NEW c \in Calls, Take(t, c) PROVE WorkInv'
  BY <1>4 DEF Take, Io!Take
<1> QED BY <1>1, <1>2, <1>3, <1>4

LEMMA WorkInductive == TypeInv /\ WorkInv /\ StageInv /\ [Next]_vars => WorkInv'
<1> SUFFICES ASSUME TypeInv, WorkInv, StageInv, [Next]_vars PROVE WorkInv'
  OBVIOUS
<1>1. CASE UNCHANGED vars
  BY <1>1 DEF vars, iovars, callvars, WorkInv, InProgress
<1> QED BY <1>1, CallWorkInv, OperationWorkInv, SessionWorkInv DEF Next, Use, OfThread

-----------------------------------------------------------------------------
\* Whatever changes nothing of a call but how far it is keeps it on its way.
LEMMA MovedInv ==
  ASSUME ClientInv, Io!IInv', UNCHANGED <<asked, to>>, tls' \in BOOLEAN, tls => tls',
         at' \in [Calls -> Stages], result' \in [Calls -> {"ok", "error"}],
         answer' \in [Calls -> Answers],
         \A c \in Calls : InProgress(c)' => InProgress(c)
  PROVE  ClientInv'
<1>1. TypeInv'
  BY DEF ClientInv, TypeInv
<1>2. ASSUME NEW c \in Calls, InProgress(c)' PROVE OnItsWay(c)'
  BY <1>2 DEF ClientInv, OnItsWay
<1> QED BY <1>1, <1>2 DEF ClientInv

\* Operations end, coroutines resume and callbacks are called for calls that are
\* on their way.
LEMMA OperationInv ==
  ASSUME ClientInv, WorkInv, StageInv, Io!IInv', NEW c \in Calls,
         \/ OfCall(c) \/ StreamEnds(c)
         \/ \E t \in Workers \cup {Caller} : HttpHandler(t, c) \/ WsHandler(t, c)
  PROVE  ClientInv'
<1>1. /\ at \in [Calls -> Stages] /\ result \in [Calls -> {"ok", "error"}]
      /\ answer \in [Calls -> Answers] /\ tls \in BOOLEAN
  BY DEF ClientInv, TypeInv
<1>2. ASSUME NEW r \in {"ok", "error"}, Ends(c, r) PROVE ClientInv'
  BY <1>1, <1>2, MovedInv DEF Ends, InProgress
<1>3. CASE WsResolved(c) \/ TimesOut(c) \/ StreamEnds(c)
  BY <1>2, <1>3 DEF WsResolved, TimesOut, StreamEnds
<1>4. ASSUME InProgress(c), UNCHANGED <<tls, asked, to, result>>,
             NEW what \in Answers, Tell(c, what)
      PROVE  ClientInv'
  BY <1>1, <1>4, MovedInv DEF Tell, InProgress, Stages
<1>5. ASSUME InProgress(c), UNCHANGED <<tls, asked, to, result>>,
             NEW stage \in Stages, GoOn(c, stage)
      PROVE  ClientInv'
  BY <1>1, <1>5, MovedInv DEF GoOn, InProgress
<1>6. CASE HttpResolved(c)
  BY <1>4, <1>5, <1>6 DEF HttpResolved, InProgress, Answers, Stages
<1>7. CASE HttpContinue(c)
  <2>1. After(c) \in Stages
    BY <1>1, <1>7, AfterStage DEF HttpContinue, OnExecutor, Stages
  <2> QED BY <1>4, <1>5, <1>7, <2>1 DEF HttpContinue, OnExecutor, Answers
<1>8. ASSUME NEW t \in Workers \cup {Caller}, HttpHandler(t, c) PROVE ClientInv'
  BY <1>1, <1>8, MovedInv DEF HttpHandler, callvars, InProgress
<1>9. ASSUME NEW t \in Workers \cup {Caller}, WsHandler(t, c) PROVE ClientInv'
  <2>0. op[c] = t
    BY <1>9 DEF WsHandler, OnResolved, OnConnect, OnTlsHandshake, OnHandshake, OnTalk, Io!Finish
  <2>1. op[c] # "none"
    BY <2>0, ClientAssumption DEF Io!SessionConstants
  <2>2. InProgress(c)
    BY <2>1 DEF WorkInv
  <2>3. ASSUME UNCHANGED <<asked, to, tls, result>>,
               NEW stage \in Stages, at' = [at EXCEPT ![c] = stage],
               NEW what \in Answers, answer' = [answer EXCEPT ![c] = what]
        PROVE  ClientInv'
    BY <1>1, <2>2, <2>3, MovedInv DEF InProgress
  <2>4. answer[c] \in Answers /\ "error" \in Answers /\ "conn" \in Answers
    BY <1>1 DEF Answers
  <2>5. CASE OnTlsHandshake(t, c)
    BY <2>3, <2>4, <2>5 DEF OnTlsHandshake, Stages
  <2>6. CASE OnHandshake(t, c)
    BY <1>4, <2>2, <2>3, <2>4, <2>6 DEF OnHandshake, Stages
  <2>7. CASE OnResolved(t, c) \/ OnConnect(t, c) \/ OnTalk(t, c)
    <3>1. HookWs(c) \in Stages /\ {"connect", "talk", "over"} \subseteq Stages
      BY DEF HookWs, Stages
    <3> QED BY <1>4, <1>5, <2>2, <2>4, <2>7, <3>1 DEF OnResolved, OnConnect, OnTalk
  <2> QED BY <1>9, <2>5, <2>6, <2>7 DEF WsHandler
<1> QED BY <1>3, <1>6, <1>7, <1>8, <1>9 DEF OfCall

\* The session's own steps leave the calls alone, or lose them.
LEMMA SessionStepInv ==
  ASSUME ClientInv, Io!IInv',
         \/ InitTls \/ Start \/ Run \/ Destroy \/ Free
         \/ \E t \in Workers \cup {Caller} : Return(t) \/ Join(t) \/ \E c \in Calls : Take(t, c)
  PROVE  ClientInv'
<1>1. /\ at \in [Calls -> Stages] /\ result \in [Calls -> {"ok", "error"}]
      /\ answer \in [Calls -> Answers] /\ tls \in BOOLEAN
  BY DEF ClientInv, TypeInv
<1>2. ASSUME UNCHANGED callvars PROVE ClientInv'
  BY <1>1, <1>2, MovedInv DEF callvars, InProgress
<1>3. CASE InitTls
  BY <1>1, <1>3, MovedInv DEF InitTls, InProgress
<1>4. CASE Free
  BY <1>1, <1>4, MovedInv DEF Free, InProgress, Stages
<1> QED BY <1>2, <1>3, <1>4 DEF Start, Run, Destroy, Return, Join, Take

LEMMA ClientInductive == ClientInv /\ WorkInv /\ StageInv /\ [Next]_vars => (ClientInv /\ WorkInv /\ StageInv)'
<1> SUFFICES ASSUME ClientInv, WorkInv, StageInv, [Next]_vars PROVE (ClientInv /\ WorkInv /\ StageInv)'
  OBVIOUS
<1>1. Io!IInv'
  BY StepOfSession, SessionInductive DEF ClientInv, TypeInv
<1>2. WorkInv'
  BY WorkInductive DEF ClientInv
<1>3. ClientInv'
  <2>1. CASE UNCHANGED vars
    <3>1. UNCHANGED callvars
      BY <2>1 DEF vars
    <3> QED BY <1>1, <3>1, MovedInv DEF callvars, ClientInv, TypeInv, InProgress
  <2> QED BY <1>1, <2>1, CallInv, OperationInv, SessionStepInv DEF Next, Use, OfThread
<1>4. StageInv'
  BY StageInductive DEF ClientInv
<1> QED BY <1>2, <1>3, <1>4

LEMMA ClientInit == Init => ClientInv /\ WorkInv /\ StageInv
<1> SUFFICES ASSUME Init PROVE ClientInv /\ WorkInv /\ StageInv
  OBVIOUS
<1>1. TypeInv
  BY SessionStarts DEF Init, TypeInv, Stages, Answers
<1>2. \A c \in Calls : ~InProgress(c) /\ op[c] = "none" /\ at[c] = "idle"
  BY DEF Init, Io!Init, InProgress
<1> QED BY <1>1, <1>2 DEF ClientInv, WorkInv, StageInv, Calls

THEOREM Invariance == Spec => [](ClientInv /\ WorkInv /\ StageInv)
<1> QED BY ClientInit, ClientInductive, PTL DEF Spec

\* Every variable of a client has its type, and its session is in order.
THEOREM TypeCorrect == Spec => []TypeInv
<1>1. ClientInv => TypeInv
  BY DEF ClientInv
<1> QED BY <1>1, Invariance, PTL

\* A client is a session: whatever calls, connections and peers do, the
\* io_context and the threads of controller_run_result see nothing but steps of
\* IoSession.tla (client/controller.hpp, controller_run_result.hpp).
THEOREM RunsASession == Spec => Io!Init /\ [][Io!Next]_iovars
<1>1. Init => Io!Init
  BY DEF Init
<1>2. [Next]_vars => [Io!Next]_iovars
  BY StepOfSession
<1> QED BY <1>1, <1>2, PTL DEF Spec

-----------------------------------------------------------------------------
\* A call connects from "resolve" on, writes from "connect" or "handshake" on,
\* and upgrades from "connect" or "secure" on; from "connect" only if it does
\* without TLS.
LEMMA StageStep ==
  ASSUME ClientInv, WorkInv, StageInv, [Next]_vars, NEW c \in Calls
  PROVE  /\ at'[c] = "connect" /\ at[c] # "connect" => at[c] = "resolve"
         /\ at'[c] = "write" /\ at[c] # "write" =>
              /\ result[c] = "ok"
              /\ \/ at[c] = "handshake"
                 \/ at[c] = "connect" /\ \A d \in to[c] : ~d.tls
         /\ at'[c] = "upgrade" /\ at[c] # "upgrade" =>
              \/ at[c] = "secure"
              \/ at[c] = "connect" /\ \A d \in to[c] : ~d.tls
<1>0. at \in [Calls -> Stages] /\ result \in [Calls -> {"ok", "error"}]
  BY DEF ClientInv, TypeInv
<1> DEFINE Quiet == at'[c] \notin {"connect", "write", "upgrade"} \/ at'[c] = at[c]
<1>1. ASSUME NEW k \in Calls, NEW u \in Urls,
             \/ HttpRequest(k, u) \/ HttpsRequest(k, u) \/ HttpUrl(k, u)
             \/ WsConnect(k, u) \/ WssConnect(k, u) \/ WsUrl(k, u)
      PROVE  Quiet
  <2>1. ASSUME NEW what, Tell(k, what) PROVE Quiet
    BY <1>0, <2>1 DEF Tell
  <2>2. ASSUME GoOn(k, "resolve") PROVE Quiet
    BY <1>0, <2>2 DEF GoOn
  <2>3. ASSUME NEW d, MakeHttpConnection(k, d) \/ MakeWsConnection(k, d) PROVE Quiet
    BY <2>1, <2>2, <2>3 DEF MakeHttpConnection, MakeWsConnection
  <2> QED BY <1>1, <2>1, <2>3 DEF HttpRequest, HttpsRequest, HttpUrl, WsConnect, WssConnect, WsUrl
<1>2. ASSUME NEW k \in Calls, k # c,
             \/ OfCall(k) \/ StreamEnds(k)
             \/ \E t \in Workers \cup {Caller} : HttpHandler(t, k) \/ WsHandler(t, k)
      PROVE  Quiet
  BY <1>0, <1>2 DEF OfCall, StreamEnds, HttpResolved, HttpContinue, WsResolved, TimesOut, Ends,
                    HttpHandler, WsHandler, OnResolved, OnConnect, OnTlsHandshake, OnHandshake, OnTalk, Tell, GoOn, callvars
<1>3. ASSUME UNCHANGED at \/ Free PROVE Quiet
  BY <1>0, <1>3 DEF Free
<1>4. CASE HttpContinue(c)
  <2>1. CASE result[c] = "error" \/ After(c) = "over"
    BY <1>0, <1>4, <2>1 DEF HttpContinue, Tell
  <2>2. CASE result[c] = "ok" /\ After(c) # "over"
    <3>1. at'[c] = After(c)
      BY <1>0, <1>4, <2>2 DEF HttpContinue, GoOn
    <3>2. at[c] \in {"connect", "handshake", "write", "read"}
      BY <1>0, <1>4 DEF HttpContinue, OnExecutor, InProgress, Stages, StageInv
    <3>3. HookConnected(c) = "handshake" \/ (HookConnected(c) = "write" /\ \A d \in to[c] : ~d.tls)
      BY DEF HookConnected
    <3> QED BY <2>2, <3>1, <3>2, <3>3 DEF After
  <2> QED BY <1>0, <2>1, <2>2
<1>5. CASE HttpResolved(c)
  BY <1>0, <1>5 DEF HttpResolved, Tell, GoOn
<1>6. ASSUME NEW t \in Workers \cup {Caller}, WsHandler(t, c)
      PROVE  \/ at'[c] \in {"over", "secure", "talk"}
             \/ at'[c] = "connect" /\ at[c] = "resolve"
             \/ at'[c] = "upgrade" /\ at[c] = "secure"
             \/ at'[c] = "upgrade" /\ at[c] = "connect" /\ \A d \in to[c] : ~d.tls
  BY <1>0, <1>6 DEF WsHandler, OnResolved, OnConnect, OnTlsHandshake, OnHandshake, OnTalk, HookWs, Tell, GoOn
<1>7. ASSUME WsResolved(c) \/ TimesOut(c) \/ StreamEnds(c) PROVE Quiet
  BY <1>7 DEF WsResolved, TimesOut, StreamEnds, Ends
<1>8. ASSUME InitTls \/ Start \/ Run \/ Destroy \/ UNCHANGED vars PROVE UNCHANGED at
  BY <1>8 DEF InitTls, Start, Run, Destroy, vars, callvars
<1>9. ASSUME NEW t \in Workers \cup {Caller},
             Return(t) \/ Join(t) \/ HttpHandler(t, c) \/ \E k \in Calls : Take(t, k)
      PROVE  UNCHANGED at
  BY <1>9 DEF Return, Join, Take, HttpHandler, callvars
<1> QED BY <1>1, <1>2, <1>3, <1>4, <1>5, <1>6, <1>7, <1>8, <1>9 DEF Next, Use, OfThread, OfCall

\* A call goes to the port its URL names, if 16 bits hold it, or implies, and
\* never does without the TLS it asks for, for every set of calls and URLs
\* (build_request(), build_endpoint(), tls_context_valid(), hook_connected(),
\* on_connect()).
THEOREM GoesWhereAsked == Spec => SentAsAsked
<1>1. ASSUME ClientInv, WorkInv, StageInv, [Next]_vars, NEW c \in Calls, NEW u \in asked[c]
      PROVE  /\ at'[c] = "connect" /\ at[c] # "connect" =>
                  \E d \in to[c] : /\ d.tls <=> u.scheme \in {"https", "wss"}
                                   /\ d.tls => tls
                                   /\ d.port = IF u.port > 0 /\ u.port < 65536 THEN u.port ELSE IF d.tls THEN 443 ELSE 80
             /\ at'[c] = "write" /\ at[c] # "write" /\ u.scheme = "https" =>
                  at[c] = "handshake" /\ result[c] = "ok"
             /\ at'[c] = "upgrade" /\ at[c] # "upgrade" /\ u.scheme = "wss" => at[c] = "secure"
  <2>1. InProgress(c) => \E d \in Places : to[c] = {d} /\ Agreed(u, d) /\ (d.tls => tls)
    BY <1>1 DEF ClientInv, OnItsWay
  <2>2. CASE at'[c] = "connect" /\ at[c] # "connect"
    BY <1>1, <2>1, <2>2, StageStep DEF InProgress, Agreed
  <2>3. CASE at'[c] = "write" /\ at[c] # "write" /\ u.scheme = "https"
    <3>1. InProgress(c) /\ result[c] = "ok"
      BY <1>1, <2>3, StageStep DEF InProgress
    <3>2. \E d \in to[c] : d.tls
      BY <2>1, <2>3, <3>1 DEF Agreed
    <3> QED BY <1>1, <2>3, <3>1, <3>2, StageStep
  <2>4. CASE at'[c] = "upgrade" /\ at[c] # "upgrade" /\ u.scheme = "wss"
    <3>1. InProgress(c)
      BY <1>1, <2>4, StageStep DEF InProgress
    <3>2. \E d \in to[c] : d.tls
      BY <2>1, <3>1, <2>4 DEF Agreed
    <3> QED BY <1>1, <2>4, <3>2, StageStep
  <2> QED BY <2>2, <2>3, <2>4
<1>2. ClientInv /\ WorkInv /\ StageInv /\ [Next]_vars =>
        [\A c \in Calls : \A u \in asked[c] :
           /\ at'[c] = "connect" /\ at[c] # "connect" =>
                \E d \in to[c] : /\ d.tls <=> u.scheme \in {"https", "wss"}
                                 /\ d.tls => tls
                                 /\ d.port = IF u.port > 0 /\ u.port < 65536 THEN u.port ELSE IF d.tls THEN 443 ELSE 80
           /\ at'[c] = "write" /\ at[c] # "write" /\ u.scheme = "https" =>
                at[c] = "handshake" /\ result[c] = "ok"
           /\ at'[c] = "upgrade" /\ at[c] # "upgrade" /\ u.scheme = "wss" => at[c] = "secure"]_vars
  BY <1>1
<1> QED BY <1>2, Invariance, PTL DEF Spec, SentAsAsked
=============================================================================
