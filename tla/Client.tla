------------------------------- MODULE Client -------------------------------
(***************************************************************************)
(* malloy::client::controller: its HTTP requests, each a coroutine over a  *)
(* connection of its own (client/controller.hpp, client/http), and its     *)
(* websocket connects, each a chain of callbacks.                          *)
(*                                                                         *)
(* A request runs on the executor of the user who awaits it, and its       *)
(* stream belongs to the io_context of the controller: an operation counts *)
(* as work of the session, what the coroutine does between two of them     *)
(* does not.  A websocket connect runs on the io_context throughout, and   *)
(* so does what its user does with the connection then, which is one       *)
(* operation after the other here and WsConnection.tla in detail.          *)
(*                                                                         *)
(* The thread of the session's user makes the websocket calls.  Nobody     *)
(* destroys the session while a request is on the user's executor.         *)
(***************************************************************************)
EXTENDS Url

CONSTANTS Http, Ws,  \* calls of http_request() and of ws_connect(), once each
          Urls,      \* what they are called with
          Workers, Caller

Calls == Http \cup Ws
Schemes == {"http", "https", "ws", "wss", "none"}

VARIABLES
  phase, guard, stopped, thread, op,  \* the session, see IoSession.tla
  tls,     \* m_tls_ctx
  asked,   \* the URL, or the host and port, that the user gave
  to,      \* where the call goes to, once it is on its way
  at,      \* how far a call is: the operation it waits for, or "over"
  result,  \* how its last operation ended
  answer   \* what it told the user

Io == INSTANCE IoSession WITH Work <- Calls, Initial <- {}

ASSUME ClientAssumption ==
  /\ Io!SessionConstants
  /\ Http \cap Ws = {}
  /\ Urls \subseteq [scheme : Schemes, port : Nat, target : STRING]

iovars == <<phase, guard, stopped, thread, op>>
callvars == <<tls, asked, to, at, result, answer>>
vars == <<iovars, callvars>>

\* Where calls may go to.
Places == [tls : BOOLEAN, port : Nat \ {0}, target : {"/"} \cup {u.target : u \in Urls}]

\* The operations of a request, those of a websocket, whose "secure" is the TLS
\* handshake, and what its user does with the connection: "talk".
Stages == {"resolve", "connect", "handshake", "write", "read"}
            \cup {"secure", "upgrade", "talk"} \cup {"idle", "over", "lost"}
Answers == {"none", "response", "conn", "error", "thrown", "invalid"}

InProgress(c) == at[c] \notin {"idle", "over", "lost"}

\* A request that is on the user's executor: its name is being resolved, or
\* an operation of its stream is over and the coroutine will resume.
OnExecutor(c) == c \in Http /\ InProgress(c) /\ op[c] = "none"

Init == /\ Io!Init
        /\ tls = FALSE
        /\ asked = [c \in Calls |-> {}]
        /\ to = [c \in Calls |-> {}]
        /\ at = [c \in Calls |-> "idle"]
        /\ result = [c \in Calls |-> "ok"]
        /\ answer = [c \in Calls |-> "none"]

-----------------------------------------------------------------------------
(* The controller.                                                         *)

\* init_tls(), said to come before everything that uses TLS.
InitTls == /\ ~tls /\ tls' = TRUE
           /\ phase = "held" /\ \A c \in Calls : at[c] = "idle"
           /\ UNCHANGED <<iovars, asked, to, at, result, answer>>

TlsContextValid == tls

\* What the caller of c is told as the last thing that happens to c.
Tell(c, what) == at' = [at EXCEPT ![c] = "over"] /\ answer' = [answer EXCEPT ![c] = what]

GoOn(c, stage) == at' = [at EXCEPT ![c] = stage] /\ UNCHANGED answer

Call(c, u) == /\ at[c] = "idle" /\ phase \in {"held", "live"}
              /\ c \in Ws => thread[Caller] = "none"
              /\ asked' = [asked EXCEPT ![c] = {u}]
              /\ UNCHANGED <<tls, result>>

\* connection_tls::set_hostname(): OpenSSL takes the name for SNI, or not.
HostnameSet(d) == IF d.tls THEN BOOLEAN ELSE {TRUE}

\* make_http_connection() and the start of connection::run().
MakeHttpConnection(c, d) ==
  /\ to' = [to EXCEPT ![c] = {d}]
  /\ IF d.tls /\ ~TlsContextValid THEN Tell(c, "error")
     ELSE \E set \in HostnameSet(d) : IF set THEN GoOn(c, "resolve") ELSE Tell(c, "error")
  /\ UNCHANGED iovars

\* http_request() and https_request() with a request: its port is as given.
HttpRequest(c, u) ==
  /\ c \in Http /\ u.scheme = "http" /\ PortNumber(u) # 0 /\ Call(c, u)
  /\ MakeHttpConnection(c, [tls |-> FALSE, port |-> u.port, target |-> u.target])

HttpsRequest(c, u) ==
  /\ c \in Http /\ u.scheme = "https" /\ PortNumber(u) # 0 /\ Call(c, u)
  /\ MakeHttpConnection(c, [tls |-> TRUE, port |-> u.port, target |-> u.target])

\* http_request() with a URL.
HttpUrl(c, u) ==
  /\ c \in Http /\ Call(c, u)
  /\ \/ /\ BuildRequest(u) = {}
        /\ Tell(c, "error")
        /\ UNCHANGED <<iovars, to>>
     \/ \E d \in BuildRequest(u) : MakeHttpConnection(c, d)

\* make_ws_connection(): without a TLS context it returns, and that is all.
MakeWsConnection(c, d) ==
  /\ to' = [to EXCEPT ![c] = {d}]
  /\ \/ /\ d.tls /\ ~TlsContextValid
        /\ Tell(c, "none")
        /\ UNCHANGED iovars
     \/ /\ d.tls => TlsContextValid
        /\ GoOn(c, "resolve")
        /\ Io!Post({c})

\* ws_connect() and wss_connect() with a host and a port.
WsConnect(c, u) ==
  /\ c \in Ws /\ u.scheme = "ws" /\ PortNumber(u) # 0 /\ Call(c, u)
  /\ MakeWsConnection(c, [tls |-> FALSE, port |-> u.port, target |-> u.target])

WssConnect(c, u) ==
  /\ c \in Ws /\ u.scheme = "wss" /\ PortNumber(u) # 0 /\ Call(c, u)
  /\ MakeWsConnection(c, [tls |-> TRUE, port |-> u.port, target |-> u.target])

\* ws_connect() with a URL: one that build_endpoint() refuses is answered with an
\* error code of value 0, and no connection.
WsUrl(c, u) ==
  /\ c \in Ws /\ Call(c, u)
  /\ \/ /\ BuildEndpoint(u) = {}
        /\ Tell(c, "invalid")
        /\ UNCHANGED <<iovars, to>>
     \/ \E d \in BuildEndpoint(u) : MakeWsConnection(c, d)

-----------------------------------------------------------------------------
(* Operations.                                                             *)

\* Mutant: nobody sets a timeout for what the server has to say.
TimedButRead == {"connect", "handshake", "write", "upgrade"}

\* A request sets the timer before connecting, before the handshake and before
\* writing, and what is left of the last one is for reading.  A websocket sets
\* it before connecting and turns it off then, for the TLS handshake and for
\* all that its user does; upgrading has a timeout of its own.
Timed == {"connect", "handshake", "write", "read", "upgrade"}

Ends(c, r) == /\ Io!Complete(c)
              /\ result' = [result EXCEPT ![c] = r]
              /\ UNCHANGED <<tls, asked, to, at, answer>>

TimesOut(c) == at[c] \in Timed /\ Ends(c, "error")

\* The name is resolved, or not: on the io_context for a websocket, ...
WsResolved(c) == c \in Ws /\ at[c] = "resolve" /\ \E r \in {"ok", "error"} : Ends(c, r)

\* ... and on the user's executor for a request, which goes on to connect.
HttpResolved(c) ==
  /\ c \in Http /\ at[c] = "resolve"
  /\ \/ Tell(c, "error") /\ UNCHANGED iovars
     \/ GoOn(c, "connect") /\ Io!Post({c})
  /\ UNCHANGED <<tls, asked, to, result>>

\* The handler of an operation of a request hands it to the user's executor.
HttpHandler(t, c) == /\ c \in Http /\ Io!Finish(t, c, {})
                     /\ UNCHANGED callvars

\* Mutant: the hook of a plain connection.
HookPlain(c) == "write"

\* hook_connected(): nothing, or the TLS handshake before anything is written.
HookConnected(c) == IF \E d \in to[c] : d.tls THEN "handshake" ELSE "write"

\* The operation that follows in connection::run().
After(c) == CASE at[c] = "connect" -> HookConnected(c)
              [] at[c] = "handshake" -> "write"
              [] at[c] = "write" -> "read"
              [] at[c] = "read" -> "over"

\* The coroutine resumes.  Connecting reports its error in the result; the
\* handshake, writing and reading have no error code to put it in and throw.
HttpContinue(c) ==
  /\ OnExecutor(c) /\ at[c] # "resolve"
  /\ \/ /\ result[c] = "error"
        /\ Tell(c, IF at[c] = "connect" THEN "error" ELSE "thrown")
        /\ UNCHANGED iovars
     \/ /\ result[c] = "ok" /\ After(c) = "over"
        /\ Tell(c, "response")
        /\ UNCHANGED iovars
     \/ /\ result[c] = "ok" /\ After(c) # "over"
        /\ GoOn(c, After(c))
        /\ Io!Post({c})
  /\ UNCHANGED <<tls, asked, to, result>>

\* The callback of async_resolve().
OnResolved(t, c) ==
  /\ c \in Ws /\ at[c] = "resolve"
  /\ \/ result[c] = "ok" /\ GoOn(c, "connect") /\ Io!Finish(t, c, {c})
     \/ result[c] = "error" /\ Tell(c, "error") /\ Io!Finish(t, c, {})
  /\ UNCHANGED <<tls, asked, to, result>>

\* on_connect(): the TLS handshake first, if the stream has TLS.
HookWs(c) == IF \E d \in to[c] : d.tls THEN "secure" ELSE "upgrade"

\* The callback of async_connect().
OnConnect(t, c) ==
  /\ c \in Ws /\ at[c] = "connect"
  /\ \/ result[c] = "ok" /\ GoOn(c, HookWs(c)) /\ Io!Finish(t, c, {c})
     \/ result[c] = "error" /\ Tell(c, "error") /\ Io!Finish(t, c, {})
  /\ UNCHANGED <<tls, asked, to, result>>

\* The callback of the TLS handshake tells the user of an error, and upgrades
\* the stream all the same.
OnTlsHandshake(t, c) ==
  /\ c \in Ws /\ at[c] = "secure"
  /\ at' = [at EXCEPT ![c] = "upgrade"]
  /\ answer' = [answer EXCEPT ![c] = IF result[c] = "ok" THEN @ ELSE "error"]
  /\ Io!Finish(t, c, {c})
  /\ UNCHANGED <<tls, asked, to, result>>

\* The callback of the websocket handshake.  The user who gets a connection may
\* start to read or write.
OnHandshake(t, c) ==
  /\ c \in Ws /\ at[c] = "upgrade"
  /\ \/ result[c] = "error" /\ Tell(c, "error") /\ Io!Finish(t, c, {})
     \/ result[c] = "ok" /\ Tell(c, "conn") /\ Io!Finish(t, c, {})
     \/ /\ result[c] = "ok"
        /\ at' = [at EXCEPT ![c] = "talk"]
        /\ answer' = [answer EXCEPT ![c] = "conn"]
        /\ Io!Finish(t, c, {c})
  /\ UNCHANGED <<tls, asked, to, result>>

\* A callback of the user's, who goes on with the connection or lets go of it.
OnTalk(t, c) ==
  /\ c \in Ws /\ at[c] = "talk"
  /\ \/ GoOn(c, "talk") /\ Io!Finish(t, c, {c})
     \/ GoOn(c, "over") /\ Io!Finish(t, c, {})
  /\ UNCHANGED <<tls, asked, to, result>>

WsHandler(t, c) == \/ OnResolved(t, c) \/ OnConnect(t, c) \/ OnTlsHandshake(t, c)
                   \/ OnHandshake(t, c) \/ OnTalk(t, c)

-----------------------------------------------------------------------------
(* The session.                                                            *)

Start == Io!Start /\ UNCHANGED callvars
Run == Io!Run /\ UNCHANGED callvars
Destroy == Io!Destroy /\ (\A c \in Calls : ~OnExecutor(c)) /\ UNCHANGED callvars
Join(t) == Io!Join(t) /\ UNCHANGED callvars

\* With the handlers go the coroutines and callbacks that wait for them.
Free == /\ Io!Free
        /\ at' = [c \in Calls |-> IF op[c] # "none" THEN "lost" ELSE at[c]]
        /\ UNCHANGED <<tls, asked, to, result, answer>>

Take(t, c) == Io!Take(t, c) /\ UNCHANGED callvars
Return(t) == Io!Return(t) /\ UNCHANGED callvars

Use == \/ InitTls \/ Start \/ Run \/ Destroy
       \/ \E c \in Calls, u \in Urls :
            \/ HttpRequest(c, u) \/ HttpsRequest(c, u) \/ HttpUrl(c, u)
            \/ WsConnect(c, u) \/ WssConnect(c, u) \/ WsUrl(c, u)

\* Steps that end or continue something, and so are fair.
OfThread(t) == Return(t) \/ Join(t) \/ \E c \in Calls : Take(t, c) \/ HttpHandler(t, c) \/ WsHandler(t, c)
OfCall(c) == HttpResolved(c) \/ HttpContinue(c) \/ WsResolved(c) \/ TimesOut(c)

\* The network and the other side: an operation of a stream succeeds, or fails,
\* as upgrading does on a stream that has had no TLS handshake.
StreamEnds(c) == /\ at[c] # "resolve"
                 /\ \E r \in {"ok", "error"} : /\ answer[c] = "error" => r = "error"
                                               /\ Ends(c, r)

Next == \/ Use \/ Free
        \/ \E t \in Workers \cup {Caller} : OfThread(t)
        \/ \E c \in Calls : OfCall(c) \/ StreamEnds(c)

\* Threads run, the io_context's queue passes over no handler, names are
\* resolved or not, timers go off, coroutines resume and the destructor gets
\* on.  Users have to do nothing, and no operation has to succeed; one without
\* a timer need not even end.
Fairness == /\ \A t \in Workers \cup {Caller} : WF_vars(OfThread(t))
            /\ \A c \in Calls : WF_vars(\E t \in Workers \cup {Caller} : Take(t, c))
            /\ \A c \in Calls : WF_vars(OfCall(c))
            /\ WF_vars(Free)

Spec == Init /\ [][Next]_vars /\ Fairness

-----------------------------------------------------------------------------
TypeInv == /\ Io!IInv
           /\ tls \in BOOLEAN
           /\ asked \in [Calls -> SUBSET Urls]
           /\ to \in [Calls -> SUBSET Places]
           /\ at \in [Calls -> Stages]
           /\ result \in [Calls -> {"ok", "error"}]
           /\ answer \in [Calls -> Answers]

\* A call goes to the port its URL names, if 16 bits hold it, or implies, and one
\* that asks for TLS never does without: it is refused if there is no context, a
\* request is not written before its handshake went well, and a websocket is
\* not upgraded before its own was tried.  (build_request(), build_endpoint(),
\* tls_context_valid(), hook_connected(), on_connect().)
SentAsAsked ==
  [][\A c \in Calls : \A u \in asked[c] :
       /\ at'[c] = "connect" /\ at[c] # "connect" =>
            \E d \in to[c] : /\ d.tls <=> u.scheme \in {"https", "wss"}
                             /\ d.tls => tls
                             /\ d.port = IF u.port > 0 /\ u.port < 65536 THEN u.port
                                         ELSE IF d.tls THEN 443 ELSE 80
       /\ at'[c] = "write" /\ at[c] # "write" /\ u.scheme = "https" =>
            at[c] = "handshake" /\ result[c] = "ok"
       /\ at'[c] = "upgrade" /\ at[c] # "upgrade" /\ u.scheme = "wss" =>
            at[c] = "secure"]_vars

\* A destructor comes to its end, whatever is under way.
DestructionEnds == phase = "stopping" ~> phase = "gone"

\* run() returns, unless a websocket is for ever in its TLS handshake or with
\* its user: nothing else that a client does goes on for ever.
RunReturns ==
  thread[Caller] = "run" ~>
    \/ thread[Caller] = "none"
    \/ \E c \in Ws : [](at[c] \in {"secure", "talk"})

\* Every call that is in progress on a live session is answered, whatever the
\* server does, unless the session is destroyed; a websocket whose server says
\* nothing in the TLS handshake is not.  A request may be left over as well if
\* run() was called: it is no work between two of its operations.
CallsAnswered ==
  \A c \in Calls :
    InProgress(c) /\ phase = "live" /\ ~stopped ~>
      \/ answer[c] # "none"
      \/ phase # "live"
      \/ c \in Http /\ stopped
      \/ c \in Ws /\ [](at[c] = "secure" /\ op[c] = "pending")
=============================================================================
