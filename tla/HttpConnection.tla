--------------------------- MODULE HttpConnection ---------------------------
(***************************************************************************)
(* One client's TCP connection to the malloy server: the detector          *)
(* (server/http/connection_detector.cpp), the plain or TLS connection it   *)
(* starts (connection.hpp, connection_plain.hpp, connection_tls.hpp), and  *)
(* the ways the router (router.hpp) ends a request: a handler that reads   *)
(* the body first, an answer given at once (policy, redirect, no match,    *)
(* missing handler), or the hand-over to a websocket connection.           *)
(*                                                                         *)
(* The bytes of a request are two units, its header and (if it has one)    *)
(* its body; a read takes in at least one unit and possibly more.  A body  *)
(* is any data, and may happen to read like a request: one that is         *)
(* answered at once, without a body of its own, stands for them.  The      *)
(* client and the network are external.                                    *)
(***************************************************************************)
EXTENDS Naturals, Sequences

CONSTANT MaxRequests  \* bound on the requests the client sends

ASSUME MaxRequestsAssumption == MaxRequests \in Nat

VARIABLES
  tlsClient,  \* the client starts with a TLS handshake
  tlsCtx,     \* m_ctx: the server was given a TLS context
  phase,      \* the asynchronous operation under way, or how it all ended
  isTls,      \* the connection is a connection_tls
  ghost,      \* the second connection the detector starts after a TLS one
  armed,      \* the stream's timer is set
  buffer,     \* m_buffer of the connection
  genBuffer,  \* m_buffer of the request_generator
  current,    \* the request being handled, 0 if none
  response,   \* m_response: the request whose response is kept alive, or 0
  answered,   \* the requests whose responses were written, in order
  skipped,    \* a request was answered without reading its body
  reqs,       \* the requests the client has sent
  wire,       \* units sent and not received
  owed,       \* the client still has to send the body of its last request
  pipelined,  \* the client sent a request before it had the last answer
  eof         \* the client has shut its side

setup == <<tlsClient, tlsCtx>>
server == <<phase, isTls, ghost, armed, buffer, genBuffer, current, response, answered, skipped>>
client == <<reqs, wire, owed, pipelined, eof>>
vars == <<setup, server, client>>

\* What becomes of a request depends on the router's tables.  "page": a regex
\* or file endpoint, which reads the body; "direct": answered at once.  `close'
\* stands for a request after whose response the stream must end (need_eof()).
Request == [kind : {"page", "direct"}, body : {"none", "data", "request"}, close : BOOLEAN]
             \cup [kind : {"upgrade", "upgrade_unrouted"}, body : {"none"}, close : {FALSE}]

HasBody(r) == r.body # "none"

Header(i) == <<"header", i>>
Body(i) == <<"body", i>>
ClientHello == <<"hello", 0>>

Over == {"shutdown", "closed", "dropped", "upgraded"}

Init ==
  /\ tlsClient \in BOOLEAN /\ tlsCtx \in BOOLEAN
  /\ phase = "detecting" /\ isTls = FALSE /\ ghost = "none" /\ armed = TRUE
  /\ buffer = <<>> /\ genBuffer = <<>>
  /\ current = 0 /\ response = 0 /\ answered = <<>> /\ skipped = FALSE
  /\ reqs = <<>> /\ wire = <<>> /\ owed = FALSE /\ pipelined = FALSE /\ eof = FALSE

-----------------------------------------------------------------------------
(* The client.                                                             *)

ClientSend ==
  /\ ~eof /\ ~owed /\ Len(reqs) < MaxRequests
  /\ tlsClient => isTls /\ phase # "handshaking"
  /\ \E r \in Request :
       /\ reqs' = Append(reqs, r)
       /\ owed' = HasBody(r)
  /\ wire' = Append(wire, Header(Len(reqs) + 1))
  /\ pipelined' = (pipelined \/ Len(answered) < Len(reqs))
  /\ UNCHANGED <<setup, server, eof>>

ClientSendBody ==
  /\ owed /\ ~eof
  /\ owed' = FALSE
  /\ wire' = Append(wire, Body(Len(reqs)))
  /\ UNCHANGED <<setup, server, reqs, pipelined, eof>>

ClientEof == /\ ~eof
             /\ eof' = TRUE
             /\ UNCHANGED <<setup, server, reqs, wire, owed, pipelined>>

-----------------------------------------------------------------------------
(* Detection and the TLS handshake.                                        *)

\* The operation under way takes in units of the wire: the detector and the
\* header read into m_buffer, the body read into the generator's buffer.
Receive ==
  /\ wire # <<>>
  /\ \E k \in 1..Len(wire) :
       /\ wire' = SubSeq(wire, k + 1, Len(wire))
       /\ \/ /\ phase \in {"detecting", "reading"} /\ buffer = <<>>
             /\ buffer' = SubSeq(wire, 1, k)
             /\ UNCHANGED genBuffer
          \/ /\ phase = "body" /\ genBuffer = <<>>
             /\ genBuffer' = SubSeq(wire, 1, k)
             /\ UNCHANGED buffer
  /\ UNCHANGED <<phase, isTls, ghost, armed, current, response, answered, skipped,
                 setup, reqs, owed, pipelined, eof>>

\* Mutant: the new stream never gets a timeout.
DoReadUntimed == phase' = "reading" /\ armed' = FALSE

\* do_read(): a new parser, a new timeout, async_read_header.
DoRead == phase' = "reading" /\ armed' = TRUE

\* connection_tls::run(): the handshake, under a timeout.
StartTls == /\ isTls' = TRUE
            /\ phase' = "handshaking"
            /\ armed' = TRUE

\* on_detect(): a detected handshake with a TLS context starts a TLS
\* connection and then, with the socket gone, a plain one as well; without
\* a context the handshake goes to a plain connection.
OnDetect ==
  /\ phase = "detecting"
  /\ \/ /\ tlsClient /\ tlsCtx
        /\ StartTls
        /\ ghost' = "reading"
        /\ UNCHANGED buffer
     \/ /\ tlsClient /\ ~tlsCtx
        /\ DoRead
        /\ buffer' = <<ClientHello>>
        /\ UNCHANGED <<isTls, ghost>>
     \/ /\ ~tlsClient /\ buffer # <<>>
        /\ DoRead
        /\ UNCHANGED <<isTls, ghost, buffer>>
  /\ UNCHANGED <<genBuffer, current, response, answered, skipped, setup, client>>

\* The plain connection started after a TLS one reads on a moved-from socket.
GhostRead == /\ ghost = "reading"
             /\ ghost' = "dropped"
             /\ UNCHANGED <<phase, isTls, armed, buffer, genBuffer, current, response, answered, skipped, setup, client>>

\* connection_tls::on_handshake().
OnHandshake ==
  /\ phase = "handshaking"
  /\ DoRead \/ (phase' = "dropped" /\ UNCHANGED armed)
  /\ UNCHANGED <<isTls, ghost, buffer, genBuffer, current, response, answered, skipped, setup, client>>

-----------------------------------------------------------------------------
(* Requests.                                                               *)

\* Mutant: nobody keeps the response.
DoWriteUnkept(i) == phase' = "writing" /\ UNCHANGED response

\* do_write(): the response is kept alive until on_write().
DoWrite(i) == phase' = "writing" /\ response' = i

\* Mutant: the generator gets a copy of the buffer, which stays as it is.
OnReadCopies ==
  /\ phase = "reading"
  /\ buffer # <<>>
  /\ \E i \in 1..Len(reqs) :
       /\ Head(buffer) = Header(i)
       /\ current' = i
       /\ genBuffer' = Tail(buffer)
       /\ IF reqs[i].kind = "page"
            THEN phase' = "body" /\ UNCHANGED response
            ELSE DoWrite(i)
  /\ UNCHANGED <<isTls, ghost, armed, buffer, answered, skipped, setup, client>>

\* The request's generator takes over parser, header and buffer.
Generate(i) == /\ current' = i
               /\ genBuffer' = Tail(buffer)
               /\ buffer' = <<>>

\* A websocket request: the stream goes on without timeout, to an endpoint or,
\* if the router finds none, to nobody.
Upgrade(routed) == /\ phase' = IF routed THEN "upgraded" ELSE "dropped"
                   /\ armed' = FALSE
                   /\ UNCHANGED <<response, skipped>>

\* on_read() with a header: parser and buffer, with all that was read beyond
\* the header, go to the request's generator, and the router decides.
OnRead ==
  /\ phase = "reading"
  /\ buffer # <<>>
  /\ \E i \in 1..Len(reqs) :
       /\ Head(buffer) = Header(i)
       /\ Generate(i)
       /\ \/ /\ reqs[i].kind = "page"
             /\ phase' = "body"
             /\ UNCHANGED <<armed, response, skipped>>
          \/ /\ reqs[i].kind = "direct"
             /\ DoWrite(i)
             /\ skipped' = (skipped \/ HasBody(reqs[i]))
             /\ UNCHANGED armed
          \/ /\ reqs[i].kind \in {"upgrade", "upgrade_unrouted"}
             /\ Upgrade(reqs[i].kind = "upgrade")
  /\ UNCHANGED <<isTls, ghost, answered, setup, client>>

\* The parser knows nothing of requests that were there before: the body of
\* the i-th, left unread, parses as one if it reads like one.
ParsedBody(i) == Head(buffer) = Body(i) /\ reqs[i].body = "request"

\* on_read() with such a body: it is a request to the server, and answered;
\* whether the stream ends after that is as in the request it came with.
OnReadBody ==
  /\ phase = "reading"
  /\ buffer # <<>>
  /\ \E i \in 1..Len(reqs) :
       /\ ParsedBody(i)
       /\ Generate(i)
       /\ DoWrite(i)
  /\ UNCHANGED <<isTls, ghost, armed, answered, skipped, setup, client>>

\* on_read() with bytes that are no header: logged, and nobody holds the
\* connection any more.
OnReadGarbage ==
  /\ phase = "reading"
  /\ buffer # <<>>
  /\ \A i \in 1..Len(reqs) : Head(buffer) # Header(i) /\ ~ParsedBody(i)
  /\ phase' = "dropped"
  /\ UNCHANGED <<isTls, ghost, armed, buffer, genBuffer, current, response, answered, skipped, setup, client>>

\* connection_plain shuts its side of the socket down, ...
ClosePlain == phase' = "closed" /\ UNCHANGED armed

\* ... and connection_tls starts async_shutdown under a new timeout.
CloseTls == phase' = "shutdown" /\ armed' = TRUE

DoClose == IF isTls THEN CloseTls ELSE ClosePlain

\* on_read() at the end of the stream.
OnReadEof ==
  /\ phase = "reading" /\ buffer = <<>> /\ wire = <<>> /\ eof
  /\ DoClose
  /\ UNCHANGED <<isTls, ghost, buffer, genBuffer, current, response, answered, skipped, setup, client>>

\* Mutant: the handler runs before the body is there.
OnBodyEarly == /\ phase = "body"
               /\ DoWrite(current)
               /\ UNCHANGED <<isTls, ghost, armed, buffer, genBuffer, current, answered, skipped, setup, client>>

\* request_generator::body(): the body is complete; the handler runs and its
\* response is written.
OnBody ==
  /\ phase = "body"
  /\ \/ /\ ~HasBody(reqs[current])
        /\ UNCHANGED genBuffer
     \/ /\ HasBody(reqs[current])
        /\ genBuffer # <<>> /\ Head(genBuffer) = Body(current)
        /\ genBuffer' = Tail(genBuffer)
  /\ DoWrite(current)
  /\ UNCHANGED <<isTls, ghost, armed, buffer, current, answered, skipped, setup, client>>

\* Mutant: the next request is read while the last one is still around.
OnWriteKeepsRequest ==
  /\ phase = "writing"
  /\ answered' = Append(answered, response)
  /\ genBuffer' = <<>>
  /\ response' = 0
  /\ DoRead
  /\ UNCHANGED <<isTls, ghost, buffer, current, skipped, setup, client>>

\* on_write(): the generator is gone, and its buffer with it.
OnWrite ==
  /\ phase = "writing"
  /\ answered' = Append(answered, response)
  /\ genBuffer' = <<>>
  /\ current' = 0
  /\ IF reqs[current].close
       THEN DoClose /\ UNCHANGED response
       ELSE DoRead /\ response' = 0
  /\ UNCHANGED <<isTls, ghost, buffer, skipped, setup, client>>

\* Any other failure of the operation under way is logged, and the connection
\* is let go.
Fail ==
  /\ phase \in {"detecting", "handshaking", "reading", "body", "writing"}
  /\ phase' = "dropped"
  /\ UNCHANGED <<isTls, ghost, armed, buffer, genBuffer, current, response, answered, skipped, setup, client>>

\* The stream's timer ends the operation under way: on_read() closes then, the
\* other completions take it for an error like any.
OnTimeout ==
  /\ armed
  /\ \/ phase = "reading" /\ DoClose
     \/ phase = "shutdown" /\ phase' = "closed" /\ UNCHANGED armed
     \/ /\ phase \in {"detecting", "handshaking", "body", "writing"}
        /\ phase' = "dropped"
        /\ UNCHANGED armed
  /\ UNCHANGED <<isTls, ghost, buffer, genBuffer, current, response, answered, skipped, setup, client>>

\* connection_tls::on_shutdown(), whatever its outcome.
OnShutdown == /\ phase = "shutdown"
              /\ phase' = "closed"
              /\ UNCHANGED <<isTls, ghost, armed, buffer, genBuffer, current, response, answered, skipped, setup, client>>

Network == ClientSend \/ ClientSendBody \/ ClientEof \/ Receive \/ Fail

Server == \/ OnDetect \/ GhostRead \/ OnHandshake
          \/ OnRead \/ OnReadBody \/ OnReadGarbage \/ OnReadEof \/ OnBody \/ OnWrite \/ OnShutdown

Next == Network \/ Server \/ OnTimeout

\* Nothing makes a client send or a network fail, and no operation on the
\* socket has to complete; the timer of a stream goes off in the end.
Spec == Init /\ [][Next]_vars /\ WF_vars(OnTimeout)

-----------------------------------------------------------------------------
(* What should be true.                                                    *)

Units == {ClientHello} \cup {Header(i) : i \in 1..MaxRequests} \cup {Body(i) : i \in 1..MaxRequests}

\* Types; and a request is being handled exactly while its body is read or its
\* response is written, or was when the connection was let go.
TypeInv ==
  /\ tlsClient \in BOOLEAN /\ tlsCtx \in BOOLEAN
  /\ phase \in Over \cup {"detecting", "handshaking", "reading", "body", "writing"}
  /\ isTls \in BOOLEAN /\ armed \in BOOLEAN
  /\ ghost \in {"none", "reading", "dropped"}
  /\ buffer \in Seq(Units) /\ genBuffer \in Seq(Units) /\ wire \in Seq(Units)
  /\ current \in 0..MaxRequests
  /\ response \in 0..MaxRequests
  /\ answered \in Seq(1..MaxRequests)
  /\ reqs \in Seq(Request)
  /\ skipped \in BOOLEAN /\ owed \in BOOLEAN /\ pipelined \in BOOLEAN /\ eof \in BOOLEAN
  /\ phase \in {"body", "writing"} => current # 0
  /\ phase \in {"detecting", "handshaking", "reading"} => current = 0

\* Between two requests the connection stands at the start of the next one:
\* what is buffered and on its way begins with that header.  m_buffer moves
\* into the generator with whatever was read ahead (connection.hpp:300) and is
\* gone with it, so this takes a client that waits for its answers and a
\* router that reads every body.
AtRequestBoundary ==
  phase = "reading" /\ (tlsClient => tlsCtx) /\ ~pipelined /\ ~skipped =>
    LET ahead == buffer \o wire
    IN  ahead = <<>> \/ Head(ahead) = Header(Len(answered) + 1)

\* Nothing is answered before what the client sent earlier.  A client that waits
\* for its answers, of a server that reads the bodies it is sent, gets one answer
\* for each request.  Any other may get two for one, or none: a body that was
\* left on the wire and reads like a request is answered like one, and a request
\* that was read ahead is lost with the generator it was moved into.
AnswersInOrder ==
  /\ \A j, k \in DOMAIN answered : j < k => answered[j] <= answered[k]
  /\ ~pipelined /\ ~skipped => \A k \in DOMAIN answered : answered[k] = k

\* The response stays alive while it is being written, and no other request
\* is read meanwhile: the half duplex that lets one m_response do
\* (connection.hpp:206-208).
OneResponse ==
  phase = "writing" => /\ response = current
                       /\ \A k \in DOMAIN answered : answered[k] <= response
                       /\ buffer = <<>>

\* Whatever the client does, a connection leaves each request behind: it is
\* answered, or the connection ends.  No operation on the stream is without a
\* timeout, and a client that trickles does not extend it (connection.hpp:235).
EveryRequestEnds ==
  \A n \in 0..(2 * MaxRequests) :
    Len(answered) = n /\ phase \notin Over \ {"shutdown"} ~>
      Len(answered) > n \/ phase \in Over \ {"shutdown"}
=============================================================================
