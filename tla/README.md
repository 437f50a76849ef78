# malloy: models, checks and proofs

malloy is a small C++ HTTP and WebSocket library over Boost.Asio and
Boost.Beast, for servers and clients. This directory holds TLA+ modules of the
parts in which order, concurrency, failure and boundaries matter, TLC
configurations that check them, and TLAPS proofs. Paths below are relative to
`src/lib/malloy`.

    tlc -workers 2 -config ws_server.cfg MCWsConnection     (see "The runs")
    tlapm WsConnectionProofs.tla                            (see "What is proved")

## The system

    server                                             client
    session (controller_run_result)                    session
      io_context, threads                                io_context, threads
      | operations and handlers                          | operations and handlers
    listener --> connection_detector                   controller --> http connection
                   |  connection_plain / _tls                    \--> websocket::connection
                   |  request_generator
                   v
                 router --> sub-routers --> endpoints, policies
                   |                          | handlers use
                   v                          v
          websocket::connection     sessions::manager, html::form, cookies, ...
            | read queue, write queue
            v
        action_queue (twice) over one strand

A server is configured (`routing_context`, one `router` with sub-routers) and
started; the session that `start()` returns (`controller_run_result`) keeps an
`io_context` and its threads. For each accepted socket a detector decides between
plain and TLS. A connection reads one request header at a time, hands the request
to the router, and writes the response that a policy, an endpoint's handler or the
router itself produces. WebSocket upgrades leave the HTTP connection for a
`websocket::connection`, whose calls may come from any thread. Handlers of
different connections run at the same time and share the session manager and
whatever forms they keep. A client has the same kind of session; each of its HTTP
requests is a coroutine with a connection of its own, and each WebSocket connect a
chain of callbacks that ends with a `websocket::connection`.

| Component (code) | State | Operations | Hard behaviour | What makes it correct | Module |
|---|---|---|---|---|---|
| action queue (`core/detail/action_queue.hpp`) | `m_acts`, `m_currently_running_act`, `m_running`, the strand | `push`, `run`, `exe_next`, the callback | a flag set in one function of the strand and used in another | one action at a time, in order, none left behind | `ActionQueue` implements `SerialQueue` |
| websocket connection (`core/websocket/connection.hpp`) | `m_state`, two action queues, stream | `accept`, `connect`, `send`, `read`, `disconnect`, `force_disconnect`, completions | the same close action in two queues; calls from other threads and before the handshake is over; failed handshakes; a peer that does not read | one read, one write, one close; every call answered that no such peer holds up | `WsConnection` over `ActionQueue` |
| server HTTP connection (`server/http/*`) | `m_buffer`, parser, `m_response`, the generator and its buffer, timer | detect, handshake, read header, read body, write, close | pipelining, bodies left unread that read like requests, timeouts, silent clients | framing kept, answers in order, never stuck | `HttpConnection` |
| listener (`server/listener.cpp`) | acceptor | constructor, `run`, `do_accept`, `on_accept` | an error ends the accept loop, a reset client throws | keeps accepting; nothing outlives the session | `Listener` over `IoSession` |
| session of a controller (`core/detail/controller_run_result.hpp`) | `io_context`, work guard, threads | start, `run`, destruction | stop while handlers run, run out of work, exceptions in threads | everything out and joined before it is destroyed; both calls return | `IoSession` |
| client controller and connection (`client/*`, the URL builders) | `m_ioc`, TLS context, per call a coroutine or a chain of callbacks | the `http_request` and `ws_connect` families, `init_tls`, `start` | each step may fail, four channels for errors; one step has no timeout; the `io_context` may run dry in the middle | goes where the URL says, with TLS if it says so; one answer per call | `Client` over `IoSession`, `Url` |
| sessions (`core/http/session/*`) | map of records, access times, cookies with clients | `get`, `start`, `destroy`, `destroy_expired`, session `get`/`set`/`remove` | lock only around the map; old cookies; ids that repeat; expiry while in use | sessions private, found again, kept while used, removed in the end | `SessionManager` |
| router (`server/routing/*`, `start()`) | sub-routers, endpoints, policies, logger, server string | the `add_*` functions, `set_logger`, move, `start`, `handle_request` | any order of construction, lambdas that capture `this`, moves | a tree with one server string; no policy passed by | `Router` |
| text functions (`core/utils.hpp`, `core/http/utils.hpp`, `cookie`, `core/html/multipart_parser.cpp`, `server/auth/basic.hpp`) | none | `split`, `url_decode`, `cookie_value`, multipart, credentials | delimiters at the ends, counting bytes, what browsers do | give back what the browser was given | `HttpText` |
| html forms (`core/html/form*`) | fields with values | `add_field`, `populate`, `clear_values`, `parse`, rendering | a form kept between the requests of two users | shows what was submitted since it was cleared | `HttpContent` |
| generator, preflight headers, file filter, TLS manager, stream wrapper, type traits | none of note | | | | not modelled: fixed text, disk, OpenSSL, forwarding |

The remaining code (aliases, concepts, mocks, vendored certify, examples) has no
behaviour of its own. `PROJECT.json` lists all of it.

## The modules

**`SerialQueue`** says what an action queue promises: pending actions are executed
in order, and none while an earlier one owes its callback.

**`ActionQueue`** is the code. `push()` and `exe_next()` dispatch onto a strand; the
model keeps the strand's FIFO and takes functions out one at a time (`StrandPush`,
`StrandExec`). Dispatching from the strand itself may run inline, which is the
schedule where the appended function is next; the dispatch inside `push()`'s own
function (`run()` → `exe_next()`) is always inline and is part of `StrandPush`.
`Done` is the callback an action owes. The refinement mapping takes
`m_acts` followed by the pushed functions still in the strand for the pending
actions, and the executed actions that owe their callbacks for the current one.

**`WsConnection`** instantiates `ActionQueue` twice, for reads and for writes, so a
fault of the queue is a fault of the connection. Each element of `Sends`, `Reads`,
`Closers`, `Forcers` is one call of `send()`, `read()`, `disconnect()`,
`force_disconnect()`. `disconnect()` is three steps (test the state, push into the
write queue, push into the read queue) as it may run on any thread;
`force_disconnect()` is one step on the strand and two off it (`OffStrand`).
`IsClient` and `IsTls` choose how the connection is opened. A server's handler has
the connection before it calls `accept()` and calls when it likes, a client's user
gets it from the callback of `connect()` (`Usable`); `early` remembers that somebody
called before being told that the stream is open. The Beast stream is external:
`LoseStream`, the outcome of each completion, the write lock that a write and a close
wait for (`writing`, `Beaten`), and a peer that stops reading (`GoDeaf`).

**`HttpConnection`** is one client and one connection. A request is a header and
maybe a body, each one unit on the wire; a read takes one unit or more, so what is
read ahead moves from `m_buffer` into the generator as in the code. What the
router makes of a request is a choice made when the client sends it (`Request`), and
so is whether its body happens to read like a request: left on the wire, it is then
parsed and answered as one (`OnReadBody`), and fails otherwise (`OnReadGarbage`).
The timer is `armed`; `OnTimeout` does what each completion does with a timeout.

**`IoSession`** is `controller_run_result` over an `io_context`, which is external:
operations under way become handlers, threads inside `run()` take them, and the
`io_context` stops when it is told to or when it has neither work nor a guard.
`run()` drops the guard (`Run`, `Return`), the destructor stops, joins and frees
(`Destroy`, `Join`, `Free`), and a handler that throws ends the process from a worker
and `run()` from the caller's thread (`Throw`). It has no specification of its own;
`Listener` and `Client` are two instances of it.

**`Listener`** is the acceptor on such a session: one operation `Accept` that
`do_accept()` starts and `on_accept()` handles, the errors the constructor only
logs (`Listen`), and `remote_endpoint()`, which throws for a socket that its client
has reset (`Reset`, `OnAccept`). A connection is one operation here.

**`Client`** has the calls of a client on such a session. Each element of `Http` and
`Ws` is one call. An HTTP request runs on its user's executor and is work of the
`io_context` only while one of its operations is under way; a WebSocket call is work
all along, and so is what its user does with the connection (`talk`). Operations end,
but only those in `Timed` have to: the TLS handshake of a WebSocket (`secure`) and its
user's operations have no timer. **`Url`** has the functions that take a URL apart.

**`SessionManager`** has the manager's operations as one step each, as they hold
`m_lock`, and the handlers' use of a session (`Access`), which does not, at any
moment between them. Ages stand for access times and stop one tick past the
lifetime. `generate_id()` gives any id, as nothing compares it with those in use;
`repeated` remembers that it gave one that is still stored, held or in a cookie.

**`Router`** has objects with identity, because the lambdas that write responses
capture the object an endpoint was added to, and objects are moved afterwards. An
entry remembers that object (`self`); moving a router (`Moved`) takes the tables and
leaves `self` behind. `AddSubrouter` covers both overloads: by `unique_ptr` the
object stays (`n = s`), by rvalue its content moves to a new one. The recursion of
`set_server_string()` is `Differing`, the least set of routers it reaches. Dispatch is
one request from router to router with the target chopped on the way. The order of
an `unordered_map` is a choice.

**`HttpText`** has the text functions over sequences of bytes (fixed phrases such as
header names are one symbol each), translated with their corner cases.
**`HttpContent`** is the round trip: a browser encodes a form, keeps and sends cookies
or types credentials (external, after its standards), the functions of `HttpText` take
it apart, and an `html::form` is kept, populated, cleared and shown.

**`MCWsConnection`**, **`MCRouter`**, **`MCClient`**, **`MCHttpContent`** add symmetry and
values: targets, URLs, texts. **`ActionQueueProofs`**, **`WsConnectionProofs`**,
**`HttpProofs`**, **`IoSessionProofs`**, **`ListenerProofs`**, **`ClientProofs`**,
**`SessionManagerProofs`** and **`RouterProofs`** hold the theorems.

Definitions with a comment "Mutant:" are not part of any specification. Each is a
plausible bug in the definition that follows it or comes soon after, and
`PROJECT.json` names the property that the bug breaks in the run it names: that is
how we know that the property can fail.

## The runs

| Run | Module | Bounds | Shows |
|---|---|---|---|
| `queue_serial` | `ActionQueue` | 3 functions, each pushed again and again | serial, in order, no lost wakeup, every action runs; implements `SerialQueue` (with its liveness) |
| `ws_server` | `MCWsConnection` | server; 2 sends, 2 reads, 1 disconnect, 1 force_disconnect on the strand, at any time | for users who wait for the handshake one write and read at a time, one close, nothing on the stream before; for all, only the handshake reopens an ending connection |
| `ws_live` | `MCWsConnection` | TLS client; 2 sends, 1 read, 1 disconnect, 1 force_disconnect from another thread; a peer that may stop reading | unless a write is held up for ever, every send is answered and `disconnect()` ends a stream whose peer is silent; once the stream has ended, every read is answered |
| `http_connection` | `HttpConnection` | 2 requests, every kind; plain and TLS client, with and without TLS context | no answer overtakes another; framing, if bodies are read and the client waits; the response's life time; no request pending for ever |
| `listener` | `Listener` | 3 clients, 2 workers and the caller's thread | the chain of accepts holds until an accept fails; waiting clients are accepted; destruction comes to its end and leaves nothing behind |
| `client` | `MCClient` | 1 HTTP and 1 WebSocket call, 8 URLs (with a port, without, over 16 bits), 2 workers and the caller's thread | calls go where their URL says, with TLS if it says so; `run()` returns and calls are answered, but for what has no timeout |
| `sessions` | `SessionManager` | 2 handlers, 2 clients, 2 ids, 2 records, lifetime 1; every id may come back | the session properties, until an id is repeated or whatever the ids are; abandoned sessions go |
| `router` | `MCRouter` | 2 sub-routers, 2 endpoints or policies, 3 resources (one the start of the other, one empty) | a tree, one server string, the `Server` field, policies |
| `content` | `MCHttpContent` | texts of up to 3 characters of the delimiters, every single byte, 2 fields, jars of 3 cookies over http and https, credentials of 2 characters with colons and zeros | forms come back as submitted, but for `+`; the cookie found is one in force; whom exactly `basic` admits; a kept form shows nothing old |
| `ws_tls_failure` | `MCWsConnection` | TLS client; 1 send, 1 read, 1 disconnect | *violated*: see 1 below |
| `ws_early` | `MCWsConnection` | server; 1 send, 1 read, 1 disconnect at any time | *violated*: 2 |
| `router_preflight` | `MCRouter` | as `router` | *violated*: 3 |

Why the bounds are enough for what is asked: a lost wakeup or an overlap in a queue
needs one action being executed, one waiting and one arriving. A wrong close
needs two closers, with a send and a read that can be before, between and behind
them, or one before the handshake is over. A body can be mistaken for a request, and a
request for the rest of another, with two requests. The
accept chain needs one client in service, one waiting and one that resets; stop and
join need a thread inside a handler, one waiting for it and the caller's own. Two
calls of a client, one that keeps the `io_context` busy and one that does not, are
enough for it to run dry in the middle of the other. A session is shared, lost or
revived with two clients, two handlers and an id that comes back or is given twice. Order of
construction and moves show on a chain of two below the top router. The text
functions treat a delimiter at the start, at the end and doubled in different ways,
which three characters have room for. The bounds by name are `MaxRequests`,
`MaxEntries`, `MaxLifetime` and the sizes of the sets. Symmetry is used in safety runs
only. Deadlock is checked in `queue_serial`; the other systems really stop, when all
calls are made, the connection or the session is over or the router tree is complete,
and their configurations turn it off.

### Fairness

* `ActionQueue`: the executor runs what was dispatched (`WF(StrandStep)`), and
  actions call their callback, as the header demands of them (line 17).
* `WsConnection`: what was dispatched runs; a write to a peer that reads, and any
  operation on a stream that has ended, completes; a close that has the write lock is
  over after 30 seconds (the one timeout that `stream_base::timeout::suggested` leaves a
  client after its handshake: `core/websocket/connection.hpp:451-452` turns the timer of
  the TCP stream off); who waits for the lock gets it in the end; a thread inside a call
  gets to its end. Nobody has to make a call, no peer has to send a message or to read
  one: a write to a peer that does not read stays, and `SendsAnswered` and
  `DisconnectEnds` have that case (`HeldUp`) as their exception.
* `HttpConnection`: the stream's timer goes off. Nothing else: no client has to
  send, no operation has to complete.
* `Listener`: each thread gets on (weak fairness for each one), the kernel hands over a
  connection that waits (`Accepted`), the destructor frees what is joined (`Free`).
  Users do nothing, and no connection has to end.
* `Client`: each thread gets on and the queue of the `io_context` passes over no handler
  (it is a FIFO); names are resolved or not, the timers that the code sets go off
  (`Timed`) and coroutines resume (`OfCall`, for each call); `Free`. Users do nothing, no
  operation has to succeed, and one without a timer need not end.
* `SessionManager`: time passes and somebody calls `destroy_expired()` repeatedly;
  the manager has no timer, its users have to.
* `Router`, `HttpContent`: none; safety only.

## Disagreements between code and documentation

With a run that shows them:

1. After a failed TLS handshake `on_connect()` reports the error and goes on with the
   WebSocket handshake, which calls the callback a second time
   (`core/websocket/connection.hpp:431-434`).
2. "Attempting to send or receive after calling this will result in error(s)"
   (`core/websocket/connection.hpp:210`): if a server's handler disconnects while
   `accept()` is under way, the close fails or is overtaken, and `go_active()` (`:355`)
   makes the connection active again. `ReopenedByHandshakeOnly` shows that nothing else
   does.
3. A preflight on the top-level router lists no methods after `start()`: its lambda
   captured the router that was moved from (`server/routing/router.cpp:125`,
   `server/routing_context.hpp:157`).

Noticed while modelling, without a run. Queues and WebSockets:

* "It will not execute anything until run() is called" (`action_queue.hpp:30`):
  `push()` starts an idle queue; and `run()` on a busy queue starts a second action.
  `ActionQueue` has the full effect of `run()` in `Run`, which `WsConnection` uses:
  `go_active()` may find its queues busy. `queue_serial` takes an owner that calls it on an
  idle queue (`RunIdle`), as `go_active()` does for users who wait.
* `disconnect()` is said to wait for all queued actions
  (`core/websocket/connection.hpp:31`); it waits for those of one queue, and an
  idle read queue closes the stream under waiting sends.
* `read()`'s callback "Will NOT be invoked on the websocket being closed"
  (`connection.hpp:269`); it is, with an error, and a test expects it.
* `force_disconnect()` "will have no effect if the connection state is closed or
  closing" (`:243`), but it tests in the calling thread and closes later: from
  another thread it can start a second `async_close`. `ws_server` has it on the strand.
* Calls made before the handshake is over are executed at once, as `push()` starts an
  idle queue; `go_active()` then runs a queue that is busy, which starts a second action:
  two writes or two reads on one stream. The properties that `early` conditions are
  about users who wait.
* `force_disconnect()` is not forced: `async_close` waits for the stream's write lock, and
  on a client a write to a peer that does not read holds it for ever
  (`:416`, `:451`); such a write is never answered either.
* A failed `async_close` leaves the state closing (`:393`), and a second `connect()` is
  not refused while the first is under way (`:137`).

Servers and clients:

* After starting a TLS connection the detector starts a plain one on the socket
  it has moved away (`server/http/connection_detector.cpp:144`; `GhostRead`).
* A body that no handler reads stays on the wire, and is parsed as the next request
  (`server/http/connection.hpp:222-247`). If it reads like one it is answered, and a client
  gets two answers for one request; `AnswersInOrder` promises one answer for each only
  where bodies are read.
* A failed accept ends the listener for good (`server/listener.cpp:104`). The
  listener's constructor only logs its errors, and `start()` goes on without them.
* `run()` is documented to block until all queued actions completed
  (`core/detail/controller_run_result.hpp:99`). On a client it may return in the middle
  of an HTTP request, which is no work between two of its operations, and the
  stopped `io_context` never answers that request or a later one. `CallsAnswered`
  excepts it.
* `http_request()` is documented to give "response or error_code"
  (`client/controller.hpp:134`); resolving and connecting do, the handshake, the write
  and the read throw (`thrown` in `Client`).
* The callback of `wss_connect()` is "invoked when the connection is established
  (successfully or otherwise)" (`:292`), but not without a TLS context; and
  `ws_connect()` with an invalid URL calls it with a null connection and an error
  code that is no error (`:337`).
* Nor is it called if the server says nothing in the TLS handshake of a `wss_connect()`:
  `expires_never()` (`core/websocket/connection.hpp:416`) comes before the handshake
  (`:427`), and the next timeout after it (`:452`). `CallsAnswered` and `RunReturns` except
  it, and `RunReturns` a connection whose user goes on with it.
* A port over 65535 is taken for none, and the call goes to the default port
  (`core/http/url.hpp:45`, `core/websocket/url.hpp`): `SentAsAsked` says so.
* Assumed of users, as nothing forbids or defines it: `start()` once, no call after the
  session is gone (`m_ioc` dangles), no session destroyed in one of its own handlers or
  under a request that is on its user's executor, no live session assigned to.

Sessions and routers:

* "protects sessions" (`core/http/session/manager.hpp:182`): the lock is released
  before the session is used, and two handlers write one session's map.
* Session ids are "unique" (`manager.hpp:195`) only by chance, and nobody compares them:
  if `generate_id()` repeats the id of a stored session, `start()` hands out a new object
  that is not stored, and its client comes back to the session of the other one. The
  properties about privacy hold until then (`repeated`).
* `add_subrouter()` returns true for a resource that is taken, having destroyed the
  sub-router (`server/routing/router.cpp:87`).
* A sub-router added by rvalue writes the `Server` field of the object it was moved
  from; `ServerFieldSet` excepts it.

Text and forms (what the properties of `content` leave out):

* `split("")` gives nothing, though a list with an empty string is documented
  (`core/utils.hpp:75`). A pair without a value (`a=`) is dropped, so a kept form shows
  the old value unless it is cleared first; so is a pair with two equals signs.
* Browsers write a space as `+`, which `url_decode()` leaves (`core/utils.hpp:136`); so
  does `ParsedIsSubmitted` (`Returned`). Names are not decoded at all, and the property
  is about names that are encoded as they are. A `Content-Type` with a charset is
  refused, a quoted boundary is not understood.
* A cookie value that ends with an equals sign loses it, and one that starts with
  one is lost. `request` takes a whole `Cookie` field for one cookie.
* `cookie_clear()` takes a name only and writes no `Path` and no `Domain`
  (`core/http/cookie.hpp:50-63`), so it leaves a cookie that has them, and is `Secure`, so it
  is ignored over plain http. `CookieFound` has it so: such a cookie stays in force.
* `basic` drops a colon before the typed name and one behind the typed password, and all
  that follows a 0 (`server/auth/basic.hpp:49-53`): others than the configured user get
  in, and with a name or a password that has a colon, or is empty, not even that one
  does. `OwnerAdmitted` says exactly who is admitted.
* `populate()` fills in password and file fields, which it is documented not to do
  (`core/html/form_field.hpp:42-48`).

## What is proved

For all values of the constants, from the named assumptions only: every invariant and
every safety property of a step that a passing run checks. Every module with a state
machine of its own has an inductive invariant `IInv` (in it or in its proof module) and a
theorem `Invariance == Spec => []IInv`, and takes its properties from there; the
exception is `HttpContent`, where the functions are the difficulty and not the states.

| Module | Assumptions | Properties of the runs, proved for every instance |
|---|---|---|
| `ActionQueueProofs` | `ExeNextAssumption` | `TypeInv`, `TokenInv`, `OneAtATime`, `NoLostWakeup`; the safety half of `ImplementsSerialQueue` |
| `WsConnectionProofs` | `CallsAssumption`, `SwitchesAssumption` | `TypeInv`, `OneWriteAndOneRead`, `NothingBeforeHandshake`, `ReopenedByHandshakeOnly`; `ClosedOnce` if `~OffStrand`; `AnnouncedOnce` if `~(IsClient /\ IsTls)`; and both queues implement `SerialQueue` for users who wait |
| `HttpProofs` | `MaxRequestsAssumption` | of `HttpConnection`: `TypeInv`, `AtRequestBoundary`, `AnswersInOrder`, `OneResponse` |
| `HttpProofs` | `TextsAssumption`, `NoneAssumption`, `BoundaryAssumption` | of `HttpContent`: `ParsedIsSubmitted`, `ShownSinceCleared`, `CookieFound`, `OwnerAdmitted` |
| `IoSessionProofs` | `SessionConstants` of the instance | `NothingAfterDestruction` of a session |
| `ListenerProofs` | `ListenerAssumption` | `NothingAfterDestruction`, `ChainUnbroken`; a listener implements `IoSession` |
| `ClientProofs` | `ClientAssumption` | `SentAsAsked`; a client controller implements `IoSession` |
| `SessionManagerProofs` | `NoneAssumption`, `ClearedAssumption`, `LifetimeAssumption` | `TypeInv`, `SessionsPrivate`, `OneRecordPerId`, `DeadCookieStaysDead`, `KeptWhileUsed` |
| `RouterProofs` | `ObjectsAssumption`, `TargetsAssumption` | `TypeInv`, `OneServerString`, `ServerFieldSet`, `PoliciesPassed` |

**`ActionQueue`.** `OneAtATime` is not inductive: an `exe_next()` dispatched while an action
owes its callback would execute a second one. `TokenInv` adds what the code relies on:
the flag `m_currently_running_act` is set exactly while there is *one token*, either an
executed action that owes its callback or one `exe_next()` in the strand, never
both and never two, and a queue without token is empty. Each action passes the
token on. For the refinement, the mapping takes `m_acts` followed by the pushed
functions of the strand (`Pushed(strand)`, the strand without its one `exe_next()`);
`IInv` is needed twice: what `Pushed` removes is all there is to remove, and nothing is
open when a function is executed, which is the guard of `Serial!Execute`.

**`WsConnection`.** The queue's lemmas hold of two instances of `ActionQueueProofs`
(`WQP`, `RQP`): each step of the connection is a step of a queue or leaves it alone.
The owner's discipline has to be shown, of users who wait: the queues are untouched until
`go_active()` starts them (`Untouched`, `Shaking`), and from then on a call is in one place
(`Used`). Of users who do not (`early`) only `Types` is left, which says what can be under
way at all; `ReopenedByNobodyElse` follows from that.
`Closing` ties the state to the close under way: whoever executes the close first
moves the state on, and the other queue's copy of the action sees it. From another
thread `force_disconnect()` does not, which is why `ClosesOnce` assumes `~OffStrand`.
`ToldOnce` shows that the repeated callback of finding 1 belongs to TLS clients alone: on
servers and plain clients nobody is told twice that a connection is there (`Telling`).
`InOrderOfCalls` is the refinement seen from the users of a connection: from the moment it
is handed over, its write queue and its read queue are each a `SerialQueue`, whatever the
handshake, the closes and the losses of the stream do to the other one.

**`HttpConnection`.** What is ahead, `m_buffer` and the wire, are headers and bodies with
numbers in order, from that of the request being handled on (`Ordered`), and so are the
answers (`Rising`), also those to bodies that were taken for requests; and for a client
that waits and bodies that are read, it is exactly the rest of the request that is not
answered (`Unanswered`, `Framing`). `pipelined` and `skipped` are the two cases in which
the generator takes bytes with it that belong to a later request, or leaves some behind,
and there is no such framing then: the properties say what is left.

**`IoSession`, `Listener`, `Client`.** `IoSessionProofs` proves of any set of operations
that handlers run inside `run()`, one to a thread, and that the phases of destruction
come after the threads are out and joined. `ListenerProofs` and `ClientProofs` prove that
each step of theirs is a step of the session or leaves it alone (`StepOfSession`), and
inherit the invariant. `RunsASession` states it as a refinement: a behaviour of either
module satisfies `IoSession`'s `Init /\ [][Next]_vars`, the abstract specification of a
session, under the mapping of the instance. The chain of accepts adds that a started server has an
accept under way or its handler; the client, that a call in progress knows its URL,
goes where that says, that the `io_context` has work of such calls and of connections
handed over only (`WorkInv`), and that a stage of a call follows from the one before
(`StageInv`: a WebSocket over TLS upgrades after its handshake).

**`SessionManager`.** A record is stored under its own id (`KeyInv`), and two clients never
come back with, or hold, one id (`PrivateInv`), until `generate_id()` repeats one that
is still around (`Distinct`). `KeyInv` holds with repeated ids too, and `KeptInUse` with it.

**`Router`.** The links are a forest (`Forest`: one parent, which is destroyed no later
than the child; `Shape`: no router below itself), and one string goes along each
link. `add_subrouter()` changes what lies below its argument; since there is one
parent each, that is reached through the argument only (`ReachedFromBelow`), so no
link leads from outside into what is renamed or destroyed. `set_server_string()` stops
at a router with the string; by the invariant the whole tree below has it.
Entries were added to the router they are in, to the context's router, or to an
object that was moved from (`Owned`). No table changes after `start()`, so what a policy
said on the way of a request still holds when it arrives (`Passed`).

**`HttpContent`.** Its properties are of the form "what is taken apart is what was put
together", and the proofs are about the functions. Each loop of the code is a recursive
function here, which says nothing as long as nobody knows that its equation has a
solution: `Recursion` proves, by induction over a rank, that an equation has one if it uses
values of lower rank only, and `SplitSolved`, `FlatSolved`, `StartsSolved` and
`DecodeSolved` apply it to `split()`, concatenation, the search for boundary lines and
`url_decode()`. `SplitMarked` then says what `split()` returns for any text whose delimiters
are known, and `SplitFlat` for any pieces that avoid the delimiter's first character; this
is the lemma that cookies, credentials, pairs, header lines and dispositions rest on.

* `OwnerAdmitted`: `split()` returns two pieces of exactly the texts with one colon, or with
  one more at an end (`KnownSplit`, `SplitKnown`), and the pieces are compared with what is configured.
* `CookieFound`: what a browser keeps, as it reads the attributes, is what is in force
  (`KeptInForce`); it writes the pairs in any order, and `cookie_value()` finds the last one
  of the name that is not empty (`ValueFound`).
* `ParsedIsSubmitted`: `url_decode()` inverts percent-encoding byte by byte, except that of a
  space, by induction from the end of the text (`DecodeEncoded`; `BitOrHalves` computes the `|` of two halves of a
  byte from its definition). A multipart body has its boundary lines exactly where the
  browser put them (`MarkPlaces`: a match that begins anywhere else has a line end in the
  middle, which no boundary has), so the parts found are the parts written (`PartsFound`); and
  of a part, `parse_part()` counts header lines up to the content (`PartRead`, `EntryRead`).
* `ShownSinceCleared` is inductive with `FieldsShown`: a value in a field was submitted under
  the field's name since the values were cleared.

The hypotheses are those of the properties: `WellFormed` is what RFC 6265 allows of a
cookie, `Submittable` what a form needs for its encodings to be told apart (different names
without delimiters, no boundary inside), `Unwritable` what text/plain cannot write. All forms
and cookies of the run meet the first two; text/plain and credentials have both sides.

What stays with TLC: the liveness properties (`SendsAnswered`, `ReadsAnswered`,
`DisconnectEnds`, `EveryRequestEnds`, `AbandonedExpire`, `DestructionEnds`, `ClientsAccepted`,
`RunReturns`, `CallsAnswered`, and the fairness that `ImplementsSerialQueue` promises), as
the provers have no ENABLED; and the three violations, which are counterexamples (that to
`AnnouncedOnce` in the one kind of instance that `ToldOnce` excludes, that to `NeverReopened`
in the one step that `ReopenedByNobodyElse` names).

## What is left out

Payloads, wording and logging; regular expressions beyond exact targets; queries and
fragments of targets (a policy is matched against all of the target, so `/x?y` passes an
exact policy on `/x`: `PoliciesPassed` is about targets without); the HTTP syntax; exceptions thrown by users' request handlers;
how long anything takes; what two handlers that write one session's map leave behind,
and what two first requests do that compile the regular expression of one policy at
the same time (`server/routing/router.hpp:183`), as both are undefined. `Router` therefore
dispatches one request at a time, which is enough for its tables. Not modelled at all:
response generators and preflight headers (fixed text), the file filter (disk), loading
of certificates (OpenSSL), the stream wrapper (it forwards), type traits, mocks,
certify. Assumed of users: they configure before `start()` (or keep the objects they
moved from), keep the `routing_context` while the server runs (the server string is a
view into it), call the `run()` of a queue of their own while it is idle.

## Plan

Done, in this order: `SerialQueue` and `ActionQueue` with their proofs; `WsConnection` over
two queues; `HttpConnection`; `SessionManager`; `Router`; `IoSession` and `Listener`; `Client`
and `Url`; `HttpText` and `HttpContent`; the proofs of every module with state.

Left: connections of `Listener` as instances of `HttpConnection` instead of one operation;
the `connect()` of `Client` as an instance of `WsConnection`; `populate()` of a form shared
by two handlers at the same time; the file filter and `body_for()` of an unread header
(`client/http/connection.hpp:94`).
