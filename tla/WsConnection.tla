---------------------------- MODULE WsConnection ----------------------------
(***************************************************************************)
(* malloy::websocket::connection, core/websocket/connection.hpp: the       *)
(* connection's state, its two action queues (ActionQueue.tla, one for     *)
(* reads and one for writes), the calls its users make from any thread and *)
(* the completions of the operations it starts on the stream.              *)
(*                                                                         *)
(* Every element of Sends, Reads, Closers and Forcers is one call of       *)
(* send(), read(), disconnect() and force_disconnect().  Completions run   *)
(* on the connection's strand; calls may come from other threads, so a     *)
(* call that tests the state and acts on it later is more than one step.   *)
(*                                                                         *)
(* A server's handler has the connection before it calls accept(), and may *)
(* call at any time; a client's user has it once connect() succeeded.      *)
(*                                                                         *)
(* The stream itself (Boost.Beast) is external.  An operation on an open   *)
(* stream succeeds, one on a stream that is not open fails, and during the *)
(* server's handshake, where none is allowed, either may be the case.  A   *)
(* write and a close need the stream's write lock and wait for each other. *)
(* A peer that reads no more (deaf) may hold up a write for as long as it  *)
(* likes; a close that has the lock is over after 30 seconds.              *)
(***************************************************************************)
EXTENDS Naturals, Sequences, FiniteSets

CONSTANTS Sends, Reads, Closers, Forcers,  \* the calls users make
          IsClient,     \* the template parameter of connection
          IsTls,        \* whether the client's stream is a TLS stream
          OffStrand,    \* force_disconnect() is called from another thread
          ExeNext       \* the function exe_next() dispatches

ASSUME CallsAssumption ==
  /\ Sends \cap (Reads \cup Closers \cup Forcers) = {}
  /\ Reads \cap (Closers \cup Forcers) = {}
  /\ Closers \cap Forcers = {}
  /\ ExeNext \notin Sends \cup Reads \cup Closers \cup Forcers

ASSUME SwitchesAssumption ==
  IsClient \in BOOLEAN /\ IsTls \in BOOLEAN /\ OffStrand \in BOOLEAN

VARIABLES
  mstate,      \* m_state
  handshake,   \* the operation of connect() or accept() that is under way
  announced,   \* how often the callback of connect() or accept() was called
  handed,      \* that callback reported success: the user has the connection
  call,        \* how far each call has got
  early,       \* some call was made before the user was told
  closeOps,    \* async_close operations under way, with who started them
  closers,     \* every async_close ever started
  stream,      \* the Beast stream: "down", "open", "lost" or "shut"
  writing,     \* the operation that holds its write lock, if any
  deaf,        \* the peer reads no more
  wstrand, wacts, wbusy, wrunning, wopen,   \* m_write_queue
  rstrand, racts, rbusy, rrunning, ropen    \* m_read_queue

wvars == <<wstrand, wacts, wbusy, wrunning, wopen>>
rvars == <<rstrand, racts, rbusy, rrunning, ropen>>
hsvars == <<handshake, announced, handed>>
callvars == <<call, early>>
closevars == <<closeOps, closers, writing>>
netvars == <<stream, deaf>>
vars == <<mstate, hsvars, callvars, closevars, netvars, wvars, rvars>>

WQ == INSTANCE ActionQueue WITH
        Acts <- Sends \cup Closers,
        strand <- wstrand, acts <- wacts, busy <- wbusy,
        running <- wrunning, open <- wopen
RQ == INSTANCE ActionQueue WITH
        Acts <- Reads \cup Closers,
        strand <- rstrand, acts <- racts, busy <- rbusy,
        running <- rrunning, open <- ropen

Calls == Sends \cup Reads \cup Closers \cup Forcers
Ended == {"closing", "closed"}
CloseId == ({"w", "r"} \X Closers) \cup ({"f"} \X Forcers)

Init ==
  /\ mstate = "inactive"
  /\ handshake = "none" /\ announced = 0 /\ handed = FALSE
  /\ call = [c \in Calls |-> "ready"] /\ early = FALSE
  /\ closeOps = {} /\ closers = {} /\ writing = {}
  /\ stream = "down" /\ deaf = FALSE
  /\ WQ!Init /\ RQ!Init

-----------------------------------------------------------------------------
(* Opening.                                                                *)

\* Mutant: accept() tells the user before the handshake is over.
AcceptAnnouncesEarly == /\ ~IsClient
                        /\ mstate = "inactive" /\ handshake = "none"
                        /\ mstate' = "handshaking"
                        /\ handshake' = "accept"
                        /\ handed' = TRUE
                        /\ UNCHANGED <<announced, callvars, closevars, netvars, wvars, rvars>>

\* accept(): server side; the handshake reply is written by async_accept.
Accept == /\ ~IsClient
          /\ mstate = "inactive" /\ handshake = "none"
          /\ mstate' = "handshaking"
          /\ handshake' = "accept"
          /\ UNCHANGED <<announced, handed, callvars, closevars, netvars, wvars, rvars>>

\* go_active(): whatever the state was, it is active now; both queues run.
GoActive == /\ mstate' = "active"
            /\ RQ!Run
            /\ WQ!Run

\* The completion of async_accept; a failure is logged and nobody is told.
OnAccept ==
  /\ handshake = "accept"
  /\ handshake' = "over"
  /\ \/ /\ stream = "down" /\ stream' = "open"
        /\ GoActive
        /\ announced' = announced + 1
        /\ handed' = TRUE
     \/ /\ UNCHANGED <<mstate, stream, announced, handed, wvars, rvars>>
  /\ UNCHANGED <<callvars, closevars, deaf>>

\* connect(): client side; it leaves the state alone.
Connect == /\ IsClient
           /\ mstate = "inactive" /\ handshake = "none"
           /\ handshake' = "connect"
           /\ UNCHANGED <<mstate, announced, handed, callvars, closevars, netvars, wvars, rvars>>

\* The completion of async_connect, and on_connect().
OnConnect ==
  /\ handshake = "connect"
  /\ \/ /\ handshake' = IF IsTls THEN "tls" ELSE "ws"
        /\ UNCHANGED announced
     \/ /\ handshake' = "over"
        /\ announced' = announced + 1
  /\ UNCHANGED <<mstate, handed, callvars, closevars, netvars, wvars, rvars>>

\* connect()'s wrapper around the callback: the queues are started and the
\* callback is called whether the handshake went well or not.
OnHandshake(ok) == /\ GoActive
                   /\ announced' = announced + 1
                   /\ handed' = (handed \/ ok)

\* The completion of async_handshake_tls: a failure is reported, and then the
\* websocket handshake is started all the same.
OnTlsHandshake ==
  /\ handshake = "tls"
  /\ \/ /\ handshake' = "ws"
        /\ UNCHANGED <<mstate, announced, handed, wvars, rvars>>
     \/ /\ handshake' = "ws_without_tls"
        /\ OnHandshake(FALSE)
  /\ UNCHANGED <<callvars, closevars, netvars>>

\* The completion of async_handshake; it fails on a stream without TLS.
OnWsHandshake ==
  /\ handshake \in {"ws", "ws_without_tls"}
  /\ \E ok \in BOOLEAN :
       /\ ok => handshake = "ws"
       /\ stream' = IF ok THEN "open" ELSE stream
       /\ OnHandshake(ok)
  /\ handshake' = "over"
  /\ UNCHANGED <<callvars, closevars, deaf>>

Opening == Accept \/ OnAccept \/ Connect \/ OnConnect \/ OnTlsHandshake \/ OnWsHandshake

-----------------------------------------------------------------------------
(* The users' calls.                                                       *)

\* A client's user is given the connection when it is open, a server's handler
\* to call accept() on it.
Usable == handed \/ ~IsClient

Advance(c, from, to) == /\ call[c] = from
                        /\ call' = [call EXCEPT ![c] = to]
                        /\ early' = (early \/ ~handed)

\* send() and read() queue their operation.
Send(c) == /\ Usable
           /\ Advance(c, "ready", "queued")
           /\ WQ!Push(c)
           /\ UNCHANGED <<mstate, hsvars, closevars, netvars, rvars>>

Read(c) == /\ Usable
           /\ Advance(c, "ready", "queued")
           /\ RQ!Push(c)
           /\ UNCHANGED <<mstate, hsvars, closevars, netvars, wvars>>

\* disconnect(): a connection that is ending is left alone; otherwise the
\* same action goes into both queues, "and whichever gets there first wins".
DisconnectTest(c) ==
  /\ Usable
  /\ Advance(c, "ready", IF mstate \in Ended THEN "returned" ELSE "tested")
  /\ UNCHANGED <<mstate, hsvars, closevars, netvars, wvars, rvars>>

\* Mutant: disconnect() goes into the read queue only.
DisconnectSkipsWrite(c) == /\ Advance(c, "tested", "half")
                           /\ UNCHANGED <<mstate, hsvars, closevars, netvars, wvars, rvars>>

DisconnectPushWrite(c) ==
  /\ Advance(c, "tested", "half")
  /\ WQ!Push(c)
  /\ UNCHANGED <<mstate, hsvars, closevars, netvars, rvars>>

DisconnectPushRead(c) ==
  /\ Advance(c, "half", "returned")
  /\ RQ!Push(c)
  /\ UNCHANGED <<mstate, hsvars, closevars, netvars, wvars>>

\* An operation that writes is started: it waits if another holds the lock.
StartWriting(ops) == writing' = IF writing = {} THEN ops ELSE writing

\* It is over: one of those that wait goes on.
StopWriting(op, others) ==
  IF op \notin writing \/ others = {}
    THEN writing' = writing \ {op}
    ELSE \E next \in others : writing' = {next}

\* do_disconnect(): the state first, then async_close.
DoDisconnect(id) == /\ mstate' = "closing"
                    /\ closeOps' = closeOps \cup {id}
                    /\ closers' = closers \cup {id}
                    /\ StartWriting({id})

\* force_disconnect() throws on an inactive connection, leaves an ending one
\* alone and closes any other at once.
ForceOnStrand(c) ==
  /\ ~OffStrand /\ Usable
  /\ Advance(c, "ready", "returned")
  /\ IF mstate \in Ended \cup {"inactive"}
       THEN UNCHANGED <<mstate, closevars>>
       ELSE DoDisconnect(<<"f", c>>)
  /\ UNCHANGED <<hsvars, netvars, wvars, rvars>>

\* From another thread the strand may run between its test and its act.
ForceTest(c) ==
  /\ OffStrand /\ Usable
  /\ Advance(c, "ready", IF mstate \in Ended \cup {"inactive"} THEN "returned" ELSE "tested")
  /\ UNCHANGED <<mstate, hsvars, closevars, netvars, wvars, rvars>>

ForceAct(c) ==
  /\ OffStrand
  /\ Advance(c, "tested", "returned")
  /\ DoDisconnect(<<"f", c>>)
  /\ UNCHANGED <<hsvars, netvars, wvars, rvars>>

\* A thread inside a call gets to its end.
InCall == \/ \E c \in Closers : DisconnectPushWrite(c) \/ DisconnectPushRead(c)
          \/ \E c \in Forcers : ForceAct(c)

Calling == \/ \E c \in Sends : Send(c)
           \/ \E c \in Reads : Read(c)
           \/ \E c \in Closers : DisconnectTest(c)
           \/ \E c \in Forcers : ForceOnStrand(c) \/ ForceTest(c)
           \/ InCall

-----------------------------------------------------------------------------
(* The queues execute actions.                                             *)

\* Mutant: an executed disconnect() does not check whether it was beaten.
ExecuteUntested(q, executed) ==
  LET mine == executed \cap Closers IN
    IF mine = {}
      THEN UNCHANGED <<mstate, closeOps, closers>> /\ StartWriting(executed \cap Sends)
      ELSE \E c \in mine : DoDisconnect(<<q, c>>)

\* An executed send or read has its operation started: that it is open is all
\* there is to it.  An executed disconnect() first looks whether it was beaten.
Execute(q, executed) ==
  LET mine == executed \cap Closers IN
    IF mine = {} \/ mstate \in Ended
      THEN UNCHANGED <<mstate, closeOps, closers>> /\ StartWriting(executed \cap Sends)
      ELSE \E c \in mine : DoDisconnect(<<q, c>>)

WriteQueueStep == /\ WQ!StrandStep
                  /\ Execute("w", wopen' \ wopen)
                  /\ UNCHANGED <<hsvars, callvars, netvars, rvars>>

ReadQueueStep == /\ RQ!StrandStep
                 /\ Execute("r", ropen' \ ropen)
                 /\ UNCHANGED <<hsvars, callvars, netvars, wvars>>

\* A beaten disconnect() calls the queue's callback right away.
BeatenWrite == /\ \E c \in wopen \cap Closers : <<"w", c>> \notin closeOps /\ WQ!Done(c)
               /\ UNCHANGED <<mstate, hsvars, callvars, closevars, netvars, rvars>>

BeatenRead == /\ \E c \in ropen \cap Closers : <<"r", c>> \notin closeOps /\ RQ!Done(c)
              /\ UNCHANGED <<mstate, hsvars, callvars, closevars, netvars, wvars>>

-----------------------------------------------------------------------------
(* Completions, and what the network does.                                 *)

\* Whether an operation that has its turn may succeed, or fail.
MaySucceed == stream = "open" \/ (stream = "down" /\ handshake = "accept")
MayFail == stream # "open"

\* Mutant: on an error the completion returns before the queue's callback.
OnWriteEarlyReturn(c) ==
  /\ c \in wopen
  /\ \/ /\ MaySucceed /\ c \in writing
        /\ call' = [call EXCEPT ![c] = "done"]
        /\ WQ!Done(c)
     \/ /\ MayFail
        /\ call' = [call EXCEPT ![c] = "failed"]
        /\ UNCHANGED wvars
  /\ StopWriting(c, ((wopen \cap Sends) \ {c}) \cup closeOps)
  /\ UNCHANGED <<mstate, hsvars, early, closeOps, closers, netvars, rvars>>

\* async_write completes; the user's callback comes before the queue's.
OnWrite(c) ==
  /\ c \in wopen
  /\ \/ MaySucceed /\ c \in writing /\ call' = [call EXCEPT ![c] = "done"]
     \/ MayFail /\ call' = [call EXCEPT ![c] = "failed"]
  /\ WQ!Done(c)
  /\ StopWriting(c, ((wopen \cap Sends) \ {c}) \cup closeOps)
  /\ UNCHANGED <<mstate, hsvars, early, closeOps, closers, netvars, rvars>>

\* Mutant: the user's callback is called, the queue's is not.
OnReadKeepsQueue(c) ==
  /\ c \in ropen
  /\ MaySucceed
  /\ call' = [call EXCEPT ![c] = "done"]
  /\ UNCHANGED <<mstate, hsvars, early, closevars, netvars, wvars, rvars>>

\* async_read completes: with a message, when the peer sends one ...
OnReadMessage(c) ==
  /\ c \in ropen
  /\ MaySucceed
  /\ call' = [call EXCEPT ![c] = "done"]
  /\ RQ!Done(c)
  /\ UNCHANGED <<mstate, hsvars, early, closevars, netvars, wvars>>

\* Mutant: an error is not reported to the user.
OnReadErrorSilent(c) ==
  /\ c \in ropen
  /\ MayFail
  /\ RQ!Done(c)
  /\ UNCHANGED <<mstate, hsvars, callvars, closevars, netvars, wvars>>

\* ... or with an error once the stream is not open.
OnReadError(c) ==
  /\ c \in ropen
  /\ MayFail
  /\ call' = [call EXCEPT ![c] = "failed"]
  /\ RQ!Done(c)
  /\ UNCHANGED <<mstate, hsvars, early, closevars, netvars, wvars>>

\* Mutant: a failed close makes the connection active again.
OnCloseReverts(id) ==
  /\ id \in closeOps
  /\ closeOps' = closeOps \ {id}
  /\ \/ /\ MaySucceed /\ id \in writing
        /\ stream' = "shut" /\ mstate' = "closed"
     \/ /\ MayFail
        /\ UNCHANGED stream /\ mstate' = "active"
  /\ IF id[1] = "w" THEN WQ!Done(id[2]) ELSE UNCHANGED wvars
  /\ IF id[1] = "r" THEN RQ!Done(id[2]) ELSE UNCHANGED rvars
  /\ StopWriting(id, (wopen \cap Sends) \cup (closeOps \ {id}))
  /\ UNCHANGED <<hsvars, callvars, closers, deaf>>

\* async_close completes.  A failure is logged and leaves the state "closing".
OnClose(id) ==
  /\ id \in closeOps
  /\ closeOps' = closeOps \ {id}
  /\ \/ /\ MaySucceed /\ id \in writing
        /\ stream' = "shut" /\ mstate' = "closed"
     \/ /\ MayFail
        /\ UNCHANGED <<stream, mstate>>
  /\ IF id[1] = "w" THEN WQ!Done(id[2]) ELSE UNCHANGED wvars
  /\ IF id[1] = "r" THEN RQ!Done(id[2]) ELSE UNCHANGED rvars
  /\ StopWriting(id, (wopen \cap Sends) \cup (closeOps \ {id}))
  /\ UNCHANGED <<hsvars, callvars, closers, deaf>>

\* The peer closes or goes away, or a timeout of the stream ends it.
LoseStream == /\ stream = "open"
              /\ stream' = "lost"
              /\ UNCHANGED <<mstate, hsvars, callvars, closevars, deaf, wvars, rvars>>

\* The peer stops reading: what was not yet sent may stay unsent.
GoDeaf == /\ ~deaf /\ stream = "open"
          /\ deaf' = TRUE
          /\ UNCHANGED <<mstate, hsvars, callvars, closevars, stream, wvars, rvars>>

WriteCompletes == \E c \in Sends : OnWrite(c)
ReadFails == \E c \in Reads : OnReadError(c)
CloseCompletes == \E id \in CloseId : OnClose(id)
Beaten == BeatenWrite \/ BeatenRead

Next == \/ Opening
        \/ Calling
        \/ WriteQueueStep \/ ReadQueueStep \/ Beaten
        \/ WriteCompletes \/ ReadFails \/ CloseCompletes
        \/ \E c \in Reads : OnReadMessage(c)
        \/ LoseStream \/ GoDeaf

\* A write completes as long as the peer reads, and when the stream has ended.
WriteGetsOn == (~deaf \/ stream # "open") /\ WriteCompletes

\* Nobody has to call anything, no peer has to send or to read anything.  But
\* what was dispatched runs; a write to a peer that reads completes; a close
\* that has its turn is over after 30 seconds (stream_base::timeout::suggested
\* has that one timeout for clients); an operation on an ended stream fails;
\* calls return.  A client's write has no timeout at all (connection.hpp:416,
\* 451).
Fairness == /\ WF_vars(WriteQueueStep) /\ WF_vars(ReadQueueStep)
            /\ WF_vars(BeatenWrite) /\ WF_vars(BeatenRead)
            /\ WF_vars(WriteGetsOn) /\ WF_vars(ReadFails) /\ WF_vars(CloseCompletes)
            /\ WF_vars(InCall)

Spec == Init /\ [][Next]_vars /\ Fairness

-----------------------------------------------------------------------------
(* What should be true.                                                    *)

CallState == {"ready", "tested", "half", "queued", "returned", "done", "failed"}

\* Types; and, unless somebody called too early, an executed action belongs to
\* a call that has queued it and was not answered yet.
TypeInv ==
  /\ mstate \in {"inactive", "handshaking", "active", "closing", "closed"}
  /\ handshake \in {"none", "accept", "connect", "tls", "ws", "ws_without_tls", "over"}
  /\ announced \in 0..2
  /\ handed \in BOOLEAN /\ early \in BOOLEAN /\ deaf \in BOOLEAN
  /\ call \in [Calls -> CallState]
  /\ closeOps \subseteq closers /\ closers \subseteq CloseId
  /\ writing \subseteq Sends \cup CloseId
  /\ stream \in {"down", "open", "lost", "shut"}
  /\ ~early => \A c \in (wopen \cup ropen) \ Closers : call[c] = "queued"

\* Beast allows one outstanding async_write, one async_read and one
\* async_close per stream; the two queues are there to keep to that
\* (connection.hpp:341-342).  They do for users who wait until they are told:
\* a queue that was used before go_active() runs it has two actions at a time.
OneWriteAndOneRead == ~early => /\ Cardinality(wopen \cap Sends) <= 1
                                /\ Cardinality(ropen \cap Reads) <= 1

\* The stream is closed once: of all the disconnect() and force_disconnect()
\* calls, each with an action in both queues, one gets to call async_close
\* ("whichever gets there first wins", connection.hpp:235; "Calling this
\* function will have no effect if the connection state is closed or
\* closing", connection.hpp:211 and 243).  The same users.
ClosedOnce == ~early => Cardinality(closers) <= 1

\* A connection that is ending does not become active again, so that "attempting
\* to send or receive after calling" disconnect() "will result in error(s)"
\* (connection.hpp:210).
NeverReopened ==
  [][(mstate \in Ended) => (mstate' \in Ended)]_vars

\* What is true of that: go_active() is the only one to reopen a connection,
\* when the handshake succeeds during which a server's handler has closed it
\* (connection.hpp:355).  No completion, no call and no failure does it, and
\* nothing does it to users who wait until they are told.
ReopenedByHandshakeOnly ==
  [][(mstate \in Ended) /\ (mstate' \notin Ended) =>
       early /\ handshake = "accept" /\ stream' = "open"]_vars

\* For users who wait, no operation is started on the stream before the
\* handshake is over, and none under a state that does not say active or ending.
NothingBeforeHandshake ==
  ~early /\ wopen \cup ropen # {} => /\ stream # "down"
                                     /\ mstate \in {"active"} \cup Ended

\* A peer that does not read holds up a write, and all that waits for it.
HeldUp == stream = "open" /\ deaf /\ writing \cap Sends # {}

\* Before a connection ends by disconnect(), both queues drain or stop in
\* order: an action executed in one queue while the connection is closing
\* never starts a second close but always frees its queue.  So every call that
\* was queued gets its answer in the end, with an error if need be, unless the
\* peer stops reading in the middle of a write and stays that way.
SendsAnswered ==
  \A c \in Sends : call[c] = "queued" ~> (call[c] \in {"done", "failed"} \/ []HeldUp)

\* A read that waits when the stream ends gets its callback too.
ReadsAnswered ==
  \A c \in Reads : call[c] = "queued" /\ stream # "open" ~> call[c] \in {"done", "failed"}

\* disconnect() ends the stream although the peer never sends anything: the
\* read queue may be stuck behind a read, the write queue is not
\* (connection.hpp:235-237).  Only a write that is held up keeps it open, as
\* async_close waits for the write lock in whichever queue it is executed.
DisconnectEnds ==
  \A c \in Closers : call[c] = "tested" ~> (stream # "open" \/ []HeldUp)

\* The callback of connect() is "invoked on accepting the handshake or an
\* error occurring" (connection.hpp:126): once.
AnnouncedOnce == announced <= 1
=============================================================================
