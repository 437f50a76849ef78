------------------------------ MODULE Listener ------------------------------
(***************************************************************************)
(* A started server: malloy::server::listener (server/listener.cpp) on the *)
(* io_context of the session that start() returns                          *)
(* (server/routing_context.hpp).                                           *)
(*                                                                         *)
(* The clients and the kernel's queue of connections are external.  What a *)
(* connection does is HttpConnection.tla; here it is one operation, which  *)
(* ends with an answer or without.                                         *)
(***************************************************************************)
CONSTANTS Clients,
          Accept,   \* the operation async_accept()
          Workers, Caller

VARIABLES
  phase, guard, stopped, thread, op,  \* the session, see IoSession.tla
  listening,  \* the acceptor is open, bound and listens
  taken,      \* what the last accept returned: a client, "error" or "none"
  conn        \* how far each client's connection is

Io == INSTANCE IoSession WITH Work <- Clients \cup {Accept}, Initial <- {Accept}

ASSUME ListenerAssumption == /\ Io!SessionConstants
                             /\ Accept \notin Clients
                             /\ Clients \cap {"none", "error"} = {}

iovars == <<phase, guard, stopped, thread, op>>
vars == <<iovars, listening, taken, conn>>

Init == /\ Io!Init
        /\ listening = FALSE
        /\ taken = "none"
        /\ conn = [c \in Clients |-> "away"]

-----------------------------------------------------------------------------
(* Clients.                                                                *)

\* The kernel lets a client in, and keeps it until it is accepted.
Arrive(c) == /\ listening
             /\ conn[c] = "away"
             /\ conn' = [conn EXCEPT ![c] = "waiting"]
             /\ UNCHANGED <<iovars, listening, taken>>

\* A client that waits resets the connection; the socket stays in the queue.
Reset(c) == /\ conn[c] = "waiting"
            /\ conn' = [conn EXCEPT ![c] = "reset"]
            /\ UNCHANGED <<iovars, listening, taken>>

-----------------------------------------------------------------------------
(* start() and the listener.                                               *)

\* The constructor: open, bind and listen.  An error is logged, and nothing else.
Listen == listening' \in BOOLEAN

\* start(): the listener is run as any other if its address is taken.
Start == /\ Listen
         /\ Io!Start
         /\ UNCHANGED <<taken, conn>>

DoAccept == {Accept}

Accepted(c) == /\ conn[c] \in {"waiting", "reset"}
               /\ Io!Complete(Accept)
               /\ taken' = c
               /\ UNCHANGED <<listening, conn>>

\* The acceptor does not listen, or the process has no descriptor left.
AcceptFails == /\ Io!Complete(Accept)
               /\ taken' = "error"
               /\ UNCHANGED <<listening, conn>>

\* Mutant: the next accept is left to the connection's end.
OnAcceptOnce(t) ==
  \/ /\ taken \in Clients /\ conn[taken] = "waiting"
     /\ Io!Finish(t, Accept, {taken})
     /\ conn' = [conn EXCEPT ![taken] = "serving"]
     /\ taken' = "none"
     /\ UNCHANGED listening
  \/ /\ taken = "error"
     /\ Io!Finish(t, Accept, {})
     /\ UNCHANGED <<listening, taken, conn>>

\* on_accept(): start the connection and accept another one.  After an error no
\* other one is accepted; and a socket that has no remote end any more makes
\* remote_endpoint() throw, which ends the accepting as well.
OnAccept(t) ==
  \/ /\ taken \in Clients /\ conn[taken] = "waiting"
     /\ Io!Finish(t, Accept, {taken} \cup DoAccept)
     /\ conn' = [conn EXCEPT ![taken] = "serving"]
     /\ taken' = "none"
     /\ UNCHANGED listening
  \/ /\ taken \in Clients /\ conn[taken] = "reset"
     /\ Io!Throw(t, Accept)
     /\ conn' = [c \in Clients |-> IF phase' = "terminated" \/ c = taken THEN "closed" ELSE conn[c]]
     /\ taken' = "error"
     /\ listening' = (listening /\ phase' # "terminated")
  \/ /\ taken = "error"
     /\ Io!Finish(t, Accept, {})
     /\ UNCHANGED <<listening, taken, conn>>

\* The connection is over, with an answer or without.
ServeEnds(c) == Io!Complete(c) /\ UNCHANGED <<listening, taken, conn>>
Serve(t, c) == /\ Io!Finish(t, c, {})
               /\ conn' \in {[conn EXCEPT ![c] = end] : end \in {"answered", "closed"}}
               /\ UNCHANGED <<listening, taken>>

-----------------------------------------------------------------------------
(* The session.                                                            *)

Run == Io!Run /\ UNCHANGED <<listening, taken, conn>>
Destroy == Io!Destroy /\ UNCHANGED <<listening, taken, conn>>
Join(t) == Io!Join(t) /\ UNCHANGED <<listening, taken, conn>>
Take(t, w) == Io!Take(t, w) /\ UNCHANGED <<listening, taken, conn>>
Return(t) == Io!Return(t) /\ UNCHANGED <<listening, taken, conn>>

\* The listener, the acceptor and every connection go.
Free == /\ Io!Free
        /\ listening' = FALSE
        /\ conn' = [c \in Clients |-> IF conn[c] \in {"away", "answered"} THEN conn[c] ELSE "closed"]
        /\ UNCHANGED taken

Use == Start \/ Run \/ Destroy

\* Steps that end or continue something, and so are fair.
OfThread(t) == \/ Return(t) \/ Join(t) \/ OnAccept(t)
               \/ \E w \in Clients \cup {Accept} : Take(t, w)
               \/ \E c \in Clients : Serve(t, c)

Next == \/ Use \/ Free \/ AcceptFails
        \/ \E t \in Workers \cup {Caller} : OfThread(t)
        \/ \E c \in Clients : Arrive(c) \/ Reset(c) \/ Accepted(c) \/ ServeEnds(c)

\* Threads run, the kernel hands over connections that wait, and the destructor
\* gets on.  Users have to do nothing, and no connection has to end.
Fairness == /\ \A t \in Workers \cup {Caller} : WF_vars(OfThread(t))
            /\ \A c \in Clients : WF_vars(Accepted(c))
            /\ WF_vars(Free)

Spec == Init /\ [][Next]_vars /\ Fairness

-----------------------------------------------------------------------------
TypeInv == /\ Io!IInv
           /\ listening \in BOOLEAN
           /\ taken \in Clients \cup {"none", "error"}
           /\ conn \in [Clients -> {"away", "waiting", "reset", "serving", "answered", "closed"}]

\* While no accept has failed, a started server has an accept under way, or a
\* handler that will start one: the chain of do_accept() and on_accept() does
\* not break, whoever comes and goes, and with it there is always work left, so
\* the server does not stop by itself.
ChainUnbroken ==
  phase = "live" /\ taken # "error" => op[Accept] # "none" /\ ~stopped

\* Once the destructor has freed the io_context, no thread is inside it, no
\* handler runs, and no connection is in the middle of anything.
\* (~controller_run_result(): stop, join, and only then the members.)
NothingAfterDestruction ==
  Io!NothingAfterDestruction /\ (phase = "gone" => \A c \in Clients : conn[c] \notin {"waiting", "serving"})

\* The destructor comes to its end, with an accept under way as well, unless a
\* handler that throws ends the process.
DestructionEnds == phase = "stopping" ~> phase # "stopping"

\* A client that waits for a live server is accepted, unless it leaves, an
\* accept fails or the session is destroyed.
ClientsAccepted ==
  \A c \in Clients :
    conn[c] = "waiting" /\ phase = "live" ~> conn[c] # "waiting" \/ taken = "error" \/ phase # "live"
=============================================================================
