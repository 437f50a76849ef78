--------------------------- MODULE ListenerProofs ---------------------------
(***************************************************************************)
(* Proofs about Listener.tla for every number of clients and threads: each *)
(* step of the server is a step of the session it runs on, so that the     *)
(* session's invariant holds here too; the chain of accepts breaks only    *)
(* with a failed one; and nothing is left of a destroyed server.           *)
(***************************************************************************)
EXTENDS Listener, TLAPS

SessionOf == INSTANCE IoSessionProofs WITH Work <- Clients \cup {Accept}, Initial <- {Accept}

\* The session's own theorem, of the instance that Listener.tla makes.
LEMMA SessionInductive == Io!IInv /\ [Io!Next]_iovars => Io!IInv'
<1>1. Io!SessionConstants
  BY ListenerAssumption
<1>2. SessionOf!SessionConstants <=> Io!SessionConstants
  BY DEF SessionOf!SessionConstants, Io!SessionConstants
<1>3. SessionOf!IInv <=> Io!IInv
  BY DEF Io!IInv, SessionOf!IInv, Io!TypeInv, SessionOf!TypeInv, Io!HandlersInRun, SessionOf!HandlersInRun, Io!PhaseInv, SessionOf!PhaseInv,
     Io!Phases, SessionOf!Phases, Io!Threads, SessionOf!Threads, Io!ThreadStates, SessionOf!ThreadStates
<1>4. SessionOf!IInv' <=> Io!IInv'
  BY DEF Io!IInv, SessionOf!IInv, Io!TypeInv, SessionOf!TypeInv, Io!HandlersInRun, SessionOf!HandlersInRun, Io!PhaseInv, SessionOf!PhaseInv,
     Io!Phases, SessionOf!Phases, Io!Threads, SessionOf!Threads, Io!ThreadStates, SessionOf!ThreadStates
<1>5. SessionOf!Next <=> Io!Next
  BY DEF Io!Next, SessionOf!Next, Io!Post, SessionOf!Post, Io!Complete, SessionOf!Complete,
   Io!Take, SessionOf!Take, Io!Finish, SessionOf!Finish, Io!Throw, SessionOf!Throw, Io!Return, SessionOf!Return, Io!Join, SessionOf!Join,
   Io!Start, SessionOf!Start, Io!Run, SessionOf!Run, Io!Destroy, SessionOf!Destroy, Io!Free, SessionOf!Free, Io!Settle, SessionOf!Settle, Io!Usable, SessionOf!Usable, Io!Idle, SessionOf!Idle, Io!Outstanding, SessionOf!Outstanding, Io!Threads, SessionOf!Threads
<1>6. [Io!Next]_iovars => [SessionOf!Next]_(SessionOf!vars)
  BY <1>5 DEF SessionOf!vars, iovars
<1> QED BY <1>1, <1>2, <1>3, <1>4, <1>6, SessionOf!Inductive

LEMMA SessionStarts == Io!Init => Io!IInv
<1>1. SessionOf!SessionConstants
  BY ListenerAssumption DEF SessionOf!SessionConstants, Io!SessionConstants
<1>2. SessionOf!Init <=> Io!Init
  BY DEF SessionOf!Init, Io!Init, SessionOf!Threads, Io!Threads
<1>3. SessionOf!IInv <=> Io!IInv
  BY DEF Io!IInv, SessionOf!IInv, Io!TypeInv, SessionOf!TypeInv, Io!HandlersInRun, SessionOf!HandlersInRun,
         Io!PhaseInv, SessionOf!PhaseInv, Io!Phases, SessionOf!Phases, Io!Threads, SessionOf!Threads,
         Io!ThreadStates, SessionOf!ThreadStates
<1> QED BY <1>1, <1>2, <1>3, SessionOf!InitInv


-----------------------------------------------------------------------------
\* What a step of the listener, a client or a connection does to the session
\* is a step of the session, or nothing.
LEMMA StepOfSession == TypeInv /\ [Next]_vars => [Io!Next]_iovars
<1> SUFFICES ASSUME TypeInv, [Next]_vars PROVE [Io!Next]_iovars
  OBVIOUS
<1> DEFINE Work == Clients \cup {Accept}
<1>1. ASSUME NEW t \in Workers \cup {Caller}, OnAccept(t) PROVE Io!Next
  <2>1. t \in Io!Threads
    BY DEF Io!Threads
  <2>2. Io!Throw(t, Accept) \/ \E ws \in SUBSET Work : Io!Finish(t, Accept, ws)
    BY <1>1 DEF OnAccept, DoAccept
  <2> QED BY <2>1, <2>2 DEF Io!Next
<1>2. ASSUME NEW t \in Workers \cup {Caller}, NEW c \in Clients, Serve(t, c) PROVE Io!Next
  <2>1. t \in Io!Threads /\ {} \in SUBSET Work
    BY DEF Io!Threads
  <2> QED BY <1>2, <2>1 DEF Serve, Io!Next
<1>3. ASSUME NEW t \in Workers \cup {Caller},
             Return(t) \/ Join(t) \/ \E w \in Work : Take(t, w)
      PROVE  Io!Next
  BY <1>3 DEF Return, Join, Take, Io!Next, Io!Threads
<1>4. ASSUME NEW t \in Workers \cup {Caller}, OfThread(t) PROVE Io!Next
  BY <1>1, <1>2, <1>3, <1>4 DEF OfThread
<1>5. CASE Use \/ Free \/ AcceptFails
  BY <1>5 DEF Use, Start, Run, Destroy, Free, AcceptFails, Io!Next
<1>6. ASSUME NEW c \in Clients, Accepted(c) \/ ServeEnds(c) PROVE Io!Next
  BY <1>6 DEF Accepted, ServeEnds, Io!Next
<1>7. ASSUME NEW c \in Clients, Arrive(c) \/ Reset(c) PROVE UNCHANGED iovars
  BY <1>7 DEF Arrive, Reset
<1>8. CASE UNCHANGED vars
  BY <1>8 DEF vars
<1> QED BY <1>4, <1>5, <1>6, <1>7, <1>8 DEF Next

-----------------------------------------------------------------------------
\* Why the chain holds: a session goes live with an io_context that is not
\* stopped and without a failed accept, an accept that failed is not followed
\* by one, and nobody is let in after the end.
ListenerInv == /\ TypeInv
               /\ phase = "held" => ~stopped /\ op[Accept] = "none" /\ taken # "error"
               /\ taken = "error" => op[Accept] # "pending"
               /\ ChainUnbroken
               /\ phase = "gone" => ~listening /\ \A c \in Clients : conn[c] \notin {"waiting", "serving"}

LEMMA ListenerInit == Init => ListenerInv
<1> SUFFICES ASSUME Init PROVE ListenerInv
  OBVIOUS
<1>1. Io!IInv
  BY SessionStarts DEF Init
<1>2. phase = "held" /\ ~stopped /\ op[Accept] = "none"
  BY DEF Init, Io!Init
<1> QED BY <1>1, <1>2 DEF Init, ListenerInv, TypeInv, ChainUnbroken

\* Clients come and go without the listener.
LEMMA ClientsInv ==
  ASSUME ListenerInv, Io!IInv', NEW c \in Clients, Arrive(c) \/ Reset(c)
  PROVE  ListenerInv'
<1> USE DEF ListenerInv, TypeInv, ChainUnbroken, iovars
<1>1. CASE Arrive(c)
  BY <1>1 DEF Arrive
<1>2. CASE Reset(c)
  BY <1>2 DEF Reset
<1> QED BY <1>1, <1>2

\* An accept or a connection that is complete stays work until its handler runs.
LEMMA CompletedInv ==
  ASSUME ListenerInv, Io!IInv',
         AcceptFails \/ \E c \in Clients : Accepted(c) \/ ServeEnds(c)
  PROVE  ListenerInv'
<1>1. ASSUME NEW w \in Clients \cup {Accept}, Io!Complete(w)
      PROVE  /\ phase # "gone" /\ phase' = phase /\ stopped' = stopped
             /\ op'[Accept] = IF w = Accept THEN "ready" ELSE op[Accept]
             /\ op[w] = "pending"
  BY <1>1 DEF Io!Complete, Io!Usable, ListenerInv, TypeInv, Io!IInv, Io!TypeInv
<1> USE DEF ListenerInv, TypeInv, ChainUnbroken
<1>2. CASE AcceptFails
  BY <1>1, <1>2 DEF AcceptFails
<1>3. ASSUME NEW c \in Clients, Accepted(c) PROVE ListenerInv'
  BY <1>1, <1>3, ListenerAssumption DEF Accepted
<1>4. ASSUME NEW c \in Clients, ServeEnds(c) PROVE ListenerInv'
  BY <1>1, <1>4, ListenerAssumption DEF ServeEnds
<1> QED BY <1>2, <1>3, <1>4

\* on_accept() has the next accept under way before it returns, unless the last
\* one failed.
LEMMA OnAcceptInv ==
  ASSUME ListenerInv, Io!IInv', NEW t \in Workers \cup {Caller}, OnAccept(t)
  PROVE  ListenerInv'
<1> USE ListenerAssumption
<1>0. op[Accept] = t => phase # "held"
  BY DEF ListenerInv, Io!SessionConstants
<1>1. CASE /\ taken \in Clients /\ conn[taken] = "waiting"
           /\ Io!Finish(t, Accept, {taken} \cup DoAccept)
           /\ conn' = [conn EXCEPT ![taken] = "serving"]
           /\ taken' = "none"
           /\ UNCHANGED listening
  <2>1. op'[Accept] = "pending" /\ Io!Outstanding(op')
    BY <1>1 DEF Io!Finish, Io!Outstanding, DoAccept
  <2>2. phase' = phase /\ (stopped' => stopped)
    BY <1>1, <2>1 DEF Io!Finish, Io!Settle
  <2>3. phase # "gone"
    BY <1>1 DEF ListenerInv
  <2>4. phase # "held"
    BY <1>0, <1>1 DEF Io!Finish
  <2> QED BY <1>1, <2>1, <2>2, <2>3, <2>4 DEF ListenerInv, TypeInv, ChainUnbroken
<1>2. CASE /\ taken \in Clients /\ conn[taken] = "reset"
           /\ Io!Throw(t, Accept)
           /\ conn' = [c \in Clients |-> IF phase' = "terminated" \/ c = taken THEN "closed" ELSE conn[c]]
           /\ taken' = "error"
           /\ listening' = (listening /\ phase' # "terminated")
  <2>1. phase' = phase \/ phase' = "terminated"
    BY <1>2 DEF Io!Throw
  <2>2. phase' # "held" /\ op'[Accept] = "none"
    <3>1. op \in [Clients \cup {Accept} -> {"none", "pending", "ready"} \cup Io!Threads]
      BY DEF ListenerInv, TypeInv, Io!IInv, Io!TypeInv
    <3> QED BY <1>0, <1>2, <2>1, <3>1 DEF Io!Throw
  <2> QED BY <1>2, <2>1, <2>2 DEF ListenerInv, TypeInv, ChainUnbroken
<1>3. CASE /\ taken = "error"
           /\ Io!Finish(t, Accept, {})
           /\ UNCHANGED <<listening, taken, conn>>
  <2>1. phase' = phase /\ phase # "held" /\ op'[Accept] = "none"
    BY <1>0, <1>3 DEF Io!Finish
  <2> QED BY <1>3, <2>1 DEF ListenerInv, TypeInv, ChainUnbroken
<1> QED BY <1>1, <1>2, <1>3 DEF OnAccept

\* The end of a connection leaves the accept under way, and with it work.
LEMMA ServeInv ==
  ASSUME ListenerInv, Io!IInv', NEW t \in Workers \cup {Caller}, NEW c \in Clients, Serve(t, c)
  PROVE  ListenerInv'
<1> USE ListenerAssumption
<1>1. /\ op[c] = t /\ phase' = phase
      /\ op'[Accept] = op[Accept]
  BY DEF Serve, Io!Finish
<1>2. op[c] # "none" /\ phase # "gone"
  BY <1>1 DEF ListenerInv, TypeInv, Io!IInv, Io!PhaseInv, Io!SessionConstants
<1>3. phase' = "live" /\ taken # "error" => op'[Accept] # "none" /\ ~stopped'
  <2> SUFFICES ASSUME phase' = "live", taken # "error" PROVE op'[Accept] # "none" /\ ~stopped'
    OBVIOUS
  <2>1. op'[Accept] # "none" /\ ~stopped
    BY <1>1 DEF ListenerInv, ChainUnbroken
  <2>2. Io!Outstanding(op')
    BY <2>1 DEF Io!Outstanding
  <2> QED BY <2>1, <2>2 DEF Serve, Io!Finish, Io!Settle
<1>4. phase' = "held" => ~stopped'
  BY <1>1 DEF ListenerInv, Serve, Io!Finish, Io!Settle
<1> QED BY <1>1, <1>2, <1>3, <1>4 DEF Serve, ListenerInv, TypeInv, ChainUnbroken

\* Threads that take handlers, return and are joined touch nothing else.
LEMMA ThreadsInv ==
  ASSUME ListenerInv, Io!IInv', NEW t \in Workers \cup {Caller},
         Return(t) \/ Join(t) \/ \E w \in Clients \cup {Accept} : Take(t, w)
  PROVE  ListenerInv'
<1> USE DEF ListenerInv, TypeInv, ChainUnbroken
<1>1. CASE Return(t)
  BY <1>1 DEF Return, Io!Return
<1>2. CASE Join(t)
  BY <1>2 DEF Join, Io!Join
<1>3. ASSUME NEW w \in Clients \cup {Accept}, Take(t, w) PROVE ListenerInv'
  BY <1>3, ListenerAssumption DEF Take, Io!Take, Io!SessionConstants, Io!IInv, Io!TypeInv
<1> QED BY <1>1, <1>2, <1>3

\* start() leaves an accept under way; run() does not stop what has work; and
\* the destructor takes everything along.
LEMMA UseInv ==
  ASSUME ListenerInv, Io!IInv', Use \/ Free
  PROVE  ListenerInv'
<1> USE DEF ListenerInv, TypeInv, ChainUnbroken
<1>1. CASE Start
  BY <1>1 DEF Start, Listen, Io!Start
<1>2. CASE Run
  <2>1. op' = op /\ phase = "live" /\ phase' = "live"
    BY <1>2 DEF Run, Io!Run
  <2>2. taken # "error" => ~stopped'
    <3> SUFFICES ASSUME taken # "error" PROVE ~stopped'
      OBVIOUS
    <3>1. op[Accept] # "none" /\ ~stopped
      BY <2>1
    <3>2. Io!Outstanding(op)
      BY <3>1 DEF Io!Outstanding
    <3> QED BY <1>2, <3>1, <3>2 DEF Run, Io!Run, Io!Settle
  <2> QED BY <1>2, <2>1, <2>2 DEF Run
<1>3. CASE Destroy
  BY <1>3 DEF Destroy, Io!Destroy
<1>4. CASE Free
  BY <1>4 DEF Free, Io!Free
<1> QED BY <1>1, <1>2, <1>3, <1>4 DEF Use

LEMMA ListenerInductive == ListenerInv /\ [Next]_vars => ListenerInv'
<1> SUFFICES ASSUME ListenerInv, [Next]_vars PROVE ListenerInv'
  OBVIOUS
<1>1. Io!IInv'
  BY StepOfSession, SessionInductive DEF ListenerInv, TypeInv
<1>2. ASSUME NEW t \in Workers \cup {Caller}, OfThread(t) PROVE ListenerInv'
  BY <1>1, <1>2, ThreadsInv, OnAcceptInv, ServeInv DEF OfThread
<1>3. CASE UNCHANGED vars
  BY <1>1, <1>3 DEF vars, iovars, ListenerInv, TypeInv, ChainUnbroken
<1> QED BY <1>1, <1>2, <1>3, ClientsInv, CompletedInv, UseInv DEF Next

THEOREM Invariance == Spec => []ListenerInv
<1> QED BY ListenerInit, ListenerInductive, PTL DEF Spec

\* Every variable of a server has its type, and its session is in order, for
\* every number of clients and threads.
THEOREM TypeCorrect == Spec => []TypeInv
<1>1. ListenerInv => TypeInv
  BY DEF ListenerInv
<1> QED BY <1>1, Invariance, PTL

\* A started server whose accepts have not failed has one under way, or its
\* handler, and does not stop by itself (listener.cpp:84-135).
THEOREM ChainHolds == Spec => []ChainUnbroken
<1>1. ListenerInv => ChainUnbroken
  BY DEF ListenerInv
<1> QED BY <1>1, Invariance, PTL

\* After the destructor of a server's session no thread is inside its
\* io_context, no handler is left and no connection is in the middle of
\* anything (controller_run_result.hpp:77-96).
THEOREM DestroyedForGood == Spec => []NothingAfterDestruction
<1>1. ListenerInv => NothingAfterDestruction
  BY ListenerAssumption DEF ListenerInv, TypeInv, NothingAfterDestruction, Io!NothingAfterDestruction,
     Io!IInv, Io!PhaseInv, Io!Threads
<1> QED BY <1>1, Invariance, PTL

\* A server is a session: whatever its listener, its clients and its connections
\* do, the io_context and the threads of controller_run_result see nothing but
\* steps of IoSession.tla (routing_context.hpp, controller_run_result.hpp).
THEOREM RunsASession == Spec => Io!Init /\ [][Io!Next]_iovars
<1>1. Init => Io!Init
  BY DEF Init
<1>2. TypeInv /\ [Next]_vars => [Io!Next]_iovars
  BY StepOfSession
<1> QED BY <1>1, <1>2, TypeCorrect, PTL DEF Spec
=============================================================================
