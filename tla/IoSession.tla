----------------------------- MODULE IoSession -----------------------------
(***************************************************************************)
(* malloy::detail::controller_run_result, the session that start() returns *)
(* for a server or a client (core/detail/controller_run_result.hpp), over  *)
(* an io_context of Boost.Asio, which is external.                         *)
(*                                                                         *)
(* An io_context has operations under way; the handler of one that is      *)
(* complete is called by some thread inside run(), and may start others.   *)
(* It stops when stop() is called, and by itself when there is neither an  *)
(* operation nor a handler nor a work guard left; run() then returns in    *)
(* every thread, and nothing is called any more.                           *)
(*                                                                         *)
(* The session is the object that holds m_io_ctx: run() and the destructor *)
(* of an object that was moved from test for that and do nothing to it, so *)
(* a move is no step.  One thread, Caller, uses and destroys the session.  *)
(***************************************************************************)
CONSTANTS Workers,  \* m_io_threads
          Caller,   \* the thread that calls run() and the destructor
          Work,     \* operations
          Initial   \* the operations that start() leaves behind

\* What the modules that make instances of this one assume of the constants.
SessionConstants ==
  /\ Workers # {} /\ Caller \notin Workers
  /\ Initial \subseteq Work
  /\ (Workers \cup {Caller}) \cap {"none", "pending", "ready"} = {}

VARIABLES
  phase,    \* "held" by the controller, "live", "stopping" (in the
            \* destructor), "gone"; "terminated" if the process ended
  guard,    \* m_workguard owns work
  stopped,  \* the io_context is stopped
  thread,   \* "none", inside io_context::"run", "back" from it, "joined"
  op        \* "none", "pending", "ready" to be handled, or the thread that
            \* calls the handler

vars == <<phase, guard, stopped, thread, op>>

Threads == Workers \cup {Caller}
Phases == {"held", "live", "stopping", "gone", "terminated"}
ThreadStates == {"none", "run", "back", "joined"}

Usable == phase \notin {"gone", "terminated"}
Idle(t) == \A w \in Work : op[w] # t
Outstanding(ops) == \E w \in Work : ops[w] # "none"

Init == /\ phase = "held"
        /\ guard = FALSE /\ stopped = FALSE
        /\ thread = [t \in Threads |-> "none"]
        /\ op = [w \in Work |-> "none"]

-----------------------------------------------------------------------------
(* The io_context.                                                         *)

\* Without work left it stops itself, once it has been run.
Settle(keep, ops) == stopped' = (stopped \/ (phase # "held" /\ ~keep /\ ~Outstanding(ops)))

\* A thread outside starts operations.
Post(ws) == /\ Usable
            /\ \A w \in ws : op[w] = "none"
            /\ op' = [w \in Work |-> IF w \in ws THEN "pending" ELSE op[w]]
            /\ UNCHANGED <<phase, guard, stopped, thread>>

\* An operation is complete: its handler is put into the queue.
Complete(w) == /\ Usable
               /\ op[w] = "pending"
               /\ op' = [op EXCEPT ![w] = "ready"]
               /\ UNCHANGED <<phase, guard, stopped, thread>>

\* A thread inside run() takes a handler.
Take(t, w) == /\ thread[t] = "run" /\ ~stopped /\ Idle(t)
              /\ op[w] = "ready"
              /\ op' = [op EXCEPT ![w] = t]
              /\ UNCHANGED <<phase, guard, stopped, thread>>

\* The handler returns, having started the operations ws.
Finish(t, w, ws) ==
  /\ op[w] = t
  /\ \A v \in ws \ {w} : op[v] = "none"
  /\ op' = [v \in Work |-> IF v \in ws THEN "pending" ELSE IF v = w THEN "none" ELSE op[v]]
  /\ Settle(guard, op')
  /\ UNCHANGED <<phase, guard, thread>>

\* The handler throws.  The threads of the session catch nothing, which ends
\* the process; the caller of run() gets the exception.
Throw(t, w) ==
  /\ op[w] = t
  /\ \/ /\ t = Caller
        /\ thread' = [thread EXCEPT ![t] = "none"]
        /\ op' = [op EXCEPT ![w] = "none"]
        /\ Settle(guard, op')
        /\ UNCHANGED <<phase, guard>>
     \/ /\ t # Caller
        /\ phase' = "terminated" /\ stopped' = TRUE
        /\ thread' = [u \in Threads |-> "none"]
        /\ op' = [v \in Work |-> "none"]
        /\ UNCHANGED guard

\* io_context::run() returns.
Return(t) == /\ thread[t] = "run" /\ stopped /\ Idle(t)
             /\ thread' = [thread EXCEPT ![t] = IF t = Caller THEN "none" ELSE "back"]
             /\ UNCHANGED <<phase, guard, stopped, op>>

-----------------------------------------------------------------------------
(* The session.                                                            *)

\* The constructor, in start(): a work guard, and threads inside run().
Start == /\ phase = "held"
         /\ phase' = "live" /\ guard' = TRUE
         /\ thread' = [t \in Threads |-> IF t \in Workers THEN "run" ELSE thread[t]]
         /\ op' = [w \in Work |-> IF w \in Initial THEN "pending" ELSE op[w]]
         /\ UNCHANGED stopped

\* Mutant: the work guard is kept.
RunGuarded == /\ phase = "live" /\ thread[Caller] = "none"
              /\ thread' = [thread EXCEPT ![Caller] = "run"]
              /\ UNCHANGED <<phase, guard, stopped, op>>

\* run(): drop the guard and help the workers until there is nothing left.
Run == /\ phase = "live" /\ thread[Caller] = "none"
       /\ guard' = FALSE
       /\ Settle(guard', op)
       /\ thread' = [thread EXCEPT ![Caller] = "run"]
       /\ UNCHANGED <<phase, op>>

\* Mutant: the io_context is left to run out of work.
DestroyUnstopped == /\ phase = "live" /\ thread[Caller] = "none"
                    /\ phase' = "stopping" /\ guard' = FALSE
                    /\ Settle(guard', op)
                    /\ UNCHANGED <<thread, op>>

\* The destructor: stop the io_context, drop the guard, ...
Destroy == /\ phase = "live" /\ thread[Caller] = "none"
           /\ phase' = "stopping" /\ guard' = FALSE /\ stopped' = TRUE
           /\ UNCHANGED <<thread, op>>

\* ... join each thread, ...
Join(t) == /\ phase = "stopping" /\ t \in Workers /\ thread[t] = "back"
           /\ thread' = [thread EXCEPT ![t] = "joined"]
           /\ UNCHANGED <<phase, guard, stopped, op>>

\* Mutant: the members go while threads are still on their way out.
FreeUnjoined == /\ phase = "stopping"
                /\ phase' = "gone"
                /\ op' = [w \in Work |-> IF op[w] \in Threads THEN op[w] ELSE "none"]
                /\ UNCHANGED <<guard, stopped, thread>>

\* ... destroy the members, and with the io_context every handler that was
\* not called.
Free == /\ phase = "stopping" /\ \A t \in Workers : thread[t] = "joined"
        /\ phase' = "gone"
        /\ op' = [w \in Work |-> "none"]
        /\ UNCHANGED <<guard, stopped, thread>>

Next == \/ \E ws \in SUBSET Work : Post(ws)
        \/ \E w \in Work : Complete(w)
        \/ \E t \in Threads, w \in Work :
             Take(t, w) \/ Throw(t, w) \/ (\E ws \in SUBSET Work : Finish(t, w, ws))
        \/ \E t \in Threads : Return(t) \/ Join(t)
        \/ Start \/ Run \/ Destroy \/ Free

Spec == Init /\ [][Next]_vars

-----------------------------------------------------------------------------
TypeInv == /\ phase \in Phases
           /\ guard \in BOOLEAN /\ stopped \in BOOLEAN
           /\ thread \in [Threads -> ThreadStates]
           /\ op \in [Work -> {"none", "pending", "ready"} \cup Threads]

\* Once the destructor has freed the io_context, no thread is inside it, no
\* handler runs, and none is left that could.  (~controller_run_result: stop,
\* join, and only then the members.)
NothingAfterDestruction ==
  phase = "gone" => /\ \A t \in Threads : thread[t] # "run"
                    /\ \A w \in Work : op[w] = "none"

\* A thread calls one handler at a time, and only inside run().
HandlersInRun == \A w \in Work : op[w] \in Threads => /\ thread[op[w]] = "run"
                                                      /\ \A v \in Work : op[v] = op[w] => v = w

\* What each phase says of the threads.
PhaseInv == /\ phase = "held" => \A t \in Threads : thread[t] = "none"
            /\ phase \in {"stopping", "gone"} => thread[Caller] = "none"
            /\ phase = "gone" => /\ \A t \in Workers : thread[t] = "joined"
                                 /\ \A w \in Work : op[w] = "none"

IInv == TypeInv /\ HandlersInRun /\ PhaseInv
=============================================================================
