---------------------------- MODULE ActionQueue ----------------------------
(***************************************************************************)
(* malloy::detail::action_queue, core/detail/action_queue.hpp.             *)
(*                                                                         *)
(* push() and exe_next() dispatch their work onto the strand m_ioc: from   *)
(* another thread the function joins the strand's own FIFO, from the       *)
(* strand with nothing ahead of it it runs inside the call.  The model     *)
(* always appends it to `strand' and lets StrandPush / StrandExec take it  *)
(* out: running inline is the schedule in which that step comes next.      *)
(* The completion that calls an action's callback runs on the executor     *)
(* the strand is made of (websocket/connection.hpp:341-342), never at the  *)
(* same time as a function of the strand, so Done is one step.             *)
(*                                                                         *)
(* An element of Acts stands for one pushed function object; it may be     *)
(* pushed again once the queue no longer holds it.                         *)
(***************************************************************************)
EXTENDS Naturals, Sequences

CONSTANTS Acts,       \* the functions callers push
          ExeNext     \* the function that exe_next() dispatches

ASSUME ExeNextAssumption == ExeNext \notin Acts

VARIABLES strand,   \* functions dispatched to m_ioc that have not run yet
          acts,     \* m_acts
          busy,     \* m_currently_running_act
          running,  \* m_running: written by run(), read by nobody
          open      \* functions executed whose callback was not called yet

vars == <<strand, acts, busy, running, open>>

Elements(s) == {s[i] : i \in DOMAIN s}

ExecPending == ExeNext \in Elements(strand)

Held == Elements(strand) \cup Elements(acts) \cup open

-----------------------------------------------------------------------------
Init == /\ strand = <<>>
        /\ acts = <<>>
        /\ busy = FALSE
        /\ running = FALSE
        /\ open = {}

\* push(): dispatch the function that will store act.
Push(a) == /\ a \notin Held
           /\ strand' = Append(strand, a)
           /\ UNCHANGED <<acts, busy, running, open>>

\* run() and the exe_next() it calls: both flags are set in the caller,
\* whatever the queue is doing; only the execution is dispatched.
Run == /\ running' = TRUE
       /\ busy' = TRUE
       /\ strand' = Append(strand, ExeNext)
       /\ UNCHANGED <<acts, open>>

\* Mutant: run() is called on a busy queue as well.
RunBusy == Run

\* The owner's discipline: run() is called on an idle queue.
RunIdle == ~busy /\ Run

\* Mutant: invoke the front and forget to pop it.
InvokeWithoutPop(q) == /\ open' = open \cup {Head(q)}
                       /\ acts' = q

\* Mutant: invoke the newest.
PopBackAndInvoke(q) == /\ open' = open \cup {q[Len(q)]}
                       /\ acts' = SubSeq(q, 1, Len(q) - 1)

\* Pop the oldest of q and invoke it.
PopAndInvoke(q) == /\ open' = open \cup {Head(q)}
                   /\ acts' = Tail(q)

\* Mutant: a pushed function starts the queue without looking at the flag.
StrandPushUntested ==
  /\ strand # <<>>
  /\ Head(strand) # ExeNext
  /\ strand' = Tail(strand)
  /\ running' = TRUE
  /\ busy' = TRUE
  /\ PopAndInvoke(Append(acts, Head(strand)))

\* The function dispatched by push() runs: it stores the action, and an
\* idle queue is started within the same function (run() -> exe_next(), whose
\* dispatch is inline here).
StrandPush ==
  /\ strand # <<>>
  /\ Head(strand) # ExeNext
  /\ strand' = Tail(strand)
  /\ \/ /\ busy
        /\ acts' = Append(acts, Head(strand))
        /\ UNCHANGED <<busy, running, open>>
     \/ /\ ~busy
        /\ running' = TRUE
        /\ busy' = TRUE
        /\ PopAndInvoke(Append(acts, Head(strand)))

\* The function dispatched by exe_next() runs.
StrandExec ==
  /\ strand # <<>>
  /\ Head(strand) = ExeNext
  /\ strand' = Tail(strand)
  /\ \/ /\ acts # <<>>
        /\ PopAndInvoke(acts)
        /\ UNCHANGED busy
     \/ /\ acts = <<>>
        /\ busy' = FALSE
        /\ UNCHANGED <<acts, open>>
  /\ UNCHANGED running

\* Mutant: the callback stops the queue whatever it holds.
DoneAndStop(a) == /\ a \in open
                  /\ open' = open \ {a}
                  /\ busy' = FALSE
                  /\ UNCHANGED <<strand, acts, running>>

\* The callback handed to a is called: go on with the next action, or stop.
Done(a) ==
  /\ a \in open
  /\ open' = open \ {a}
  /\ \/ /\ acts # <<>>
        /\ busy' = TRUE
        /\ strand' = Append(strand, ExeNext)
     \/ /\ acts = <<>>
        /\ busy' = FALSE
        /\ UNCHANGED strand
  /\ UNCHANGED <<acts, running>>

-----------------------------------------------------------------------------
StrandStep == StrandPush \/ StrandExec

QueueNext == \/ \E a \in Acts : Push(a) \/ Done(a)
             \/ StrandStep

Next == QueueNext \/ RunIdle

\* The strand's executor keeps running what was dispatched.
Spec == Init /\ [][Next]_vars /\ WF_vars(StrandStep)

\* ... and every function calls its callback, as action_queue.hpp:17 demands.
LiveSpec == Spec /\ \A a \in Acts : WF_vars(Done(a))

-----------------------------------------------------------------------------
Injective(s) == \A i, j \in DOMAIN s : s[i] = s[j] => i = j

\* Every variable has its type, and the queue holds a pushed function in one
\* place only: the moves strand -> m_acts -> executed neither copy nor leave
\* one behind.
TypeInv == /\ strand \in Seq(Acts \cup {ExeNext})
           /\ acts \in Seq(Acts)
           /\ busy \in BOOLEAN
           /\ running \in BOOLEAN
           /\ open \in SUBSET Acts
           /\ Injective(acts)
           /\ Elements(acts) \cap open = {}
           /\ Elements(strand) \cap (Elements(acts) \cup open) = {}

\* "The next queued function is not executed until the callback passed to
\* the last executed function is called" (action_queue.hpp:14).
OneAtATime == \A a, b \in open : a = b

\* A stored action always has somebody who will come back for it: an executed
\* function that owes its callback, or an exe_next() on its way.  Otherwise
\* the queue sleeps although it is not empty (action_queue.hpp:82-86).
NoLostWakeup == acts # <<>> => open # {} \/ ExecPending

\* The pushed functions in the strand, of which at most one is an exe_next().
Pushed(s) ==
  IF ExeNext \in Elements(s)
    THEN LET k == CHOOSE i \in DOMAIN s : s[i] = ExeNext
         IN  SubSeq(s, 1, k - 1) \o SubSeq(s, k + 1, Len(s))
    ELSE s

\* The queue implements the serial queue: what m_acts and the strand hold
\* is pending, in that order.
Serial == INSTANCE SerialQueue WITH
            pending <- acts \o Pushed(strand),
            current <- open
ImplementsSerialQueue == Serial!Spec

\* The strengthening that makes OneAtATime and NoLostWakeup inductive:
\* m_currently_running_act is set exactly while one function owes its
\* callback or one exe_next() is on its way, never both, and an idle queue is
\* empty.
TokenInv == /\ OneAtATime
            /\ Injective(strand)
            /\ busy <=> (open # {} \/ ExecPending)
            /\ ~(open # {} /\ ExecPending)
            /\ ~busy => acts = <<>>
=============================================================================
