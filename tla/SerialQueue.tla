---------------------------- MODULE SerialQueue ----------------------------
(***************************************************************************)
(* What malloy::detail::action_queue promises to its owner: actions run    *)
(* in the order they were pushed, and "the next queued function is not     *)
(* executed until the callback passed to the last executed function is     *)
(* called" (action_queue.hpp:14).  ActionQueue.tla implements this.        *)
(***************************************************************************)
EXTENDS Sequences

CONSTANT Acts        \* the actions callers push

VARIABLES pending,   \* pushed and not yet executed, oldest first
          current    \* executed, and its callback not yet called

vars == <<pending, current>>

TypeInv == /\ pending \in Seq(Acts)
           /\ current \in SUBSET Acts

Init == /\ pending = <<>>
        /\ current = {}

Enqueue == /\ \E a \in Acts : pending' = Append(pending, a)
           /\ UNCHANGED current

\* Nothing is executed while an earlier action still owes its callback.
Execute == /\ current = {}
           /\ pending # <<>>
           /\ current' = {Head(pending)}
           /\ pending' = Tail(pending)

Callback == /\ current # {}
            /\ current' = {}
            /\ UNCHANGED pending

Next == Enqueue \/ Execute \/ Callback

\* An action whose turn has come is executed; the callback is the caller's
\* obligation (action_queue.hpp:17), so no fairness is promised for it.
Spec == Init /\ [][Next]_vars /\ WF_vars(Execute)
=============================================================================
