-------------------------- MODULE IoSessionProofs --------------------------
(***************************************************************************)
(* Proofs about IoSession.tla for every number of threads and operations:  *)
(* handlers run inside run(), one to a thread, and once the destructor has *)
(* freed the io_context nothing of it is left.  ListenerProofs.tla and     *)
(* ClientProofs.tla take Inductive from here for their instances.          *)
(***************************************************************************)
EXTENDS IoSession, TLAPS

\* No name of a state of an operation is a thread.
LEMMA ThreadNames == SessionConstants => /\ "none" \notin Threads
                                         /\ "pending" \notin Threads
                                         /\ "ready" \notin Threads
                                         /\ Caller \in Threads /\ Caller \notin Workers
                                         /\ Workers \subseteq Threads
  BY DEF SessionConstants, Threads

LEMMA InitInv == SessionConstants /\ Init => IInv
<1> SUFFICES ASSUME SessionConstants, Init PROVE IInv
  OBVIOUS
<1>1. TypeInv
  BY DEF Init, TypeInv, Phases, ThreadStates
<1>2. HandlersInRun /\ PhaseInv
  BY ThreadNames DEF Init, HandlersInRun, PhaseInv, Threads
<1> QED BY <1>1, <1>2 DEF IInv

\* Operations start, and are complete, outside the threads.
LEMMA OperationsInv ==
  ASSUME SessionConstants, IInv,
         \/ \E ws \in SUBSET Work : Post(ws)
         \/ \E w \in Work : Complete(w)
  PROVE  IInv'
<1> USE ThreadNames DEF IInv
<1>1. ASSUME NEW ws \in SUBSET Work, Post(ws) PROVE IInv'
  BY <1>1 DEF Post, Usable, TypeInv, HandlersInRun, PhaseInv
<1>2. ASSUME NEW w \in Work, Complete(w) PROVE IInv'
  BY <1>2 DEF Complete, Usable, TypeInv, HandlersInRun, PhaseInv
<1> QED BY <1>1, <1>2

\* A thread inside run() that calls no handler takes one.
LEMMA TakeInv ==
  ASSUME SessionConstants, IInv, NEW t \in Threads, NEW w \in Work, Take(t, w)
  PROVE  IInv'
<1> USE ThreadNames DEF IInv, Take
<1>1. TypeInv'
  BY DEF TypeInv
<1>2. HandlersInRun'
  BY DEF TypeInv, HandlersInRun, Idle
<1>3. PhaseInv'
  BY DEF TypeInv, PhaseInv
<1> QED BY <1>1, <1>2, <1>3

\* The handler it calls is the only one of that thread, so that nothing keeps
\* the thread inside run() once it is over.
LEMMA FinishInv ==
  ASSUME SessionConstants, IInv, NEW t \in Threads, NEW w \in Work,
         NEW ws \in SUBSET Work, Finish(t, w, ws)
  PROVE  IInv'
<1> USE ThreadNames DEF IInv
<1>1. TypeInv'
  BY DEF Finish, Settle, Outstanding, TypeInv
<1>2. \A v \in Work : op'[v] \in Threads => op'[v] = op[v]
  BY DEF Finish, TypeInv
<1>3. HandlersInRun'
  BY <1>2 DEF Finish, TypeInv, HandlersInRun
<1>4. PhaseInv'
  BY DEF Finish, TypeInv, PhaseInv
<1> QED BY <1>1, <1>3, <1>4

\* A handler that throws takes its thread, or all of them, out of run().
LEMMA ThrowInv ==
  ASSUME SessionConstants, IInv, NEW t \in Threads, NEW w \in Work, Throw(t, w)
  PROVE  IInv'
<1> USE ThreadNames DEF IInv
<1>1. CASE t = Caller
  <2>1. TypeInv'
    BY <1>1 DEF Throw, Settle, Outstanding, TypeInv, ThreadStates
  <2>2. HandlersInRun'
    BY <1>1 DEF Throw, TypeInv, HandlersInRun
  <2>3. PhaseInv'
    BY <1>1 DEF Throw, TypeInv, HandlersInRun, PhaseInv
  <2> QED BY <2>1, <2>2, <2>3
<1>2. CASE t # Caller
  <2>1. TypeInv'
    BY <1>2 DEF Throw, TypeInv, ThreadStates, Phases
  <2>2. HandlersInRun' /\ PhaseInv'
    BY <1>2 DEF Throw, TypeInv, HandlersInRun, PhaseInv
  <2> QED BY <2>1, <2>2
<1> QED BY <1>1, <1>2

\* A thread leaves run() and is joined between handlers only.
LEMMA LeaveInv ==
  ASSUME SessionConstants, IInv, NEW t \in Threads, Return(t) \/ Join(t)
  PROVE  IInv'
<1> USE ThreadNames DEF IInv
<1>1. CASE Return(t)
  <2>1. TypeInv'
    BY <1>1 DEF Return, TypeInv, ThreadStates
  <2>2. HandlersInRun'
    BY <1>1 DEF Return, Idle, TypeInv, HandlersInRun
  <2>3. PhaseInv'
    BY <1>1 DEF Return, TypeInv, PhaseInv, Threads
  <2> QED BY <2>1, <2>2, <2>3
<1>2. CASE Join(t)
  <2>1. TypeInv'
    BY <1>2 DEF Join, TypeInv, ThreadStates
  <2>2. HandlersInRun'
    BY <1>2 DEF Join, TypeInv, HandlersInRun
  <2>3. PhaseInv'
    BY <1>2 DEF Join, TypeInv, PhaseInv
  <2> QED BY <2>1, <2>2, <2>3
<1> QED BY <1>1, <1>2

\* The session from start() to the end of the destructor.
LEMMA SessionInv ==
  ASSUME SessionConstants, IInv, Start \/ Run \/ Destroy \/ Free
  PROVE  IInv'
<1> USE ThreadNames DEF IInv
<1>1. CASE Start
  BY <1>1 DEF Start, TypeInv, Phases, ThreadStates, HandlersInRun, PhaseInv, SessionConstants
<1>2. CASE Run
  <2>1. TypeInv'
    BY <1>2 DEF Run, Settle, Outstanding, TypeInv, ThreadStates
  <2>2. HandlersInRun' /\ PhaseInv'
    BY <1>2 DEF Run, TypeInv, HandlersInRun, PhaseInv
  <2> QED BY <2>1, <2>2
<1>3. CASE Destroy
  BY <1>3 DEF Destroy, TypeInv, Phases, HandlersInRun, PhaseInv
<1>4. CASE Free
  BY <1>4 DEF Free, TypeInv, Phases, HandlersInRun, PhaseInv
<1> QED BY <1>1, <1>2, <1>3, <1>4

LEMMA Inductive == SessionConstants /\ IInv /\ [Next]_vars => IInv'
<1> SUFFICES ASSUME SessionConstants, IInv, [Next]_vars PROVE IInv'
  OBVIOUS
<1>1. ASSUME NEW t \in Threads, NEW w \in Work,
             Take(t, w) \/ Throw(t, w) \/ \E ws \in SUBSET Work : Finish(t, w, ws)
      PROVE  IInv'
  BY <1>1, TakeInv, ThrowInv, FinishInv
<1>2. ASSUME NEW t \in Threads, Return(t) \/ Join(t) PROVE IInv'
  BY <1>2, LeaveInv
<1>3. CASE UNCHANGED vars
  BY <1>3 DEF vars, IInv, TypeInv, HandlersInRun, PhaseInv
<1> QED BY <1>1, <1>2, <1>3, OperationsInv, SessionInv DEF Next

\* Whatever the threads, the operations and the handlers do, the session is in
\* order: handlers run inside run() and one to a thread, run()'s thread is out
\* of it before the destructor starts, and every other before the members go.
THEOREM Invariance == ASSUME SessionConstants PROVE Spec => []IInv
<1>1. Init => IInv
  BY InitInv
<1>2. IInv /\ [Next]_vars => IInv'
  BY Inductive
<1> QED BY <1>1, <1>2, PTL DEF Spec

\* Nothing of a session is left once its destructor is over.
LEMMA GoneMeansNothing == SessionConstants /\ IInv => NothingAfterDestruction
  BY DEF SessionConstants, IInv, PhaseInv, NothingAfterDestruction, Threads

THEOREM DestroyedForGood == ASSUME SessionConstants PROVE Spec => []NothingAfterDestruction
<1>1. IInv => NothingAfterDestruction
  BY GoneMeansNothing
<1> QED BY <1>1, Invariance, PTL
=============================================================================
