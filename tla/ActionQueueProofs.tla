------------------------- MODULE ActionQueueProofs -------------------------
(***************************************************************************)
(* Proofs about ActionQueue.tla for every set of actions: under the        *)
(* owner's discipline (run() finds the queue idle) the queue is well       *)
(* typed, executes one action at a time and never sleeps on stored work.   *)
(* The argument is a token: m_currently_running_act is set exactly while   *)
(* one function owes its callback or one exe_next() is on its way, and     *)
(* each step hands that token on or gives it up on an empty queue.         *)
(*                                                                         *)
(* The queue also implements SerialQueue.tla: under the mapping that takes *)
(* m_acts, followed by the pushed functions of the strand, for what is     *)
(* pending, each step of the queue is a step of the serial queue or leaves *)
(* it alone.                                                               *)
(***************************************************************************)
EXTENDS ActionQueue, SequenceTheorems, TLAPS

\* Appending an element adds it, and keeps a sequence without repetitions one
\* when the element is new.
LEMMA AppendLemma ==
  ASSUME NEW S, NEW s \in Seq(S), NEW e \in S
  PROVE  /\ Append(s, e) \in Seq(S)
         /\ Append(s, e) # <<>>
         /\ Elements(Append(s, e)) = Elements(s) \cup {e}
         /\ Injective(s) /\ e \notin Elements(s) => Injective(Append(s, e))
<1> DEFINE t == Append(s, e)
<1>1. /\ t \in Seq(S)
      /\ Len(t) = Len(s) + 1
      /\ \A i \in 1..Len(s) : t[i] = s[i]
      /\ t[Len(s) + 1] = e
  BY AppendProperties
<1>2. /\ DOMAIN t = 1..(Len(s) + 1)
      /\ DOMAIN s = 1..Len(s)
      /\ Len(s) \in Nat
  BY <1>1, LenProperties
<1>3. t # <<>>
  BY <1>1, <1>2, EmptySeq
<1>4. Elements(t) = Elements(s) \cup {e}
  <2>1. ASSUME NEW x \in Elements(t) PROVE x \in Elements(s) \cup {e}
    BY <1>1, <1>2 DEF Elements
  <2>2. ASSUME NEW x \in Elements(s) \cup {e} PROVE x \in Elements(t)
    BY <1>1, <1>2 DEF Elements
  <2> QED BY <2>1, <2>2
<1>5. Injective(s) /\ e \notin Elements(s) => Injective(t)
  BY <1>1, <1>2 DEF Elements, Injective
<1> QED BY <1>1, <1>3, <1>4, <1>5

\* Taking the head off a sequence removes just that element, and from a
\* sequence without repetitions for good.
LEMMA TailLemma ==
  ASSUME NEW S, NEW s \in Seq(S), s # <<>>
  PROVE  /\ Head(s) \in S
         /\ Tail(s) \in Seq(S)
         /\ Elements(s) = {Head(s)} \cup Elements(Tail(s))
         /\ Injective(s) => Injective(Tail(s)) /\ Head(s) \notin Elements(Tail(s))
<1> DEFINE t == Tail(s)
<1>1. /\ Head(s) \in S
      /\ Head(s) = s[1]
      /\ t \in Seq(S)
      /\ Len(t) = Len(s) - 1
      /\ \A i \in 1..Len(t) : t[i] = s[i + 1]
  BY HeadTailProperties
<1>2. /\ DOMAIN t = 1..(Len(s) - 1)
      /\ DOMAIN s = 1..Len(s)
      /\ Len(s) \in Nat
      /\ Len(s) > 0
  BY <1>1, LenProperties, EmptySeq
<1>3. Elements(s) = {Head(s)} \cup Elements(t)
  <2>1. ASSUME NEW i \in DOMAIN s PROVE s[i] \in {Head(s)} \cup Elements(t)
    <3>1. CASE i = 1
      BY <3>1, <1>1
    <3>2. CASE i # 1
      <4>1. i - 1 \in 1..Len(t) /\ s[i] = t[i - 1]
        BY <3>2, <1>1, <1>2
      <4> QED BY <4>1, <1>1, <1>2 DEF Elements
    <3> QED BY <3>1, <3>2
  <2>2. ASSUME NEW i \in DOMAIN t PROVE t[i] \in Elements(s)
    BY <1>1, <1>2 DEF Elements
  <2>3. Head(s) \in Elements(s)
    BY <1>1, <1>2 DEF Elements
  <2> QED BY <2>1, <2>2, <2>3 DEF Elements
<1>4. ASSUME Injective(s) PROVE Injective(t) /\ Head(s) \notin Elements(t)
  BY <1>1, <1>2, <1>4 DEF Elements, Injective
<1> QED BY <1>1, <1>3, <1>4

-----------------------------------------------------------------------------
IInv == TypeInv /\ TokenInv

\* The empty queue holds nothing and nobody has the token.
LEMMA InitIInv == Init => IInv
<1>1. Elements(<<>>) = {} /\ Injective(<<>>)
  BY DEF Elements, Injective
<1>2. ASSUME Init PROVE TypeInv
  <2>1. strand = <<>> /\ acts = <<>>
    BY <1>2 DEF Init
  <2>2. strand \in Seq(Acts \cup {ExeNext}) /\ acts \in Seq(Acts)
    BY <2>1
  <2> QED BY <1>1, <1>2, <2>1, <2>2 DEF Init, TypeInv
<1>3. ASSUME Init PROVE TokenInv
  BY <1>1, <1>3 DEF Init, TokenInv, OneAtATime, ExecPending
<1> QED BY <1>2, <1>3 DEF IInv

\* push() puts a new function at the end of the strand and touches nothing
\* else, so the token stays where it is.
LEMMA PushIInv ==
  ASSUME IInv, NEW a \in Acts, Push(a)
  PROVE  IInv'
<1>1. /\ a # ExeNext
      /\ a \notin Elements(strand) \cup Elements(acts) \cup open
  BY ExeNextAssumption DEF Push, Held
<1>2. /\ strand' \in Seq(Acts \cup {ExeNext})
      /\ Elements(strand)' = Elements(strand) \cup {a}
      /\ Injective(strand)'
  BY <1>1, AppendLemma DEF IInv, TypeInv, TokenInv, Push, Elements, Injective
<1>3. /\ UNCHANGED <<acts, busy, running, open>>
      /\ Elements(acts)' = Elements(acts)
      /\ Injective(acts)' = Injective(acts)
  BY DEF Push, Elements, Injective
<1>4. TypeInv'
  BY <1>1, <1>2, <1>3 DEF IInv, TypeInv
<1>5. TokenInv'
  BY <1>1, <1>2, <1>3 DEF IInv, TokenInv, OneAtATime, ExecPending
<1> QED BY <1>4, <1>5 DEF IInv

\* run() on an idle queue creates the token: nothing is open and no exe_next()
\* is on its way, so the one it dispatches is the only one.
LEMMA RunIdleIInv ==
  ASSUME IInv, RunIdle
  PROVE  IInv'
<1>1. /\ ~busy
      /\ ExeNext \notin Elements(strand)
      /\ open = {}
  BY DEF IInv, TokenInv, RunIdle, ExecPending
<1>2. /\ strand' \in Seq(Acts \cup {ExeNext})
      /\ Elements(strand)' = Elements(strand) \cup {ExeNext}
      /\ Injective(strand)'
  BY <1>1, AppendLemma DEF IInv, TypeInv, TokenInv, RunIdle, Run, Elements, Injective
<1>3. /\ UNCHANGED <<acts, open>>
      /\ busy' = TRUE /\ running' = TRUE
      /\ Elements(acts)' = Elements(acts)
      /\ Injective(acts)' = Injective(acts)
  BY DEF RunIdle, Run, Elements, Injective
<1>4. ExeNext \notin Elements(acts)
  BY ExeNextAssumption DEF IInv, TypeInv, Elements
<1>5. TypeInv'
  BY <1>1, <1>2, <1>3, <1>4 DEF IInv, TypeInv
<1>6. TokenInv'
  BY <1>1, <1>2, <1>3 DEF IInv, TokenInv, OneAtATime, ExecPending
<1> QED BY <1>5, <1>6 DEF IInv

\* A dispatched push() runs.  With the token out it only stores the function;
\* otherwise the queue is empty, so the function itself is executed and
\* becomes the holder of the token.
LEMMA StrandPushIInv ==
  ASSUME IInv, StrandPush
  PROVE  IInv'
<1> DEFINE a == Head(strand)
<1>1. /\ strand # <<>>
      /\ a # ExeNext
      /\ strand' = Tail(strand)
  BY DEF StrandPush
<1>2. /\ strand \in Seq(Acts \cup {ExeNext})
      /\ Injective(strand)
      /\ acts \in Seq(Acts)
  BY DEF IInv, TypeInv, TokenInv
<1>3. /\ a \in Acts
      /\ strand' \in Seq(Acts \cup {ExeNext})
      /\ Elements(strand) = {a} \cup Elements(strand)'
      /\ Injective(strand)'
      /\ a \notin Elements(strand)'
  <2>1. /\ a \in Acts \cup {ExeNext}
        /\ Tail(strand) \in Seq(Acts \cup {ExeNext})
        /\ Elements(strand) = {a} \cup Elements(Tail(strand))
        /\ Injective(Tail(strand))
        /\ a \notin Elements(Tail(strand))
    BY <1>1, <1>2, TailLemma
  <2>2. /\ Elements(strand)' = Elements(Tail(strand))
        /\ Injective(strand)' = Injective(Tail(strand))
    BY <1>1 DEF Elements, Injective
  <2> QED BY <1>1, <2>1, <2>2
<1>4. a \notin Elements(acts) /\ a \notin open
  BY <1>3 DEF IInv, TypeInv
<1>5. ExecPending' <=> ExecPending
  BY <1>1, <1>3 DEF ExecPending
<1>6. CASE busy /\ acts' = Append(acts, a) /\ UNCHANGED <<busy, running, open>>
  <2>1. /\ acts' \in Seq(Acts)
        /\ Elements(acts)' = Elements(acts) \cup {a}
        /\ Injective(acts)'
    <3>1. /\ Append(acts, a) \in Seq(Acts)
          /\ Elements(Append(acts, a)) = Elements(acts) \cup {a}
          /\ Injective(Append(acts, a))
      BY <1>2, <1>3, <1>4, AppendLemma DEF IInv, TypeInv
    <3>2. /\ Elements(acts)' = Elements(Append(acts, a))
          /\ Injective(acts)' = Injective(Append(acts, a))
      BY <1>6 DEF Elements, Injective
    <3> QED BY <1>6, <3>1, <3>2
  <2>2. TypeInv'
    BY <1>3, <1>4, <1>6, <2>1 DEF IInv, TypeInv
  <2>3. TokenInv'
    BY <1>3, <1>5, <1>6 DEF IInv, TokenInv, OneAtATime
  <2> QED BY <2>2, <2>3 DEF IInv
<1>7. CASE ~busy /\ running' = TRUE /\ busy' = TRUE /\ PopAndInvoke(Append(acts, a))
  <2>1. acts = <<>> /\ open = {} /\ ~ExecPending
    BY <1>7 DEF IInv, TokenInv
  <2>2. Head(<<a>>) = a /\ Tail(<<a>>) = <<>> /\ Append(acts, a) = <<a>>
    BY <2>1
  <2>3. open' = {a} /\ acts' = <<>>
    BY <1>7, <2>1, <2>2 DEF PopAndInvoke
  <2>4. acts' \in Seq(Acts) /\ Elements(acts)' = {} /\ Injective(acts)'
    BY <2>3 DEF Elements, Injective
  <2>5. TypeInv'
    BY <1>3, <1>7, <2>3, <2>4 DEF IInv, TypeInv
  <2>6. TokenInv'
    BY <1>3, <1>5, <1>7, <2>1, <2>3 DEF IInv, TokenInv, OneAtATime
  <2> QED BY <2>5, <2>6 DEF IInv
<1> QED BY <1>6, <1>7 DEF StrandPush

\* A dispatched exe_next() runs: the token it was passes to the function it
\* executes, or goes with the last stored function.
LEMMA StrandExecIInv ==
  ASSUME IInv, StrandExec
  PROVE  IInv'
<1>1. /\ strand # <<>>
      /\ Head(strand) = ExeNext
      /\ strand' = Tail(strand)
      /\ running' = running
  BY DEF StrandExec
<1>2. /\ strand \in Seq(Acts \cup {ExeNext})
      /\ Injective(strand)
      /\ acts \in Seq(Acts)
  BY DEF IInv, TypeInv, TokenInv
<1>3. /\ strand' \in Seq(Acts \cup {ExeNext})
      /\ Elements(strand) = {ExeNext} \cup Elements(strand)'
      /\ Injective(strand)'
      /\ ExeNext \notin Elements(strand)'
  <2>1. /\ Tail(strand) \in Seq(Acts \cup {ExeNext})
        /\ Elements(strand) = {ExeNext} \cup Elements(Tail(strand))
        /\ Injective(Tail(strand))
        /\ ExeNext \notin Elements(Tail(strand))
    BY <1>1, <1>2, TailLemma
  <2>2. /\ Elements(strand)' = Elements(Tail(strand))
        /\ Injective(strand)' = Injective(Tail(strand))
    BY <1>1 DEF Elements, Injective
  <2> QED BY <1>1, <2>1, <2>2
<1>4. busy /\ open = {} /\ ~ExecPending'
  BY <1>3 DEF IInv, TokenInv, ExecPending
<1>5. CASE acts # <<>> /\ PopAndInvoke(acts) /\ UNCHANGED busy
  <2>1. /\ open' = {Head(acts)}
        /\ acts' = Tail(acts)
    BY <1>4, <1>5 DEF PopAndInvoke
  <2>2. /\ Head(acts) \in Acts
        /\ acts' \in Seq(Acts)
        /\ Elements(acts) = {Head(acts)} \cup Elements(acts)'
        /\ Injective(acts)'
        /\ Head(acts) \notin Elements(acts)'
    <3>1. /\ Head(acts) \in Acts
          /\ Tail(acts) \in Seq(Acts)
          /\ Elements(acts) = {Head(acts)} \cup Elements(Tail(acts))
          /\ Injective(Tail(acts))
          /\ Head(acts) \notin Elements(Tail(acts))
      BY <1>2, <1>5, TailLemma DEF IInv, TypeInv
    <3>2. /\ Elements(acts)' = Elements(Tail(acts))
          /\ Injective(acts)' = Injective(Tail(acts))
      BY <2>1 DEF Elements, Injective
    <3> QED BY <2>1, <3>1, <3>2
  <2>3. TypeInv'
    BY <1>1, <1>3, <1>5, <2>1, <2>2 DEF IInv, TypeInv
  <2>4. TokenInv'
    BY <1>3, <1>4, <1>5, <2>1 DEF IInv, TokenInv, OneAtATime
  <2> QED BY <2>3, <2>4 DEF IInv
<1>6. CASE acts = <<>> /\ busy' = FALSE /\ UNCHANGED <<acts, open>>
  <2>1. Elements(acts)' = Elements(acts) /\ Injective(acts)' = Injective(acts)
    BY <1>6 DEF Elements, Injective
  <2>2. TypeInv'
    BY <1>1, <1>3, <1>6, <2>1 DEF IInv, TypeInv
  <2>3. TokenInv'
    BY <1>3, <1>4, <1>6 DEF IInv, TokenInv, OneAtATime
  <2> QED BY <2>2, <2>3 DEF IInv
<1> QED BY <1>1, <1>5, <1>6 DEF StrandExec

\* A callback is called by the only open function: the token goes to a new
\* exe_next() while functions are stored, and is given up otherwise.
LEMMA DoneIInv ==
  ASSUME IInv, NEW a \in Acts, Done(a)
  PROVE  IInv'
<1>1. /\ a \in open
      /\ open' = open \ {a}
      /\ UNCHANGED <<acts, running>>
  BY DEF Done
<1>2. open' = {} /\ busy /\ ExeNext \notin Elements(strand)
  BY <1>1 DEF IInv, TokenInv, OneAtATime, ExecPending
<1>3. Elements(acts)' = Elements(acts) /\ Injective(acts)' = Injective(acts)
  BY <1>1 DEF Elements, Injective
<1>4. CASE acts # <<>> /\ busy' = TRUE /\ strand' = Append(strand, ExeNext)
  <2>1. /\ strand' \in Seq(Acts \cup {ExeNext})
        /\ Elements(strand)' = Elements(strand) \cup {ExeNext}
        /\ Injective(strand)'
    <3>1. /\ Append(strand, ExeNext) \in Seq(Acts \cup {ExeNext})
          /\ Elements(Append(strand, ExeNext)) = Elements(strand) \cup {ExeNext}
          /\ Injective(Append(strand, ExeNext))
      BY <1>2, AppendLemma DEF IInv, TypeInv, TokenInv
    <3>2. /\ Elements(strand)' = Elements(Append(strand, ExeNext))
          /\ Injective(strand)' = Injective(Append(strand, ExeNext))
      BY <1>4 DEF Elements, Injective
    <3> QED BY <1>4, <3>1, <3>2
  <2>2. ExeNext \notin Elements(acts)
    BY ExeNextAssumption DEF IInv, TypeInv, Elements
  <2>3. TypeInv'
    BY <1>1, <1>2, <1>3, <1>4, <2>1, <2>2 DEF IInv, TypeInv
  <2>4. TokenInv'
    BY <1>2, <1>4, <2>1 DEF IInv, TokenInv, OneAtATime, ExecPending
  <2> QED BY <2>3, <2>4 DEF IInv
<1>5. CASE acts = <<>> /\ busy' = FALSE /\ UNCHANGED strand
  <2>1. Elements(strand)' = Elements(strand) /\ Injective(strand)' = Injective(strand)
    BY <1>5 DEF Elements, Injective
  <2>2. TypeInv'
    BY <1>1, <1>2, <1>3, <1>5, <2>1 DEF IInv, TypeInv
  <2>3. TokenInv'
    BY <1>1, <1>2, <1>5, <2>1 DEF IInv, TokenInv, OneAtATime, ExecPending
  <2> QED BY <2>2, <2>3 DEF IInv
<1> QED BY <1>4, <1>5 DEF Done

-----------------------------------------------------------------------------
(* What the queue holds after each step: for an owner who keeps a record   *)
(* of every function pushed (WsConnectionProofs.tla).                      *)

\* push() adds one function, and executes none.
LEMMA PushHolds ==
  ASSUME IInv, NEW a \in Acts, Push(a)
  PROVE  Held' = Held \cup {a} /\ open' = open
<1>1. Elements(Append(strand, a)) = Elements(strand) \cup {a}
  BY AppendLemma DEF IInv, TypeInv
<1> QED BY <1>1 DEF Push, Held, Elements

\* What the strand runs adds nothing, and what is executed was there.
LEMMA StrandHolds ==
  ASSUME IInv, StrandStep
  PROVE  Held' \subseteq Held /\ open' \subseteq Held
<1> DEFINE a == Head(strand)
<1>1. /\ strand # <<>> /\ strand \in Seq(Acts \cup {ExeNext})
      /\ acts \in Seq(Acts)
      /\ strand' = Tail(strand)
  BY DEF IInv, TypeInv, StrandStep, StrandPush, StrandExec
<1>2. Elements(strand) = {a} \cup Elements(strand')
  BY <1>1, TailLemma
<1>3. ASSUME StrandPush PROVE open' \cup Elements(acts') \subseteq open \cup Elements(acts) \cup {a}
  <2>1. a \in Acts
    BY <1>1, <1>3, TailLemma DEF StrandPush
  <2>2. Append(acts, a) \in Seq(Acts) /\ Append(acts, a) # <<>>
        /\ Elements(Append(acts, a)) = Elements(acts) \cup {a}
    BY <1>1, <2>1, AppendLemma
  <2>3. Elements(Append(acts, a)) = {Head(Append(acts, a))} \cup Elements(Tail(Append(acts, a)))
    BY <2>2, TailLemma
  <2> QED BY <1>3, <2>2, <2>3 DEF StrandPush, PopAndInvoke
<1>4. ASSUME StrandExec PROVE open' \cup Elements(acts') \subseteq open \cup Elements(acts)
  <2>1. acts # <<>> => Elements(acts) = {Head(acts)} \cup Elements(Tail(acts))
    BY <1>1, TailLemma
  <2> QED BY <1>4, <2>1 DEF StrandExec, PopAndInvoke
<1>5. Elements(strand)' = Elements(strand') /\ Elements(acts)' = Elements(acts')
  BY DEF Elements
<1> QED BY <1>2, <1>3, <1>4, <1>5 DEF StrandStep, Held

\* A function whose callback is called is gone.
LEMMA DoneHolds ==
  ASSUME IInv, NEW a \in Acts, Done(a)
  PROVE  Held' \subseteq (Held \ {a}) \cup {ExeNext} /\ open' = open \ {a}
<1>1. a \notin Elements(strand) \cup Elements(acts)
  BY DEF IInv, TypeInv, Done
<1>2. Elements(Append(strand, ExeNext)) = Elements(strand) \cup {ExeNext}
  BY AppendLemma DEF IInv, TypeInv
<1> QED BY <1>1, <1>2 DEF Done, Held, Elements

-----------------------------------------------------------------------------
LEMMA NextIInv == IInv /\ [Next]_vars => IInv'
<1> SUFFICES ASSUME IInv, [Next]_vars PROVE IInv'
  OBVIOUS
<1>1. ASSUME NEW a \in Acts, Push(a) PROVE IInv'
  BY <1>1, PushIInv
<1>2. ASSUME NEW a \in Acts, Done(a) PROVE IInv'
  BY <1>2, DoneIInv
<1>3. CASE StrandPush
  BY <1>3, StrandPushIInv
<1>4. CASE StrandExec
  BY <1>4, StrandExecIInv
<1>5. CASE RunIdle
  BY <1>5, RunIdleIInv
<1>6. CASE UNCHANGED vars
  BY <1>6 DEF vars, IInv, TypeInv, TokenInv, OneAtATime, ExecPending, Elements, Injective
<1> QED BY <1>1, <1>2, <1>3, <1>4, <1>5, <1>6 DEF Next, QueueNext, StrandStep

\* Every reachable state of the queue satisfies the inductive invariant.
THEOREM Invariance == Spec => []IInv
  BY InitIInv, NextIInv, PTL DEF Spec

\* The queue is well typed and holds every pushed function in one place.
THEOREM TypeCorrect == Spec => []TypeInv
<1>1. IInv => TypeInv
  BY DEF IInv
<1> QED BY <1>1, Invariance, PTL

\* The token behind the two theorems below: m_currently_running_act is set
\* exactly while one function owes its callback or one exe_next() is on its way,
\* never both, and an idle queue is empty (action_queue.hpp:71-97).
THEOREM TokenKept == Spec => []TokenInv
<1>1. IInv => TokenInv
  BY DEF IInv
<1> QED BY <1>1, Invariance, PTL

\* "The next queued function is not executed until the callback passed to the
\* last executed function is called" (action_queue.hpp:14).
THEOREM Serialised == Spec => []OneAtATime
<1>1. IInv => OneAtATime
  BY DEF IInv, TokenInv
<1> QED BY <1>1, Invariance, PTL

\* Stored work always has somebody who comes back for it.
THEOREM NeverAsleep == Spec => []NoLostWakeup
<1>1. IInv => NoLostWakeup
  BY DEF IInv, TokenInv, NoLostWakeup
<1> QED BY <1>1, Invariance, PTL

-----------------------------------------------------------------------------
(* The refinement.                                                         *)

\* What Pushed() makes of a sequence with one exe_next() in it, element by
\* element.
LEMMA PushedElements ==
  ASSUME NEW S, NEW s \in Seq(S), Injective(s), NEW k \in 1..Len(s), s[k] = ExeNext
  PROVE  /\ Pushed(s) \in Seq(S)
         /\ Len(Pushed(s)) = Len(s) - 1
         /\ \A i \in 1..(Len(s) - 1) : Pushed(s)[i] = IF i < k THEN s[i] ELSE s[i + 1]
<1> DEFINE l == SubSeq(s, 1, k - 1)
           r == SubSeq(s, k + 1, Len(s))
<1>1. Len(s) \in Nat /\ DOMAIN s = 1..Len(s) /\ \A i \in 1..Len(s) : s[i] \in S
  BY LenProperties, ElementOfSeq
<1>2. k = CHOOSE i \in DOMAIN s : s[i] = ExeNext
  BY <1>1 DEF Injective
<1>3. Pushed(s) = l \o r
  BY <1>1, <1>2 DEF Pushed, Elements
<1>4. /\ l \in Seq(S)
      /\ Len(l) = k - 1
      /\ \A i \in 1..(k - 1) : l[i] = s[i]
  <2>1. k - 1 \in Int /\ 1 \in Int /\ \A i \in 1..(k - 1) : s[i] \in S
    BY <1>1
  <2>2. /\ l \in Seq(S)
        /\ Len(l) = IF 1 <= k - 1 THEN (k - 1) - 1 + 1 ELSE 0
        /\ \A i \in 1..((k - 1) - 1 + 1) : l[i] = s[1 + i - 1]
    BY <2>1, SubSeqProperties
  <2> QED BY <2>2, <1>1
<1>5. /\ r \in Seq(S)
      /\ Len(r) = Len(s) - k
      /\ \A i \in 1..(Len(s) - k) : r[i] = s[k + i]
  <2>1. k + 1 \in Int /\ Len(s) \in Int /\ \A i \in (k + 1)..Len(s) : s[i] \in S
    BY <1>1
  <2>2. /\ r \in Seq(S)
        /\ Len(r) = IF k + 1 <= Len(s) THEN Len(s) - (k + 1) + 1 ELSE 0
        /\ \A i \in 1..(Len(s) - (k + 1) + 1) : r[i] = s[(k + 1) + i - 1]
    BY <2>1, SubSeqProperties
  <2> HIDE DEF r
  <2>3. /\ Len(s) - (k + 1) + 1 = Len(s) - k
        /\ k + 1 <= Len(s) \/ Len(s) - k = 0
    <3>1. ASSUME NEW n \in Nat, NEW m \in 1..n
          PROVE  n - (m + 1) + 1 = n - m /\ (m + 1 <= n \/ n - m = 0)
      OBVIOUS
    <3> QED BY <3>1, <1>1
  <2>4. ASSUME NEW i \in 1..(Len(s) - k) PROVE (k + 1) + i - 1 = k + i
    BY <1>1
  <2>5. Len(r) = Len(s) - k
    BY <2>2, <2>3
  <2>6. ASSUME NEW i \in 1..(Len(s) - k) PROVE r[i] = s[k + i]
    BY <2>2, <2>3, <2>4
  <2> QED BY <2>2, <2>5, <2>6
<1>6. /\ l \o r \in Seq(S)
      /\ Len(l \o r) = Len(l) + Len(r)
      /\ \A i \in 1..(Len(l) + Len(r)) :
           (l \o r)[i] = IF i <= Len(l) THEN l[i] ELSE r[i - Len(l)]
  BY <1>4, <1>5, ConcatProperties
<1> HIDE DEF l, r
<1>7. ASSUME NEW i \in 1..(Len(s) - 1)
      PROVE  (l \o r)[i] = IF i < k THEN s[i] ELSE s[i + 1]
  <2>1. CASE i < k
    BY <2>1, <1>1, <1>4, <1>5, <1>6
  <2>2. CASE ~(i < k)
    <3>1. i - Len(l) \in 1..(Len(s) - k) /\ k + (i - Len(l)) = i + 1
      BY <2>2, <1>1, <1>4
    <3>2. r[i - Len(l)] = s[i + 1]
      BY <3>1, <1>5
    <3> QED BY <2>2, <3>2, <1>1, <1>4, <1>5, <1>6
  <2> QED BY <2>1, <2>2
<1> QED BY <1>1, <1>3, <1>4, <1>5, <1>6, <1>7

\* Without an exe_next() the strand is all pushed functions.
LEMMA PushedAbsent ==
  ASSUME NEW s, ExeNext \notin Elements(s)
  PROVE  Pushed(s) = s
BY DEF Pushed

\* The one exe_next() of the strand has a place.
LEMMA ExecPlace ==
  ASSUME NEW S, NEW s \in Seq(S), ExeNext \in Elements(s)
  PROVE  \E k \in 1..Len(s) : s[k] = ExeNext
BY LenProperties DEF Elements

\* Either way it is a sequence over the same set.
LEMMA PushedInSeq ==
  ASSUME NEW S, NEW s \in Seq(S), Injective(s)
  PROVE  Pushed(s) \in Seq(S)
BY PushedElements, PushedAbsent, ExecPlace

\* A pushed function joins what is pushed at the end.
LEMMA PushedAppend ==
  ASSUME NEW S, NEW s \in Seq(S), Injective(s),
         NEW a \in S, a # ExeNext, a \notin Elements(s)
  PROVE  Pushed(Append(s, a)) = Append(Pushed(s), a)
<1> DEFINE t == Append(s, a)
<1>1. /\ t \in Seq(S)
      /\ Injective(t)
      /\ Elements(t) = Elements(s) \cup {a}
  BY AppendLemma
<1>2. /\ Len(t) = Len(s) + 1
      /\ \A i \in 1..Len(s) : t[i] = s[i]
      /\ t[Len(s) + 1] = a
      /\ Len(s) \in Nat
  BY AppendProperties, LenProperties
<1> HIDE DEF t
<1>3. CASE ExeNext \notin Elements(s)
  <2>1. ExeNext \notin Elements(t)
    BY <1>1, <1>3
  <2> QED BY <2>1, <1>3, PushedAbsent DEF t
<1>4. CASE ExeNext \in Elements(s)
  <2>1. PICK k \in 1..Len(s) : s[k] = ExeNext
    BY <1>4, ExecPlace
  <2>2. /\ Pushed(s) \in Seq(S)
        /\ Len(Pushed(s)) = Len(s) - 1
        /\ \A i \in 1..(Len(s) - 1) : Pushed(s)[i] = IF i < k THEN s[i] ELSE s[i + 1]
    BY <2>1, PushedElements
  <2>3. k \in 1..Len(t) /\ t[k] = ExeNext
    BY <2>1, <1>2
  <2>4. /\ Pushed(t) \in Seq(S)
        /\ Len(Pushed(t)) = Len(s)
        /\ \A i \in 1..Len(s) : Pushed(t)[i] = IF i < k THEN t[i] ELSE t[i + 1]
    <3>1. /\ Pushed(t) \in Seq(S)
          /\ Len(Pushed(t)) = Len(t) - 1
          /\ \A i \in 1..(Len(t) - 1) : Pushed(t)[i] = IF i < k THEN t[i] ELSE t[i + 1]
      BY <2>3, <1>1, PushedElements
    <3> QED BY <3>1, <1>2
  <2>5. /\ Append(Pushed(s), a) \in Seq(S)
        /\ Len(Append(Pushed(s), a)) = Len(s)
        /\ \A i \in 1..(Len(s) - 1) : Append(Pushed(s), a)[i] = Pushed(s)[i]
        /\ Append(Pushed(s), a)[Len(s)] = a
    <3>1. /\ Append(Pushed(s), a) \in Seq(S)
          /\ Len(Append(Pushed(s), a)) = Len(Pushed(s)) + 1
          /\ \A i \in 1..Len(Pushed(s)) : Append(Pushed(s), a)[i] = Pushed(s)[i]
          /\ Append(Pushed(s), a)[Len(Pushed(s)) + 1] = a
      BY <2>2, AppendProperties
    <3>2. Len(Pushed(s)) + 1 = Len(s)
      BY <2>2, <1>2
    <3> QED BY <3>1, <3>2, <2>2
  <2>6. ASSUME NEW i \in 1..Len(s) PROVE Pushed(t)[i] = Append(Pushed(s), a)[i]
    <3>1. CASE i = Len(s)
      BY <3>1, <2>1, <2>4, <2>5, <1>2
    <3>2. CASE i # Len(s)
      <4>1. i \in 1..(Len(s) - 1) /\ i + 1 \in 1..Len(s)
        BY <3>2, <1>2
      <4>2. t[i] = s[i] /\ t[i + 1] = s[i + 1]
        BY <4>1, <1>2
      <4> QED BY <4>1, <4>2, <2>2, <2>4, <2>5
    <3> QED BY <3>1, <3>2
  <2>7. Pushed(t) = Append(Pushed(s), a)
    BY <2>4, <2>5, <2>6, SeqEqual
  <2> QED BY <2>7 DEF t
<1> QED BY <1>3, <1>4

\* The exe_next() that joins a strand without one is not pushed work.
LEMMA PushedAppendExec ==
  ASSUME NEW S, ExeNext \in S, NEW s \in Seq(S), Injective(s), ExeNext \notin Elements(s)
  PROVE  Pushed(Append(s, ExeNext)) = Pushed(s)
<1> DEFINE t == Append(s, ExeNext)
<1>1. t \in Seq(S) /\ Injective(t)
  BY AppendLemma
<1>2. /\ Len(t) = Len(s) + 1
      /\ \A i \in 1..Len(s) : t[i] = s[i]
      /\ t[Len(s) + 1] = ExeNext
      /\ Len(s) \in Nat
  BY AppendProperties, LenProperties
<1> HIDE DEF t
<1>3. Len(s) + 1 \in 1..Len(t)
  BY <1>2
<1>4. /\ Pushed(t) \in Seq(S)
      /\ Len(Pushed(t)) = Len(t) - 1
      /\ \A i \in 1..(Len(t) - 1) :
           Pushed(t)[i] = IF i < Len(s) + 1 THEN t[i] ELSE t[i + 1]
  BY <1>1, <1>2, <1>3, PushedElements
<1>5. Len(Pushed(t)) = Len(s) /\ \A i \in 1..Len(Pushed(t)) : Pushed(t)[i] = s[i]
  BY <1>2, <1>4
<1>6. Pushed(t) = s
  BY <1>4, <1>5, SeqEqual
<1> QED BY <1>6, PushedAbsent DEF t

\* Taking exe_next() off the strand takes no pushed function with it.
LEMMA PushedTailExec ==
  ASSUME NEW S, NEW s \in Seq(S), Injective(s), s # <<>>, Head(s) = ExeNext
  PROVE  Pushed(Tail(s)) = Pushed(s)
<1>1. /\ s[1] = ExeNext
      /\ Len(s) \in Nat
      /\ Len(s) >= 1
      /\ Tail(s) \in Seq(S)
      /\ Len(Tail(s)) = Len(s) - 1
      /\ \A i \in 1..(Len(s) - 1) : Tail(s)[i] = s[i + 1]
  BY HeadTailProperties, LenProperties, EmptySeq
<1>2. /\ Pushed(s) \in Seq(S)
      /\ Len(Pushed(s)) = Len(s) - 1
      /\ \A i \in 1..(Len(s) - 1) : Pushed(s)[i] = IF i < 1 THEN s[i] ELSE s[i + 1]
  <2>1. 1 \in 1..Len(s)
    BY <1>1
  <2> QED BY <1>1, <2>1, PushedElements
<1>3. \A i \in 1..Len(Tail(s)) : Tail(s)[i] = Pushed(s)[i]
  BY <1>1, <1>2
<1>4. Tail(s) = Pushed(s)
  BY <1>1, <1>2, <1>3, SeqEqual
<1>5. ExeNext \notin Elements(Tail(s))
  BY TailLemma
<1> QED BY <1>4, <1>5, PushedAbsent

\* Taking a pushed function off the strand takes the oldest.
LEMMA PushedTail ==
  ASSUME NEW S, NEW s \in Seq(S), Injective(s), s # <<>>, Head(s) # ExeNext
  PROVE  /\ Pushed(Tail(s)) \in Seq(S)
         /\ Pushed(s) = <<Head(s)>> \o Pushed(Tail(s))
<1> DEFINE h == Head(s)
           t == Tail(s)
<1>1. /\ h \in S
      /\ h = s[1]
      /\ Len(s) \in Nat
      /\ Len(s) >= 1
      /\ t \in Seq(S)
      /\ Len(t) = Len(s) - 1
      /\ \A i \in 1..(Len(s) - 1) : t[i] = s[i + 1]
  BY HeadTailProperties, LenProperties, EmptySeq
<1>2. Injective(t) /\ Elements(s) = {h} \cup Elements(t)
  BY TailLemma
<1> HIDE DEF h, t
<1>3. <<h>> \in Seq(S) /\ Len(<<h>>) = 1 /\ <<h>>[1] = h
  BY <1>1
<1>4. ASSUME NEW p \in Seq(S)
      PROVE  /\ <<h>> \o p \in Seq(S)
             /\ Len(<<h>> \o p) = Len(p) + 1
             /\ \A i \in 1..(Len(p) + 1) : (<<h>> \o p)[i] = IF i = 1 THEN h ELSE p[i - 1]
  <2>1. /\ <<h>> \o p \in Seq(S)
        /\ Len(<<h>> \o p) = 1 + Len(p)
        /\ \A i \in 1..(1 + Len(p)) :
             (<<h>> \o p)[i] = IF i <= 1 THEN <<h>>[i] ELSE p[i - 1]
    BY <1>3, ConcatProperties
  <2>2. Len(p) \in Nat
    BY LenProperties
  <2> QED BY <2>1, <2>2, <1>3
<1>5. CASE ExeNext \notin Elements(s)
  <2>1. Pushed(s) = s /\ Pushed(t) = t
    BY <1>2, <1>5, PushedAbsent
  <2> DEFINE u == <<h>> \o t
  <2>2. /\ u \in Seq(S)
        /\ Len(u) = Len(t) + 1
        /\ \A i \in 1..(Len(t) + 1) : u[i] = IF i = 1 THEN h ELSE t[i - 1]
    BY <1>1, <1>4
  <2> HIDE DEF u
  <2>3. ASSUME NEW i \in 1..Len(s) PROVE s[i] = u[i]
    <3>1. CASE i = 1
      BY <3>1, <1>1, <2>2
    <3>2. CASE i # 1
      BY <3>2, <1>1, <2>2
    <3> QED BY <3>1, <3>2
  <2>4. Len(s) = Len(u)
    BY <1>1, <2>2
  <2>5. s = u
    BY <2>2, <2>3, <2>4, SeqEqual
  <2> QED BY <1>1, <2>1, <2>5 DEF h, t, u
<1>6. CASE ExeNext \in Elements(s)
  <2>1. PICK k \in 1..Len(s) : s[k] = ExeNext
    BY <1>6, ExecPlace
  <2>2. k # 1
    BY <2>1, <1>1 DEF h
  <2>3. k - 1 \in 1..Len(t) /\ t[k - 1] = ExeNext
    BY <2>1, <2>2, <1>1
  <2>4. /\ Pushed(s) \in Seq(S)
        /\ Len(Pushed(s)) = Len(s) - 1
        /\ \A i \in 1..(Len(s) - 1) : Pushed(s)[i] = IF i < k THEN s[i] ELSE s[i + 1]
    BY <2>1, PushedElements
  <2>5. /\ Pushed(t) \in Seq(S)
        /\ Len(Pushed(t)) = Len(t) - 1
        /\ \A i \in 1..(Len(t) - 1) : Pushed(t)[i] = IF i < k - 1 THEN t[i] ELSE t[i + 1]
    BY <2>3, <1>1, <1>2, PushedElements
  <2> DEFINE u == <<h>> \o Pushed(t)
  <2>6. /\ u \in Seq(S)
        /\ Len(u) = Len(Pushed(t)) + 1
        /\ \A i \in 1..(Len(Pushed(t)) + 1) :
             u[i] = IF i = 1 THEN h ELSE Pushed(t)[i - 1]
    BY <2>5, <1>4
  <2> HIDE DEF u
  <2>7. Len(Pushed(t)) + 1 = Len(s) - 1
    BY <2>5, <1>1
  <2>8. ASSUME NEW i \in 1..(Len(s) - 1)
        PROVE  Pushed(s)[i] = u[i]
    <3>1. CASE i = 1
      <4>1. u[i] = h
        BY <3>1, <2>6, <2>7
      <4>2. Pushed(s)[i] = s[1]
        BY <3>1, <2>1, <2>2, <2>4
      <4> QED BY <4>1, <4>2, <1>1
    <3>2. CASE i # 1
      <4>1. u[i] = Pushed(t)[i - 1]
        BY <3>2, <2>6, <2>7
      <4>2. i - 1 \in 1..(Len(t) - 1) /\ i \in 1..(Len(s) - 1) /\ (i - 1) + 1 = i
        BY <3>2, <1>1
      <4>3. Pushed(t)[i - 1] = IF i < k THEN t[i - 1] ELSE t[i]
        BY <4>2, <2>1, <2>5
      <4>4. t[i - 1] = s[i] /\ t[i] = s[i + 1]
        BY <4>2, <1>1
      <4> QED BY <4>1, <4>3, <4>4, <2>4
    <3> QED BY <3>1, <3>2
  <2>9. Len(Pushed(s)) = Len(u) /\ \A i \in 1..Len(Pushed(s)) : Pushed(s)[i] = u[i]
    BY <2>4, <2>6, <2>7, <2>8
  <2>10. Pushed(s) = u
    BY <2>4, <2>6, <2>9, SeqEqual
  <2> QED BY <2>5, <2>10 DEF h, t, u
<1> QED BY <1>5, <1>6

\* The head of a concatenation is the head of its first part.
LEMMA HeadTailConcat ==
  ASSUME NEW S, NEW s \in Seq(S), NEW p \in Seq(S), s # <<>>
  PROVE  /\ s \o p # <<>>
         /\ Head(s \o p) = Head(s)
         /\ Tail(s \o p) = Tail(s) \o p
<1> DEFINE c == s \o p
           d == Tail(s) \o p
<1>1. /\ Len(s) \in Nat
      /\ Len(s) >= 1
      /\ Len(p) \in Nat
      /\ Head(s) = s[1]
      /\ Tail(s) \in Seq(S)
      /\ Len(Tail(s)) = Len(s) - 1
      /\ \A i \in 1..(Len(s) - 1) : Tail(s)[i] = s[i + 1]
  BY HeadTailProperties, LenProperties, EmptySeq
<1>2. /\ c \in Seq(S)
      /\ Len(c) = Len(s) + Len(p)
      /\ \A i \in 1..(Len(s) + Len(p)) : c[i] = IF i <= Len(s) THEN s[i] ELSE p[i - Len(s)]
  BY ConcatProperties
<1>3. /\ d \in Seq(S)
      /\ Len(d) = Len(Tail(s)) + Len(p)
      /\ \A i \in 1..(Len(Tail(s)) + Len(p)) :
           d[i] = IF i <= Len(Tail(s)) THEN Tail(s)[i] ELSE p[i - Len(Tail(s))]
  BY <1>1, ConcatProperties
<1> HIDE DEF c, d
<1>4. c # <<>>
  BY <1>1, <1>2, EmptySeq
<1>5. /\ Head(c) = c[1]
      /\ Tail(c) \in Seq(S)
      /\ Len(Tail(c)) = Len(c) - 1
      /\ \A i \in 1..Len(Tail(c)) : Tail(c)[i] = c[i + 1]
  BY <1>2, <1>4, HeadTailProperties
<1>6. c[1] = s[1]
  BY <1>1, <1>2
<1>7. Len(Tail(c)) = Len(d)
  BY <1>1, <1>2, <1>3, <1>5
<1>8. ASSUME NEW i \in 1..Len(d) PROVE Tail(c)[i] = d[i]
  <2>1. /\ i \in 1..(Len(s) - 1 + Len(p))
        /\ i + 1 \in 1..(Len(s) + Len(p))
        /\ Tail(c)[i] = c[i + 1]
    BY <1>1, <1>3, <1>5, <1>7
  <2>2. CASE i <= Len(s) - 1
    BY <2>1, <2>2, <1>1, <1>2, <1>3
  <2>3. CASE ~(i <= Len(s) - 1)
    <3>1. c[i + 1] = p[(i + 1) - Len(s)] /\ d[i] = p[i - (Len(s) - 1)]
      BY <2>1, <2>3, <1>1, <1>2, <1>3
    <3>2. (i + 1) - Len(s) = i - (Len(s) - 1)
      BY <1>1
    <3> QED BY <2>1, <3>1, <3>2
  <2> QED BY <2>2, <2>3
<1>9. Tail(c) = d
  BY <1>3, <1>5, <1>7, <1>8, SeqEqual
<1> QED BY <1>1, <1>4, <1>5, <1>6, <1>9 DEF c, d

-----------------------------------------------------------------------------
\* What the queue holds, as the serial queue sees it.
Pending == acts \o Pushed(strand)

\* An exe_next() that run() or a callback dispatches leaves what is pending
\* alone.
LEMMA PendingAppendExec ==
  ASSUME IInv, ~ExecPending, strand' = Append(strand, ExeNext), acts' = acts
  PROVE  Pending' = Pending
<1>1. Pushed(Append(strand, ExeNext)) = Pushed(strand)
  BY PushedAppendExec DEF IInv, TypeInv, TokenInv, ExecPending
<1>2. Pending' = acts' \o Pushed(strand')
  BY DEF Pending, Pushed, Elements
<1> QED BY <1>1, <1>2 DEF Pending

\* push() adds its function at the end of what is pending.
LEMMA PushRefines ==
  ASSUME IInv, NEW a \in Acts, Push(a)
  PROVE  Serial!Enqueue
<1> DEFINE S == Acts \cup {ExeNext}
<1>1. /\ acts \in Seq(S)
      /\ strand \in Seq(S)
      /\ Injective(strand)
      /\ a \in S
      /\ a # ExeNext
      /\ a \notin Elements(strand)
  BY SeqMonotonic, ExeNextAssumption DEF IInv, TypeInv, TokenInv, Push, Held
<1>2. Pushed(strand) \in Seq(S)
  BY <1>1, PushedInSeq
<1>3. /\ strand' = Append(strand, a)
      /\ acts' = acts
      /\ open' = open
  BY DEF Push
<1>4. Pushed(Append(strand, a)) = Append(Pushed(strand), a)
  BY <1>1, PushedAppend
<1>5. Append(Pushed(strand), a) = Pushed(strand) \o <<a>>
  BY <1>1, <1>2, AppendIsConcat
<1>6. (acts \o Pushed(strand)) \o <<a>> = acts \o (Pushed(strand) \o <<a>>)
  <2>1. <<a>> \in Seq(S)
    BY <1>1
  <2> QED BY <2>1, <1>1, <1>2, ConcatAssociative
<1>7. Append(acts \o Pushed(strand), a) = (acts \o Pushed(strand)) \o <<a>>
  <2>1. acts \o Pushed(strand) \in Seq(S)
    BY <1>1, <1>2, ConcatProperties
  <2> QED BY <2>1, <1>1, AppendIsConcat
<1>8. acts' \o Pushed(strand') = Append(acts \o Pushed(strand), a)
  BY <1>3, <1>4, <1>5, <1>6, <1>7
<1>9. Pending' = Append(Pending, a)
  BY <1>8 DEF Pending, Pushed, Elements
<1> QED BY <1>3, <1>9 DEF Serial!Enqueue, Pending

\* run() on an idle queue changes nothing that is pending.
LEMMA RunIdleRefines ==
  ASSUME IInv, RunIdle
  PROVE  UNCHANGED Serial!vars
<1>1. /\ ~ExecPending
      /\ strand' = Append(strand, ExeNext)
      /\ UNCHANGED <<acts, open>>
  BY DEF IInv, TokenInv, RunIdle, Run
<1>2. Pending' = Pending
  BY <1>1, PendingAppendExec
<1> QED BY <1>1, <1>2 DEF Serial!vars, Pending

\* A callback is the serial queue's Callback, whether or not it also sends
\* for the next action.
LEMMA DoneRefines ==
  ASSUME IInv, NEW a \in Acts, Done(a)
  PROVE  Serial!Callback
<1>1. /\ a \in open
      /\ open' = open \ {a}
      /\ acts' = acts
  BY DEF Done
<1>2. open' = {} /\ ~ExecPending
  BY <1>1 DEF IInv, TokenInv, OneAtATime
<1>3. CASE strand' = Append(strand, ExeNext)
  <2>1. Pending' = Pending
    BY <1>1, <1>2, <1>3, PendingAppendExec
  <2> QED BY <1>1, <1>2, <2>1 DEF Serial!Callback, Pending
<1>4. CASE UNCHANGED strand
  <2>1. Pending' = Pending
    BY <1>1, <1>4 DEF Pending, Pushed, Elements
  <2> QED BY <1>1, <1>2, <2>1 DEF Serial!Callback, Pending
<1> QED BY <1>3, <1>4 DEF Done

\* A pushed function that finds the token out moves from the head of the
\* strand to the end of m_acts, which is the same place in what is pending;
\* on an idle queue it is the oldest pending function, and is executed.
LEMMA StrandPushRefines ==
  ASSUME IInv, StrandPush
  PROVE  UNCHANGED Serial!vars \/ Serial!Execute
<1> DEFINE S == Acts \cup {ExeNext}
           a == Head(strand)
           p == Pushed(Tail(strand))
<1>1. /\ strand \in Seq(S)
      /\ acts \in Seq(S)
      /\ Injective(strand)
      /\ strand # <<>>
      /\ a # ExeNext
      /\ strand' = Tail(strand)
  BY SeqMonotonic DEF IInv, TypeInv, TokenInv, StrandPush
<1>2. /\ p \in Seq(S)
      /\ Pushed(strand) = <<a>> \o p
  BY <1>1, PushedTail
<1>3. a \in S
  BY <1>1, HeadTailProperties
<1>4. Pending' = acts' \o p
  BY <1>1 DEF Pending, Pushed, Elements
<1> HIDE DEF S, a, p
<1>5. <<a>> \in Seq(S)
  BY <1>3
<1>6. CASE acts' = Append(acts, a) /\ UNCHANGED open
  <2>1. Append(acts, a) = acts \o <<a>>
    BY <1>1, <1>3, AppendIsConcat
  <2>2. (acts \o <<a>>) \o p = acts \o (<<a>> \o p)
    BY <1>1, <1>2, <1>5, ConcatAssociative
  <2>3. Pending' = Pending
    BY <1>2, <1>4, <1>6, <2>1, <2>2 DEF Pending
  <2> QED BY <1>6, <2>3 DEF Serial!vars, Pending
<1>7. CASE ~busy /\ PopAndInvoke(Append(acts, a))
  <2>1. acts = <<>> /\ open = {}
    BY <1>7 DEF IInv, TokenInv
  <2>2. Head(<<a>>) = a /\ Tail(<<a>>) = <<>> /\ Append(acts, a) = <<a>>
    BY <2>1
  <2>3. open' = {a} /\ acts' = <<>>
    BY <1>7, <2>1, <2>2 DEF PopAndInvoke
  <2>4. <<>> \o p = p /\ <<>> \o (<<a>> \o p) = <<a>> \o p
    <3>1. <<a>> \o p \in Seq(S)
      BY <1>2, <1>5, ConcatProperties
    <3> QED BY <3>1, <1>2, ConcatEmptySeq
  <2>5. Pending = <<a>> \o p /\ Pending' = p
    BY <1>2, <1>4, <2>1, <2>3, <2>4 DEF Pending
  <2>6. /\ <<a>> \o p # <<>>
        /\ Head(<<a>> \o p) = a
        /\ Tail(<<a>> \o p) = p
    BY <1>2, <1>5, <2>2, <2>4, HeadTailConcat
  <2>7. /\ Pending # <<>>
        /\ Head(Pending) = a
        /\ Pending' = Tail(Pending)
    BY <2>5, <2>6
  <2> QED BY <2>1, <2>3, <2>7 DEF Serial!Execute, Pending
<1> QED BY <1>6, <1>7 DEF StrandPush, a

\* exe_next() executes the oldest stored function, or finds none and leaves
\* everything as it is but the token.
LEMMA StrandExecRefines ==
  ASSUME IInv, StrandExec
  PROVE  UNCHANGED Serial!vars \/ Serial!Execute
<1> DEFINE S == Acts \cup {ExeNext}
<1>1. /\ strand \in Seq(S)
      /\ acts \in Seq(S)
      /\ Injective(strand)
      /\ strand # <<>>
      /\ Head(strand) = ExeNext
      /\ strand' = Tail(strand)
  BY SeqMonotonic DEF IInv, TypeInv, TokenInv, StrandExec
<1>2. ExecPending
  BY <1>1, TailLemma DEF ExecPending
<1>3. open = {}
  BY <1>2 DEF IInv, TokenInv
<1>4. Pushed(Tail(strand)) = Pushed(strand) /\ Pushed(strand) \in Seq(S)
  BY <1>1, PushedTailExec, PushedInSeq
<1>5. Pending' = acts' \o Pushed(strand)
  BY <1>1, <1>4 DEF Pending, Pushed, Elements
<1>6. CASE acts # <<>> /\ PopAndInvoke(acts)
  <2>1. open' = {Head(acts)} /\ acts' = Tail(acts)
    BY <1>3, <1>6 DEF PopAndInvoke
  <2>2. /\ Pending # <<>>
        /\ Head(Pending) = Head(acts)
        /\ Tail(Pending) = Tail(acts) \o Pushed(strand)
    BY <1>1, <1>4, <1>6, HeadTailConcat DEF Pending
  <2> QED BY <1>3, <1>5, <2>1, <2>2 DEF Serial!Execute, Pending
<1>7. CASE UNCHANGED <<acts, open>>
  <2>1. Pending' = Pending
    BY <1>5, <1>7 DEF Pending
  <2> QED BY <1>7, <2>1 DEF Serial!vars, Pending
<1> QED BY <1>6, <1>7 DEF StrandExec

-----------------------------------------------------------------------------
LEMMA InitRefines == Init => Serial!Init
<1> SUFFICES ASSUME Init PROVE Serial!Init
  OBVIOUS
<1>1. acts = <<>> /\ strand = <<>> /\ open = {}
  BY DEF Init
<1>2. Elements(<<>>) = {}
  BY DEF Elements
<1>3. Pushed(strand) = <<>>
  BY <1>1, <1>2, PushedAbsent
<1>4. <<>> \o <<>> = <<>>
  OBVIOUS
<1> QED BY <1>1, <1>3, <1>4 DEF Serial!Init

LEMMA NextRefines == IInv /\ [Next]_vars => [Serial!Next]_(Serial!vars)
<1> SUFFICES ASSUME IInv, [Next]_vars PROVE Serial!Next \/ UNCHANGED Serial!vars
  OBVIOUS
<1>1. ASSUME NEW a \in Acts, Push(a) PROVE Serial!Next
  BY <1>1, PushRefines DEF Serial!Next
<1>2. ASSUME NEW a \in Acts, Done(a) PROVE Serial!Next
  BY <1>2, DoneRefines DEF Serial!Next
<1>3. CASE StrandPush
  BY <1>3, StrandPushRefines DEF Serial!Next
<1>4. CASE StrandExec
  BY <1>4, StrandExecRefines DEF Serial!Next
<1>5. CASE RunIdle
  BY <1>5, RunIdleRefines
<1>6. CASE UNCHANGED vars
  <2>1. UNCHANGED <<acts, strand, open>>
    BY <1>6 DEF vars
  <2> QED BY <2>1 DEF Serial!vars, Pushed, Elements
<1> QED BY <1>1, <1>2, <1>3, <1>4, <1>5, <1>6 DEF Next, QueueNext, StrandStep

\* The safety half of ImplementsSerialQueue: what push(), run(), exe_next()
\* and the callbacks do to m_acts and the strand is what a serial queue does,
\* so functions are executed in the order in which they were pushed, each
\* after the callback of the one before it (action_queue.hpp:14).
THEOREM Refinement == Spec => Serial!Init /\ [][Serial!Next]_(Serial!vars)
<1>1. Init => Serial!Init
  BY InitRefines
<1>2. IInv /\ [Next]_vars => [Serial!Next]_(Serial!vars)
  BY NextRefines
<1> QED BY <1>1, <1>2, Invariance, PTL DEF Spec
=============================================================================
