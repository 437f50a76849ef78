------------------------- MODULE WsConnectionProofs -------------------------
(***************************************************************************)
(* Proofs about WsConnection.tla for any number of calls.  For users who   *)
(* wait until they are told that the stream is open, the invariant of      *)
(* ActionQueueProofs.tla holds of both queues from that moment; before     *)
(* that the queues hold nothing but what go_active() dispatched, and no    *)
(* call was made.  Of a server whose handler calls earlier (early), only   *)
(* the types are known, and who may reopen it.                             *)
(***************************************************************************)
EXTENDS WsConnection, FiniteSetTheorems, SequenceTheorems, TLAPS

WQP == INSTANCE ActionQueueProofs WITH
         Acts <- Sends \cup Closers,
         strand <- wstrand, acts <- wacts, busy <- wbusy,
         running <- wrunning, open <- wopen
RQP == INSTANCE ActionQueueProofs WITH
         Acts <- Reads \cup Closers,
         strand <- rstrand, acts <- racts, busy <- rbusy,
         running <- rrunning, open <- ropen

-----------------------------------------------------------------------------
(* The two queues, as ActionQueueProofs.tla knows them.                    *)

\* exe_next() is no call: the assumption of the queues' theorems.
LEMMA NotACall == ExeNext \notin Sends \cup Closers /\ ExeNext \notin Reads \cup Closers
  BY CallsAssumption

\* A queue that was never used, and one that go_active() then starts.
LEMMA WriteQueueInit == WQ!Init => WQP!IInv /\ WQP!Held = {}
<1>1. WQ!Init <=> WQP!Init
  BY DEF WQ!Init, WQP!Init
<1>2. WQP!Init => WQP!IInv
  BY NotACall, WQP!InitIInv
<1> QED BY <1>1, <1>2 DEF WQP!Init, WQP!Held, WQP!Elements

LEMMA WriteQueueRun ==
  ASSUME WQ!Init, WQ!Run
  PROVE  WQP!IInv' /\ WQP!Held' \subseteq {ExeNext}
<1>1. WQP!RunIdle
  BY DEF WQ!Init, WQ!Run, WQP!RunIdle, WQP!Run
<1>2. WQP!IInv'
  BY <1>1, NotACall, WriteQueueInit, WQP!RunIdleIInv
<1>3. wstrand' = <<ExeNext>> /\ wacts' = <<>> /\ wopen' = {}
  BY DEF WQ!Init, WQ!Run
<1> QED BY <1>2, <1>3 DEF WQP!Held, WQP!Elements

LEMMA WriteQueuePush ==
  ASSUME WQP!IInv, NEW c \in Sends \cup Closers, WQ!Push(c)
  PROVE  WQP!IInv' /\ WQP!Held' = WQP!Held \cup {c} /\ wopen' = wopen
<1>1. WQP!Push(c)
  BY DEF WQ!Push, WQP!Push, WQ!Held, WQP!Held, WQ!Elements, WQP!Elements
<1> QED BY <1>1, NotACall, WQP!PushIInv, WQP!PushHolds

LEMMA WriteQueueStrand ==
  ASSUME WQP!IInv, WQ!StrandStep
  PROVE  WQP!IInv' /\ WQP!Held' \subseteq WQP!Held /\ wopen' \subseteq WQP!Held
<1>1. WQP!StrandStep
  BY DEF WQ!StrandStep, WQP!StrandStep, WQ!StrandPush, WQP!StrandPush, WQ!StrandExec, WQP!StrandExec,
         WQ!PopAndInvoke, WQP!PopAndInvoke
<1>2. WQP!IInv'
  BY <1>1, NotACall, WQP!StrandPushIInv, WQP!StrandExecIInv DEF WQP!StrandStep
<1> QED BY <1>1, <1>2, NotACall, WQP!StrandHolds

LEMMA WriteQueueDone ==
  ASSUME WQP!IInv, NEW c \in Sends \cup Closers, WQ!Done(c)
  PROVE  WQP!IInv' /\ WQP!Held' \subseteq (WQP!Held \ {c}) \cup {ExeNext} /\ wopen' = wopen \ {c}
<1>1. WQP!Done(c)
  BY DEF WQ!Done, WQP!Done
<1> QED BY <1>1, NotACall, WQP!DoneIInv, WQP!DoneHolds

\* A step that leaves the queue alone.
LEMMA WriteQueueSame ==
  ASSUME UNCHANGED wvars
  PROVE  /\ WQP!IInv => WQP!IInv'
         /\ WQP!Held' = WQP!Held
         /\ WQ!Init => WQ!Init'
<1>1. WQP!IInv => WQP!IInv'
  BY DEF wvars, WQP!IInv, WQP!TypeInv, WQP!TokenInv, WQP!OneAtATime, WQP!ExecPending, WQP!Elements, WQP!Injective
<1> QED BY <1>1 DEF wvars, WQP!Held, WQP!Elements, WQ!Init

\* The same of the read queue.
LEMMA ReadQueueInit == RQ!Init => RQP!IInv /\ RQP!Held = {}
<1>1. RQ!Init <=> RQP!Init
  BY DEF RQ!Init, RQP!Init
<1>2. RQP!Init => RQP!IInv
  BY NotACall, RQP!InitIInv
<1> QED BY <1>1, <1>2 DEF RQP!Init, RQP!Held, RQP!Elements

LEMMA ReadQueueRun ==
  ASSUME RQ!Init, RQ!Run
  PROVE  RQP!IInv' /\ RQP!Held' \subseteq {ExeNext}
<1>1. RQP!RunIdle
  BY DEF RQ!Init, RQ!Run, RQP!RunIdle, RQP!Run
<1>2. RQP!IInv'
  BY <1>1, NotACall, ReadQueueInit, RQP!RunIdleIInv
<1>3. rstrand' = <<ExeNext>> /\ racts' = <<>> /\ ropen' = {}
  BY DEF RQ!Init, RQ!Run
<1> QED BY <1>2, <1>3 DEF RQP!Held, RQP!Elements

LEMMA ReadQueuePush ==
  ASSUME RQP!IInv, NEW c \in Reads \cup Closers, RQ!Push(c)
  PROVE  RQP!IInv' /\ RQP!Held' = RQP!Held \cup {c} /\ ropen' = ropen
<1>1. RQP!Push(c)
  BY DEF RQ!Push, RQP!Push, RQ!Held, RQP!Held, RQ!Elements, RQP!Elements
<1> QED BY <1>1, NotACall, RQP!PushIInv, RQP!PushHolds

LEMMA ReadQueueStrand ==
  ASSUME RQP!IInv, RQ!StrandStep
  PROVE  RQP!IInv' /\ RQP!Held' \subseteq RQP!Held /\ ropen' \subseteq RQP!Held
<1>1. RQP!StrandStep
  BY DEF RQ!StrandStep, RQP!StrandStep, RQ!StrandPush, RQP!StrandPush, RQ!StrandExec, RQP!StrandExec,
         RQ!PopAndInvoke, RQP!PopAndInvoke
<1>2. RQP!IInv'
  BY <1>1, NotACall, RQP!StrandPushIInv, RQP!StrandExecIInv DEF RQP!StrandStep
<1> QED BY <1>1, <1>2, NotACall, RQP!StrandHolds

LEMMA ReadQueueDone ==
  ASSUME RQP!IInv, NEW c \in Reads \cup Closers, RQ!Done(c)
  PROVE  RQP!IInv' /\ RQP!Held' \subseteq (RQP!Held \ {c}) \cup {ExeNext} /\ ropen' = ropen \ {c}
<1>1. RQP!Done(c)
  BY DEF RQ!Done, RQP!Done
<1> QED BY <1>1, NotACall, RQP!DoneIInv, RQP!DoneHolds

LEMMA ReadQueueSame ==
  ASSUME UNCHANGED rvars
  PROVE  /\ RQP!IInv => RQP!IInv'
         /\ RQP!Held' = RQP!Held
         /\ RQ!Init => RQ!Init'
<1>1. RQP!IInv => RQP!IInv'
  BY DEF rvars, RQP!IInv, RQP!TypeInv, RQP!TokenInv, RQP!OneAtATime, RQP!ExecPending, RQP!Elements, RQP!Injective
<1> QED BY <1>1 DEF rvars, RQP!Held, RQP!Elements, RQ!Init


-----------------------------------------------------------------------------
(* The inductive invariant.                                                *)

\* A queue that holds nothing but what go_active() dispatched.
IdleWrite == wacts = <<>> /\ wopen = {} /\ wstrand \in Seq({ExeNext})
IdleRead == racts = <<>> /\ ropen = {} /\ rstrand \in Seq({ExeNext})

Types ==
  /\ mstate \in {"inactive", "handshaking", "active", "closing", "closed"}
  /\ handshake \in {"none", "accept", "connect", "tls", "ws", "ws_without_tls", "over"}
  /\ handshake \in {"connect", "tls", "ws", "ws_without_tls"} => IsClient
  /\ announced \in 0..2
  /\ handshake \in {"none", "accept", "connect", "tls", "ws"} => announced = 0
  /\ handshake = "ws_without_tls" => announced = 1
  /\ handed \in BOOLEAN
  /\ call \in [Calls -> CallState]
  /\ early \in BOOLEAN /\ (early => ~IsClient)
  /\ closeOps \subseteq closers /\ closers \subseteq CloseId
  /\ writing \subseteq Sends \cup CloseId
  /\ stream \in {"down", "open", "lost", "shut"}
  /\ deaf \in BOOLEAN

\* Until the last handshake ends nobody was told anything, but for the one who
\* is told of a failed TLS handshake, and the queues were not started.
Shaking ==
  /\ handshake \in {"none", "accept", "connect", "tls", "ws"} =>
       ~handed /\ WQ!Init /\ RQ!Init
  /\ handshake = "ws_without_tls" => ~handed

\* Until the user has the connection it is not used and does not end.
Untouched ==
  ~handed => /\ \A c \in Calls : call[c] = "ready"
             /\ IdleWrite /\ IdleRead
             /\ closers = {}
             /\ mstate \notin Ended

\* From then on both queues keep their promises, and what they hold are calls
\* that were queued and not answered.
Used ==
  handed => /\ handshake = "over"
            /\ mstate \in {"active"} \cup Ended
            /\ stream # "down"
            /\ WQP!IInv /\ RQP!IInv
            /\ \A c \in (WQP!Held \cup RQP!Held) \ (Closers \cup {ExeNext}) : call[c] = "queued"

\* A close was started in an ending connection only, and on the strand once.
Closing ==
  /\ closers # {} => mstate \in Ended
  /\ ~OffStrand => \A x, y \in closers : x = y

\* All of it of users who wait until they are told; of the others, the types.
Patient == Shaking /\ Untouched /\ Used /\ Closing

IInv == Types /\ (~early => Patient)

-----------------------------------------------------------------------------
LEMMA IdleWriteLemma ==
  /\ WQ!Init => IdleWrite
  /\ IdleWrite /\ (WQ!StrandStep \/ WQ!Run \/ UNCHANGED wvars) => IdleWrite'
<1>1. WQ!Init => IdleWrite
  BY DEF WQ!Init, IdleWrite
<1>2. ASSUME IdleWrite, WQ!StrandStep PROVE IdleWrite'
  <2>1. wstrand \in Seq({ExeNext}) /\ wstrand # <<>> /\ wstrand' = Tail(wstrand)
    BY <1>2 DEF IdleWrite, WQ!StrandStep, WQ!StrandPush, WQ!StrandExec
  <2>2. Head(wstrand) = ExeNext /\ wstrand' \in Seq({ExeNext})
    BY <2>1, HeadTailProperties
  <2> QED BY <1>2, <2>2 DEF IdleWrite, WQ!StrandStep, WQ!StrandPush, WQ!StrandExec
<1>3. ASSUME IdleWrite, WQ!Run PROVE IdleWrite'
  <2>1. Append(wstrand, ExeNext) \in Seq({ExeNext})
    BY <1>3, AppendProperties DEF IdleWrite
  <2> QED BY <1>3, <2>1 DEF IdleWrite, WQ!Run
<1> QED BY <1>1, <1>2, <1>3 DEF IdleWrite, wvars

LEMMA IdleReadLemma ==
  /\ RQ!Init => IdleRead
  /\ IdleRead /\ (RQ!StrandStep \/ RQ!Run \/ UNCHANGED rvars) => IdleRead'
<1>1. RQ!Init => IdleRead
  BY DEF RQ!Init, IdleRead
<1>2. ASSUME IdleRead, RQ!StrandStep PROVE IdleRead'
  <2>1. rstrand \in Seq({ExeNext}) /\ rstrand # <<>> /\ rstrand' = Tail(rstrand)
    BY <1>2 DEF IdleRead, RQ!StrandStep, RQ!StrandPush, RQ!StrandExec
  <2>2. Head(rstrand) = ExeNext /\ rstrand' \in Seq({ExeNext})
    BY <2>1, HeadTailProperties
  <2> QED BY <1>2, <2>2 DEF IdleRead, RQ!StrandStep, RQ!StrandPush, RQ!StrandExec
<1>3. ASSUME IdleRead, RQ!Run PROVE IdleRead'
  <2>1. Append(rstrand, ExeNext) \in Seq({ExeNext})
    BY <1>3, AppendProperties DEF IdleRead
  <2> QED BY <1>3, <2>1 DEF IdleRead, RQ!Run
<1> QED BY <1>1, <1>2, <1>3 DEF IdleRead, rvars

LEMMA InitInv == Init => IInv
<1> SUFFICES ASSUME Init PROVE IInv
  OBVIOUS
<1>1. WQ!Init /\ RQ!Init /\ IdleWrite /\ IdleRead
  BY IdleWriteLemma, IdleReadLemma DEF Init
<1>2. Types
  <2>1. call \in [Calls -> CallState]
    BY DEF Init, CallState
  <2>2. handed \in BOOLEAN /\ early = FALSE /\ deaf \in BOOLEAN
    BY DEF Init
  <2>3. announced \in 0..2 /\ announced = 0
    BY DEF Init
  <2> QED BY <2>1, <2>2, <2>3 DEF Init, Types
<1>3. Shaking /\ Untouched /\ Used /\ Closing
  BY <1>1 DEF Init, Shaking, Untouched, Used, Closing, Ended
<1> QED BY <1>2, <1>3 DEF IInv, Patient

\* Who holds a place in a queue is one of its calls.
LEMMA HeldAreCalls ==
  /\ WQP!IInv => /\ wopen \subseteq Sends \cup Closers
                 /\ wopen \subseteq WQP!Held
                 /\ WQP!Held \subseteq Sends \cup Closers \cup {ExeNext}
  /\ RQP!IInv => /\ ropen \subseteq Reads \cup Closers
                 /\ ropen \subseteq RQP!Held
                 /\ RQP!Held \subseteq Reads \cup Closers \cup {ExeNext}
  BY DEF WQP!IInv, WQP!TypeInv, WQP!Held, WQP!Elements, RQP!IInv, RQP!TypeInv, RQP!Held, RQP!Elements

\* accept(), connect() and on_connect() touch neither queues nor calls.
LEMMA BeginInv ==
  ASSUME Types, Patient, Types', Accept \/ Connect \/ OnConnect
  PROVE  Patient'
<1>1. UNCHANGED <<handed, call, closevars, stream, wvars, rvars>>
  BY DEF Accept, Connect, OnConnect, callvars, netvars
<1>2. ~handed /\ WQ!Init /\ RQ!Init /\ mstate' \notin Ended
  <2>1. ~handed /\ WQ!Init /\ RQ!Init
    BY DEF Patient, Shaking, Accept, Connect, OnConnect
  <2>2. mstate' \notin Ended
    BY <2>1 DEF Patient, Untouched, Accept, Connect, OnConnect, Ended
  <2> QED BY <2>1, <2>2
<1>3. Shaking'
  <2>1. WQ!Init' /\ RQ!Init'
    BY <1>1, <1>2, WriteQueueSame, ReadQueueSame
  <2> QED BY <1>1, <1>2, <2>1 DEF Shaking, Accept, Connect, OnConnect
<1>4. Untouched' /\ Used'
  <2>1. IdleWrite' /\ IdleRead'
    BY <1>1, <1>2, IdleWriteLemma, IdleReadLemma
  <2> QED BY <1>1, <1>2, <2>1 DEF Patient, Untouched, Used, closevars
<1>5. Closing'
  BY <1>1, <1>2 DEF Patient, Untouched, Closing, closevars
<1> QED BY <1>3, <1>4, <1>5 DEF Patient

\* The user gets the connection: go_active() starts queues that were never used.
LEMMA HandOver ==
  ASSUME Types, Patient, Types', WQ!Init, RQ!Init, GoActive, ~handed, handed', UNCHANGED <<call, closevars>>,
         handshake' = "over", stream' = "open"
  PROVE  Patient'
<1>1. /\ WQP!IInv' /\ WQP!Held' \subseteq {ExeNext}
      /\ RQP!IInv' /\ RQP!Held' \subseteq {ExeNext}
  BY WriteQueueRun, ReadQueueRun DEF GoActive
<1>2. closers = {}
  BY DEF Patient, Untouched
<1>3. Shaking' /\ Untouched'
  BY DEF Patient, Shaking, Untouched, GoActive
<1>4. Used'
  BY <1>1 DEF Used, GoActive
<1>5. Closing'
  BY <1>2 DEF Patient, Closing, closevars
<1> QED BY <1>3, <1>4, <1>5 DEF Patient

\* The user does not get the connection: the queues may be started, but nobody
\* has a call in them.
LEMMA KeptBack ==
  ASSUME Types, Patient, Types', ~handed, handed' = FALSE, UNCHANGED <<call, closevars, stream>>,
         GoActive \/ UNCHANGED <<mstate, wvars, rvars>>,
         \/ handshake' \in {"over", "ws_without_tls"}
         \/ handshake' = "ws" /\ WQ!Init /\ RQ!Init /\ UNCHANGED <<wvars, rvars>>
  PROVE  Patient'
<1>1. IdleWrite' /\ IdleRead'
  BY IdleWriteLemma, IdleReadLemma DEF Patient, Untouched, GoActive
<1>2. mstate' \notin Ended
  BY DEF Patient, Untouched, GoActive, Ended
<1>3. Shaking'
  BY WriteQueueSame, ReadQueueSame DEF Patient, Shaking
<1>4. Untouched' /\ Used'
  BY <1>1, <1>2 DEF Patient, Untouched, Used, closevars
<1>5. Closing'
  BY <1>2 DEF Patient, Untouched, Closing, closevars
<1> QED BY <1>3, <1>4, <1>5 DEF Patient

LEMMA OnAcceptInv ==
  ASSUME Types, Patient, Types', OnAccept
  PROVE  Patient'
<1>1. handed = FALSE /\ WQ!Init /\ RQ!Init /\ UNCHANGED <<call, closevars>>
  BY DEF Patient, Shaking, Types, OnAccept, callvars
<1>2. CASE GoActive /\ stream' = "open" /\ announced' = announced + 1 /\ handed' = TRUE
  BY <1>1, <1>2, HandOver DEF OnAccept
<1>3. CASE UNCHANGED <<mstate, stream, announced, handed, wvars, rvars>>
  <2>1. handed' = FALSE
    BY <1>1, <1>3
  <2> QED BY <1>1, <1>3, <2>1, KeptBack DEF OnAccept
<1> QED BY <1>2, <1>3 DEF OnAccept

LEMMA OnTlsHandshakeInv ==
  ASSUME Types, Patient, Types', OnTlsHandshake
  PROVE  Patient'
<1>1. handed = FALSE /\ WQ!Init /\ RQ!Init /\ UNCHANGED <<call, closevars, stream>>
  BY DEF Patient, Shaking, Types, OnTlsHandshake, callvars, netvars
<1>2. CASE handshake' = "ws" /\ UNCHANGED <<mstate, announced, handed, wvars, rvars>>
  BY <1>1, <1>2, KeptBack
<1>3. CASE handshake' = "ws_without_tls" /\ OnHandshake(FALSE)
  <2>1. handed' = FALSE /\ GoActive
    BY <1>1, <1>3 DEF OnHandshake
  <2> QED BY <1>1, <1>3, <2>1, KeptBack
<1> QED BY <1>2, <1>3 DEF OnTlsHandshake

LEMMA OnWsHandshakeInv ==
  ASSUME Types, Patient, Types', OnWsHandshake
  PROVE  Patient'
<1>1. PICK ok \in BOOLEAN : /\ ok => handshake = "ws"
                            /\ stream' = IF ok THEN "open" ELSE stream
                            /\ OnHandshake(ok)
  BY DEF OnWsHandshake
<1>2. /\ handed = FALSE /\ handed' = ok
      /\ GoActive
      /\ handshake' = "over" /\ UNCHANGED <<call, closevars>>
  <2>1. handed = FALSE
    BY DEF Patient, Types, Shaking, OnWsHandshake
  <2>2. handed' = ok
    BY <1>1, <2>1 DEF OnHandshake
  <2> QED BY <1>1, <2>1, <2>2 DEF OnWsHandshake, OnHandshake, callvars
<1>3. CASE ok
  <2>1. WQ!Init /\ RQ!Init
    BY <1>1, <1>3 DEF Patient, Shaking
  <2> QED BY <1>1, <1>2, <1>3, <2>1, HandOver
<1>4. CASE ~ok
  <2>1. handed' = FALSE /\ UNCHANGED stream
    BY <1>1, <1>2, <1>4
  <2> QED BY <1>2, <2>1, KeptBack
<1> QED BY <1>3, <1>4

-----------------------------------------------------------------------------
(* The steps of a connection that its user has.                            *)

Queued(held) == \A c \in held \ (Closers \cup {ExeNext}) : call[c] = "queued"

\* What is left to show of such a step.
LEMMA UsedInv ==
  ASSUME Types, Patient, Types', handed, UNCHANGED hsvars,
         mstate' \in {"active"} \cup Ended, stream' \in {"open", "lost", "shut"},
         call' \in [Calls -> CallState],
         WQP!IInv', RQP!IInv', Queued(WQP!Held)', Queued(RQP!Held)', Closing'
  PROVE  Patient'
<1>1. Shaking' /\ Untouched' /\ Used'
  BY DEF Patient, Shaking, Untouched, Used, hsvars, Queued
<1> QED BY <1>1 DEF Patient

\* What holds of it before.
LEMMA UsedBefore ==
  ASSUME Types, Patient, handed
  PROVE  /\ mstate \in {"active"} \cup Ended
         /\ stream \in {"open", "lost", "shut"}
         /\ call \in [Calls -> CallState]
         /\ WQP!IInv /\ RQP!IInv /\ Queued(WQP!Held) /\ Queued(RQP!Held)
         /\ UNCHANGED <<mstate, closers>> => Closing'
         /\ UNCHANGED wvars => WQP!IInv' /\ WQP!Held' = WQP!Held
         /\ UNCHANGED rvars => RQP!IInv' /\ RQP!Held' = RQP!Held
<1>1. UNCHANGED <<mstate, closers>> => Closing'
  BY DEF Patient, Closing
<1>2. /\ stream \in {"open", "lost", "shut"}
      /\ call \in [Calls -> CallState]
  BY DEF Patient, Types, Used
<1>3. /\ mstate \in {"active"} \cup Ended
      /\ WQP!IInv /\ RQP!IInv /\ Queued(WQP!Held) /\ Queued(RQP!Held)
  BY DEF Patient, Used, Queued
<1> QED BY <1>1, <1>2, <1>3, WriteQueueSame, ReadQueueSame

\* A call gets on, and no other does.
LEMMA AdvanceLemma ==
  ASSUME Types, Patient, NEW c \in Calls, NEW to \in CallState, call' = [call EXCEPT ![c] = to]
  PROVE  /\ call' \in [Calls -> CallState]
         /\ call'[c] = to
         /\ \A x \in Calls : x # c => call'[x] = call[x]
  BY DEF Patient, Types

\* What the queues hold stays queued if a call gets on that is none of theirs.
LEMMA QueuedSame ==
  ASSUME Types, Patient, handed, NEW c \in Calls, \A x \in Calls : x # c => call'[x] = call[x]
  PROVE  /\ c \notin WQP!Held' \ Closers /\ WQP!Held' \subseteq WQP!Held \cup Closers \cup {ExeNext} => Queued(WQP!Held)'
         /\ c \notin RQP!Held' \ Closers /\ RQP!Held' \subseteq RQP!Held \cup Closers \cup {ExeNext} => Queued(RQP!Held)'
<1>1. \A x \in (WQP!Held \cup RQP!Held) \ (Closers \cup {ExeNext}) : x \in Calls /\ call[x] = "queued"
  BY UsedBefore, HeldAreCalls DEF Queued, Calls
<1> QED BY <1>1 DEF Queued

\* A queue has no calls but its own.
LEMMA NotHeld ==
  ASSUME Types, Patient, handed
  PROVE  /\ \A c \in Reads \cup Forcers : c \notin WQP!Held
         /\ \A c \in Sends \cup Forcers : c \notin RQP!Held
  BY UsedBefore, HeldAreCalls, CallsAssumption

\* A call that has begun has a connection; and so has whatever a queue or the
\* stream is busy with.
LEMMA BusyIsHanded ==
  ASSUME Types, Patient
  PROVE  /\ \A c \in Calls : call[c] # "ready" => handed
         /\ wopen \cup ropen # {} => handed
         /\ closeOps # {} => handed
  BY DEF Types, Patient, Untouched, IdleWrite, IdleRead, Closing

LEMMA SendInv ==
  ASSUME Types, Patient, Types', ~early', NEW c \in Sends, Send(c)
  PROVE  Patient'
<1>1. handed /\ c \in Calls /\ call' = [call EXCEPT ![c] = "queued"] /\ WQ!Push(c)
      /\ UNCHANGED <<mstate, hsvars, closers, stream, rvars>>
  BY DEF Send, Advance, Calls, Types, closevars, netvars
<1>2. WQP!IInv' /\ WQP!Held' = WQP!Held \cup {c}
  BY <1>1, UsedBefore, WriteQueuePush
<1>3. RQP!IInv' /\ RQP!Held' = RQP!Held /\ c \notin RQP!Held
  BY <1>1, UsedBefore, NotHeld
<1>4. /\ call' \in [Calls -> CallState]
      /\ call'[c] = "queued"
      /\ \A x \in Calls : x # c => call'[x] = call[x]
  BY <1>1, AdvanceLemma DEF CallState
<1>5. Queued(WQP!Held)'
  <2>1. \A x \in WQP!Held \ (Closers \cup {ExeNext}) : x \in Calls /\ call[x] = "queued"
    BY <1>1, UsedBefore, HeldAreCalls DEF Queued, Calls
  <2> QED BY <1>2, <1>4, <2>1 DEF Queued
<1>6. Queued(RQP!Held)'
  BY <1>1, <1>3, <1>4, QueuedSame
<1> QED BY <1>1, <1>2, <1>3, <1>4, <1>5, <1>6, UsedBefore, UsedInv

LEMMA ReadInv ==
  ASSUME Types, Patient, Types', ~early', NEW c \in Reads, Read(c)
  PROVE  Patient'
<1>1. handed /\ c \in Calls /\ call' = [call EXCEPT ![c] = "queued"] /\ RQ!Push(c)
      /\ UNCHANGED <<mstate, hsvars, closers, stream, wvars>>
  BY DEF Read, Advance, Calls, Types, closevars, netvars
<1>2. RQP!IInv' /\ RQP!Held' = RQP!Held \cup {c}
  BY <1>1, UsedBefore, ReadQueuePush
<1>3. WQP!IInv' /\ WQP!Held' = WQP!Held /\ c \notin WQP!Held
  BY <1>1, UsedBefore, NotHeld
<1>4. /\ call' \in [Calls -> CallState]
      /\ call'[c] = "queued"
      /\ \A x \in Calls : x # c => call'[x] = call[x]
  BY <1>1, AdvanceLemma DEF CallState
<1>5. Queued(RQP!Held)'
  <2>1. \A x \in RQP!Held \ (Closers \cup {ExeNext}) : x \in Calls /\ call[x] = "queued"
    BY <1>1, UsedBefore, HeldAreCalls DEF Queued, Calls
  <2> QED BY <1>2, <1>4, <2>1 DEF Queued
<1>6. Queued(WQP!Held)'
  BY <1>1, <1>3, <1>4, QueuedSame
<1> QED BY <1>1, <1>2, <1>3, <1>4, <1>5, <1>6, UsedBefore, UsedInv

\* disconnect() gets on; its functions are in no call's way.
LEMMA DisconnectInv ==
  ASSUME Types, Patient, Types', ~early', NEW c \in Closers, DisconnectTest(c) \/ DisconnectPushWrite(c) \/ DisconnectPushRead(c)
  PROVE  Patient'
<1>1. PICK to \in CallState : call' = [call EXCEPT ![c] = to]
  BY DEF DisconnectTest, DisconnectPushWrite, DisconnectPushRead, Advance, CallState
<1>2. c \in Calls /\ handed /\ UNCHANGED <<mstate, hsvars, closers, stream>>
  BY BusyIsHanded DEF DisconnectTest, DisconnectPushWrite, DisconnectPushRead, Advance, Calls, Types, closevars, netvars
<1>3. WQP!IInv' /\ WQP!Held' \subseteq WQP!Held \cup {c}
  BY <1>2, UsedBefore, WriteQueuePush DEF DisconnectTest, DisconnectPushWrite, DisconnectPushRead
<1>4. RQP!IInv' /\ RQP!Held' \subseteq RQP!Held \cup {c}
  BY <1>2, UsedBefore, ReadQueuePush DEF DisconnectTest, DisconnectPushWrite, DisconnectPushRead
<1>5. /\ call' \in [Calls -> CallState]
      /\ \A x \in Calls : x # c => call'[x] = call[x]
  BY <1>1, <1>2, AdvanceLemma
<1>6. Queued(WQP!Held)' /\ Queued(RQP!Held)'
  BY <1>2, <1>3, <1>4, <1>5, QueuedSame
<1> QED BY <1>2, <1>3, <1>4, <1>5, <1>6, UsedBefore, UsedInv

\* A close of a connection that was not ending is the first one.
LEMMA DoDisconnectClosing ==
  ASSUME Types, Patient, NEW id \in CloseId, DoDisconnect(id), OffStrand \/ mstate \notin Ended
  PROVE  Closing' /\ mstate' \in Ended
  BY DEF Patient, Closing, DoDisconnect, Ended

LEMMA ForceInv ==
  ASSUME Types, Patient, Types', ~early', NEW c \in Forcers, ForceOnStrand(c) \/ ForceTest(c) \/ ForceAct(c)
  PROVE  Patient'
<1>1. PICK to \in CallState : call' = [call EXCEPT ![c] = to]
  BY DEF ForceOnStrand, ForceTest, ForceAct, Advance, CallState
<1>2. c \in Calls /\ handed /\ UNCHANGED <<hsvars, stream, wvars, rvars>>
  BY BusyIsHanded DEF ForceOnStrand, ForceTest, ForceAct, Advance, Calls, Types, netvars
<1>3. /\ WQP!IInv' /\ WQP!Held' = WQP!Held /\ c \notin WQP!Held
      /\ RQP!IInv' /\ RQP!Held' = RQP!Held /\ c \notin RQP!Held
  BY <1>2, UsedBefore, NotHeld
<1>4. /\ call' \in [Calls -> CallState]
      /\ \A x \in Calls : x # c => call'[x] = call[x]
  BY <1>1, <1>2, AdvanceLemma
<1>5. Queued(WQP!Held)' /\ Queued(RQP!Held)'
  BY <1>2, <1>3, <1>4, QueuedSame
<1>6. Closing' /\ mstate' \in {"active"} \cup Ended
  <2>1. CASE UNCHANGED <<mstate, closers>>
    BY <1>2, <2>1, UsedBefore
  <2>2. CASE DoDisconnect(<<"f", c>>) /\ (OffStrand \/ mstate \notin Ended)
    BY <2>2, DoDisconnectClosing DEF CloseId
  <2> QED BY <2>1, <2>2 DEF ForceOnStrand, ForceTest, ForceAct, closevars
<1> QED BY <1>2, <1>3, <1>4, <1>5, <1>6, UsedBefore, UsedInv

-----------------------------------------------------------------------------
(* The queues and the completions.                                         *)

\* An executed disconnect() closes if nobody was there before it.
LEMMA ExecuteLemma ==
  ASSUME Types, Patient, handed, NEW q \in {"w", "r"}, NEW executed, Execute(q, executed)
  PROVE  Closing' /\ mstate' \in {"active"} \cup Ended
<1>1. CASE UNCHANGED <<mstate, closers>>
  BY <1>1, UsedBefore
<1>2. CASE mstate \notin Ended /\ \E c \in Closers : DoDisconnect(<<q, c>>)
  BY <1>2, DoDisconnectClosing DEF CloseId
<1> QED BY <1>1, <1>2 DEF Execute

\* The strand may run exe_next() for a user who was refused, and finds nothing.
LEMMA IdleStep ==
  ASSUME Types, Patient, Types', ~handed, WriteQueueStep \/ ReadQueueStep
  PROVE  Patient'
<1>1. IdleWrite' /\ IdleRead'
  BY IdleWriteLemma, IdleReadLemma DEF Patient, Untouched, WriteQueueStep, ReadQueueStep
<1>2. UNCHANGED <<mstate, hsvars, call, closers, stream>>
  BY <1>1 DEF Patient, Untouched, IdleWrite, IdleRead, WriteQueueStep, ReadQueueStep, Execute, callvars, netvars
<1>3. handshake \in {"ws_without_tls", "over"}
  <2>1. WQ!Init => ~WriteQueueStep
    BY DEF WriteQueueStep, WQ!Init, WQ!StrandStep, WQ!StrandPush, WQ!StrandExec
  <2>2. RQ!Init => ~ReadQueueStep
    BY DEF ReadQueueStep, RQ!Init, RQ!StrandStep, RQ!StrandPush, RQ!StrandExec
  <2> QED BY <2>1, <2>2 DEF Patient, Types, Shaking
<1>4. Shaking' /\ Untouched' /\ Used' /\ Closing'
  BY <1>1, <1>2, <1>3 DEF Patient, Shaking, Untouched, Used, Closing, hsvars
<1> QED BY <1>4 DEF Patient

LEMMA QueueStepInv ==
  ASSUME Types, Patient, Types', handed, WriteQueueStep \/ ReadQueueStep
  PROVE  Patient'
<1>1. UNCHANGED <<hsvars, call, stream>>
  BY DEF WriteQueueStep, ReadQueueStep, callvars, netvars
<1>2. /\ WQP!IInv' /\ WQP!Held' \subseteq WQP!Held
      /\ RQP!IInv' /\ RQP!Held' \subseteq RQP!Held
  BY UsedBefore, WriteQueueStrand, ReadQueueStrand DEF WriteQueueStep, ReadQueueStep
<1>3. Queued(WQP!Held)' /\ Queued(RQP!Held)'
  BY <1>1, <1>2, UsedBefore DEF Queued
<1>4. Closing' /\ mstate' \in {"active"} \cup Ended
  BY ExecuteLemma DEF WriteQueueStep, ReadQueueStep
<1>5. call' \in [Calls -> CallState] /\ stream' \in {"open", "lost", "shut"}
  BY <1>1, UsedBefore
<1> QED BY <1>1, <1>2, <1>3, <1>4, <1>5, UsedInv

LEMMA BeatenInv ==
  ASSUME Types, Patient, Types', Beaten
  PROVE  Patient'
<1>1. handed /\ UNCHANGED <<mstate, hsvars, call, closers, stream>>
  BY BusyIsHanded DEF Beaten, BeatenWrite, BeatenRead, callvars, closevars, netvars
<1>2. /\ WQP!IInv' /\ WQP!Held' \subseteq WQP!Held \cup {ExeNext}
      /\ RQP!IInv' /\ RQP!Held' \subseteq RQP!Held \cup {ExeNext}
  BY <1>1, UsedBefore, WriteQueueDone, ReadQueueDone DEF Beaten, BeatenWrite, BeatenRead
<1>3. Queued(WQP!Held)' /\ Queued(RQP!Held)'
  BY <1>1, <1>2, UsedBefore DEF Queued
<1>4. call' \in [Calls -> CallState] /\ stream' \in {"open", "lost", "shut"} /\ Closing'
      /\ mstate' \in {"active"} \cup Ended
  BY <1>1, UsedBefore
<1> QED BY <1>1, <1>2, <1>3, <1>4, UsedInv

\* A write is answered and gone: its queue does not hold it any longer.
LEMMA OnWriteInv ==
  ASSUME Types, Patient, Types', NEW c \in Sends, OnWrite(c)
  PROVE  Patient'
<1>1. PICK to \in CallState : call' = [call EXCEPT ![c] = to]
  BY DEF OnWrite, CallState
<1>2. c \in Calls /\ handed /\ WQ!Done(c) /\ UNCHANGED <<mstate, hsvars, closers, stream, rvars>>
  BY BusyIsHanded DEF OnWrite, Calls, netvars
<1>3. WQP!IInv' /\ c \notin WQP!Held' /\ WQP!Held' \subseteq WQP!Held \cup {ExeNext}
  <2>1. WQP!IInv' /\ WQP!Held' \subseteq (WQP!Held \ {c}) \cup {ExeNext}
    BY <1>2, UsedBefore, WriteQueueDone
  <2> QED BY <2>1, CallsAssumption
<1>4. RQP!IInv' /\ RQP!Held' = RQP!Held /\ c \notin RQP!Held
  BY <1>2, UsedBefore, NotHeld
<1>5. /\ call' \in [Calls -> CallState]
      /\ \A x \in Calls : x # c => call'[x] = call[x]
  BY <1>1, <1>2, AdvanceLemma
<1>6. Queued(WQP!Held)' /\ Queued(RQP!Held)'
  BY <1>2, <1>3, <1>4, <1>5, QueuedSame
<1> QED BY <1>2, <1>3, <1>4, <1>5, <1>6, UsedBefore, UsedInv

LEMMA OnReadInv ==
  ASSUME Types, Patient, Types', NEW c \in Reads, OnReadMessage(c) \/ OnReadError(c)
  PROVE  Patient'
<1>1. PICK to \in CallState : call' = [call EXCEPT ![c] = to]
  BY DEF OnReadMessage, OnReadError, CallState
<1>2. c \in Calls /\ handed /\ RQ!Done(c) /\ UNCHANGED <<mstate, hsvars, closers, stream, wvars>>
  BY BusyIsHanded DEF OnReadMessage, OnReadError, Calls, closevars, netvars
<1>3. RQP!IInv' /\ c \notin RQP!Held' /\ RQP!Held' \subseteq RQP!Held \cup {ExeNext}
  <2>1. RQP!IInv' /\ RQP!Held' \subseteq (RQP!Held \ {c}) \cup {ExeNext}
    BY <1>2, UsedBefore, ReadQueueDone
  <2> QED BY <2>1, CallsAssumption
<1>4. WQP!IInv' /\ WQP!Held' = WQP!Held /\ c \notin WQP!Held
  BY <1>2, UsedBefore, NotHeld
<1>5. /\ call' \in [Calls -> CallState]
      /\ \A x \in Calls : x # c => call'[x] = call[x]
  BY <1>1, <1>2, AdvanceLemma
<1>6. Queued(WQP!Held)' /\ Queued(RQP!Held)'
  BY <1>2, <1>3, <1>4, <1>5, QueuedSame
<1> QED BY <1>2, <1>3, <1>4, <1>5, <1>6, UsedBefore, UsedInv

\* async_close completes: the queue that started it goes on, the state stays.
LEMMA OnCloseInv ==
  ASSUME Types, Patient, Types', NEW id \in CloseId, OnClose(id)
  PROVE  Patient'
<1>1. /\ handed /\ UNCHANGED <<hsvars, call, closers>>
      /\ closers # {}
      /\ mstate' \in {mstate, "closed"}
      /\ stream' \in {stream, "shut"}
  BY BusyIsHanded DEF OnClose, Types, callvars
<1>2. /\ id[1] = "w" => id[2] \in Closers
      /\ id[1] = "r" => id[2] \in Closers
  BY DEF CloseId
<1>3. /\ WQP!IInv' /\ WQP!Held' \subseteq WQP!Held \cup {ExeNext}
      /\ RQP!IInv' /\ RQP!Held' \subseteq RQP!Held \cup {ExeNext}
  BY <1>1, <1>2, UsedBefore, WriteQueueDone, ReadQueueDone DEF OnClose
<1>4. Queued(WQP!Held)' /\ Queued(RQP!Held)'
  BY <1>1, <1>3, UsedBefore DEF Queued
<1>5. Closing' /\ mstate' \in {"active"} \cup Ended
  BY <1>1 DEF Patient, Closing, Ended
<1>6. call' \in [Calls -> CallState] /\ stream' \in {"open", "lost", "shut"}
  BY <1>1, UsedBefore
<1> QED BY <1>1, <1>3, <1>4, <1>5, <1>6, UsedInv

\* The stream is lost, its peer stops reading, or nothing happens.
LEMMA NothingDoneInv ==
  ASSUME Types, Patient, Types', LoseStream \/ GoDeaf \/ UNCHANGED vars
  PROVE  Patient'
<1>1. UNCHANGED <<mstate, hsvars, call, closers, wvars, rvars>> /\ stream' \in {stream, "lost"}
  BY DEF LoseStream, GoDeaf, callvars, closevars, netvars, vars
<1>2. /\ WQP!IInv => WQP!IInv'
      /\ RQP!IInv => RQP!IInv'
      /\ WQP!Held' = WQP!Held /\ RQP!Held' = RQP!Held
      /\ WQ!Init => WQ!Init'
      /\ RQ!Init => RQ!Init'
      /\ IdleWrite => IdleWrite'
      /\ IdleRead => IdleRead'
  BY <1>1, WriteQueueSame, ReadQueueSame, IdleWriteLemma, IdleReadLemma
<1>3. Shaking'
  BY <1>1, <1>2 DEF Patient, Shaking, hsvars
<1>4. Untouched' /\ Used'
  BY <1>1, <1>2 DEF Patient, Untouched, Used, hsvars
<1>5. Closing'
  BY <1>1 DEF Patient, Closing
<1> QED BY <1>3, <1>4, <1>5 DEF Patient

-----------------------------------------------------------------------------
(* The types, which hold whoever calls and when.                           *)

\* What the write lock passes to is a send or a close.
LEMMA WritingTypes ==
  ASSUME Types
  PROVE  /\ \A ops \in SUBSET (Sends \cup CloseId) : StartWriting(ops) => writing' \subseteq Sends \cup CloseId
         /\ \A op, others : others \subseteq Sends \cup CloseId /\ StopWriting(op, others)
                             => writing' \subseteq Sends \cup CloseId
  BY DEF Types, StartWriting, StopWriting

\* A call gets on.
LEMMA AdvanceTypes ==
  ASSUME Types, NEW c \in Calls, NEW from, NEW to \in CallState, Advance(c, from, to),
         Usable \/ early \/ handed
  PROVE  call' \in [Calls -> CallState] /\ early' \in BOOLEAN /\ (early' => ~IsClient)
  BY DEF Types, Advance, Usable

LEMMA DoDisconnectTypes ==
  ASSUME Types, NEW id \in CloseId, DoDisconnect(id)
  PROVE  /\ closeOps' \subseteq closers' /\ closers' \subseteq CloseId
         /\ writing' \subseteq Sends \cup CloseId
         /\ mstate' = "closing"
  BY WritingTypes DEF Types, DoDisconnect

LEMMA OpeningTypes == Types /\ Opening => Types'
<1> SUFFICES ASSUME Types, Opening PROVE Types'
  OBVIOUS
<1>1. CASE Accept
  BY <1>1 DEF Types, Accept, callvars, closevars, netvars
<1>6. CASE Connect
  BY <1>6 DEF Types, Connect, callvars, closevars, netvars
<1>2. CASE OnAccept
  <2>1. UNCHANGED <<callvars, closevars, deaf>> /\ handshake = "accept" /\ handshake' = "over"
    BY <1>2 DEF OnAccept
  <2>2. /\ mstate' \in {mstate, "active"} /\ stream' \in {stream, "open"}
        /\ announced' \in {announced, announced + 1} /\ handed' \in {handed, TRUE}
    BY <1>2 DEF OnAccept, GoActive
  <2>3. announced' \in 0..2 /\ handed' \in BOOLEAN
    <3>1. announced = 0
      BY <2>1 DEF Types
    <3>2. handed' \in BOOLEAN
      BY <2>2 DEF Types
    <3> QED BY <2>2, <3>1, <3>2
  <2> QED BY <2>1, <2>2, <2>3 DEF Types, callvars, closevars
<1>3. CASE OnConnect
  BY <1>3 DEF Types, OnConnect, callvars, closevars, netvars
<1>4. CASE OnTlsHandshake
  BY <1>4 DEF Types, OnTlsHandshake, OnHandshake, GoActive, callvars, closevars, netvars
<1>5. CASE OnWsHandshake
  <2>1. PICK ok \in BOOLEAN : stream' = (IF ok THEN "open" ELSE stream) /\ OnHandshake(ok)
    BY <1>5 DEF OnWsHandshake
  <2>2. handed' \in BOOLEAN
    BY <2>1 DEF Types, OnHandshake
  <2>3. announced' \in 0..2
    BY <1>5, <2>1 DEF Types, OnHandshake, OnWsHandshake
  <2>4. mstate' = "active" /\ stream' \in {"down", "open", "lost", "shut"}
    BY <2>1 DEF Types, OnHandshake, GoActive
  <2> QED BY <1>5, <2>2, <2>3, <2>4 DEF Types, OnWsHandshake, callvars, closevars
<1> QED BY <1>1, <1>2, <1>3, <1>4, <1>5, <1>6 DEF Opening

LEMMA CallingTypes ==
  ASSUME Types, Calling, \A c \in Calls : call[c] # "ready" => early \/ handed
  PROVE  Types'
<1>1. CASE \E c \in Sends : Send(c)
  <2>1. PICK c \in Sends : Send(c)
    BY <1>1
  <2>2. c \in Calls /\ "queued" \in CallState
    BY DEF Calls, CallState
  <2>3. call' \in [Calls -> CallState] /\ early' \in BOOLEAN /\ (early' => ~IsClient)
    BY <2>1, <2>2, AdvanceTypes DEF Send
  <2> QED BY <2>1, <2>3 DEF Types, Send, hsvars, closevars, netvars
<1>2. CASE \E c \in Reads : Read(c)
  <2>1. PICK c \in Reads : Read(c)
    BY <1>2
  <2>2. c \in Calls /\ "queued" \in CallState
    BY DEF Calls, CallState
  <2>3. call' \in [Calls -> CallState] /\ early' \in BOOLEAN /\ (early' => ~IsClient)
    BY <2>1, <2>2, AdvanceTypes DEF Read
  <2> QED BY <2>1, <2>3 DEF Types, Read, hsvars, closevars, netvars
<1>3. ASSUME NEW c \in Closers, DisconnectTest(c) \/ DisconnectPushWrite(c) \/ DisconnectPushRead(c)
      PROVE  Types'
  <2>1. c \in Calls /\ {"returned", "tested", "half"} \subseteq CallState
    BY DEF Calls, CallState
  <2>2. PICK from, to : /\ Advance(c, from, to)
                        /\ to \in {"returned", "tested", "half"}
                        /\ Usable \/ call[c] # "ready"
    BY <1>3 DEF DisconnectTest, DisconnectPushWrite, DisconnectPushRead, Advance
  <2>3. call' \in [Calls -> CallState] /\ early' \in BOOLEAN /\ (early' => ~IsClient)
    BY <2>1, <2>2, AdvanceTypes
  <2> QED BY <1>3, <2>3 DEF Types, DisconnectTest, DisconnectPushWrite, DisconnectPushRead,
                            hsvars, closevars, netvars
<1>4. ASSUME NEW c \in Forcers, ForceOnStrand(c) \/ ForceTest(c) \/ ForceAct(c)
      PROVE  Types'
  <2>1. c \in Calls /\ <<"f", c>> \in CloseId /\ {"returned", "tested"} \subseteq CallState
    BY DEF Calls, CloseId, CallState
  <2>2. PICK from, to : /\ Advance(c, from, to)
                        /\ to \in {"returned", "tested"}
                        /\ Usable \/ call[c] # "ready"
    BY <1>4 DEF ForceOnStrand, ForceTest, ForceAct, Advance
  <2>3. call' \in [Calls -> CallState] /\ early' \in BOOLEAN /\ (early' => ~IsClient)
    BY <2>1, <2>2, AdvanceTypes
  <2>4. UNCHANGED <<mstate, closevars>> \/ DoDisconnect(<<"f", c>>)
    BY <1>4 DEF ForceOnStrand, ForceTest, ForceAct
  <2>5. /\ closeOps' \subseteq closers' /\ closers' \subseteq CloseId
        /\ writing' \subseteq Sends \cup CloseId
        /\ mstate' \in {mstate, "closing"}
    BY <2>1, <2>4, DoDisconnectTypes DEF Types, closevars
  <2>6. UNCHANGED <<hsvars, netvars>>
    BY <1>4 DEF ForceOnStrand, ForceTest, ForceAct
  <2> QED BY <2>3, <2>5, <2>6 DEF Types, hsvars, netvars
<1> QED BY <1>1, <1>2, <1>3, <1>4 DEF Calling, InCall

LEMMA QueueTypes ==
  ASSUME Types, WriteQueueStep \/ ReadQueueStep \/ Beaten
  PROVE  Types'
<1>1. ASSUME NEW q \in {"w", "r"}, NEW executed, Execute(q, executed)
      PROVE  /\ closeOps' \subseteq closers' /\ closers' \subseteq CloseId
             /\ writing' \subseteq Sends \cup CloseId
             /\ mstate' \in {mstate, "closing"}
  <2>1. CASE UNCHANGED <<mstate, closeOps, closers>> /\ StartWriting(executed \cap Sends)
    BY <2>1, WritingTypes DEF Types
  <2>2. CASE \E c \in executed \cap Closers : DoDisconnect(<<q, c>>)
    BY <2>2, DoDisconnectTypes DEF CloseId
  <2> QED BY <1>1, <2>1, <2>2 DEF Execute
<1>2. CASE WriteQueueStep
  BY <1>1, <1>2 DEF WriteQueueStep, Types, hsvars, callvars, netvars
<1>3. CASE ReadQueueStep
  BY <1>1, <1>3 DEF ReadQueueStep, Types, hsvars, callvars, netvars
<1>4. CASE Beaten
  BY <1>4 DEF Beaten, BeatenWrite, BeatenRead, Types, hsvars, callvars, closevars, netvars
<1> QED BY <1>2, <1>3, <1>4

LEMMA CompletionTypes ==
  ASSUME Types, WriteCompletes \/ ReadFails \/ CloseCompletes \/ (\E c \in Reads : OnReadMessage(c))
  PROVE  Types'
<1>1. ASSUME NEW c \in Sends, OnWrite(c) PROVE Types'
  <2>1. writing' \subseteq Sends \cup CloseId
    <3>1. ((wopen \cap Sends) \ {c}) \cup closeOps \subseteq Sends \cup CloseId
      BY DEF Types
    <3> QED BY <1>1, <3>1, WritingTypes DEF OnWrite
  <2>2. call' \in [Calls -> CallState]
    BY <1>1 DEF OnWrite, Types, CallState
  <2> QED BY <1>1, <2>1, <2>2 DEF OnWrite, Types, hsvars, netvars
<1>2. ASSUME NEW c \in Reads, OnReadError(c) \/ OnReadMessage(c) PROVE Types'
  <2>1. call' \in [Calls -> CallState]
    BY <1>2 DEF OnReadError, OnReadMessage, Types, CallState
  <2> QED BY <1>2, <2>1 DEF OnReadError, OnReadMessage, Types, hsvars, closevars, netvars
<1>3. ASSUME NEW id \in CloseId, OnClose(id) PROVE Types'
  <2>1. writing' \subseteq Sends \cup CloseId
    <3>1. (wopen \cap Sends) \cup (closeOps \ {id}) \subseteq Sends \cup CloseId
      BY DEF Types
    <3> QED BY <1>3, <3>1, WritingTypes DEF OnClose
  <2>2. mstate' \in {mstate, "closed"} /\ stream' \in {stream, "shut"}
    BY <1>3 DEF OnClose
  <2> QED BY <1>3, <2>1, <2>2 DEF OnClose, Types, hsvars, callvars
<1> QED BY <1>1, <1>2, <1>3 DEF WriteCompletes, ReadFails, CloseCompletes

\* Who calls early stays known for it.
LEMMA EarlyStays == Types /\ [Next]_vars => (early => early')
<1> SUFFICES ASSUME Types, [Next]_vars, early PROVE early'
  OBVIOUS
<1>1. CASE Calling
  BY <1>1 DEF Calling, InCall, Send, Read, DisconnectTest, DisconnectPushWrite, DisconnectPushRead,
              ForceOnStrand, ForceTest, ForceAct, Advance
<1>2. CASE Opening
  BY <1>2 DEF Opening, Accept, OnAccept, Connect, OnConnect, OnTlsHandshake, OnWsHandshake, callvars
<1>3. CASE WriteQueueStep \/ ReadQueueStep \/ Beaten \/ LoseStream \/ GoDeaf \/ UNCHANGED vars
  BY <1>3 DEF WriteQueueStep, ReadQueueStep, Beaten, BeatenWrite, BeatenRead, LoseStream, GoDeaf, callvars, vars
<1>4. CASE WriteCompletes \/ ReadFails \/ CloseCompletes \/ (\E c \in Reads : OnReadMessage(c))
  BY <1>4 DEF WriteCompletes, OnWrite, ReadFails, OnReadError, CloseCompletes, OnClose, OnReadMessage, callvars
<1> QED BY <1>1, <1>2, <1>3, <1>4 DEF Next

-----------------------------------------------------------------------------
LEMMA NextInv == IInv /\ [Next]_vars => IInv'
<1> SUFFICES ASSUME IInv, [Next]_vars PROVE IInv'
  OBVIOUS
<1>1. Types /\ (early => early')
  BY EarlyStays DEF IInv
<1>2. Types'
  <2>1. CASE Opening
    BY <1>1, <2>1, OpeningTypes
  <2>2. CASE Calling
    <3>1. \A c \in Calls : call[c] # "ready" => early \/ handed
      BY BusyIsHanded DEF IInv, Types
    <3> QED BY <1>1, <2>2, <3>1, CallingTypes
  <2>3. CASE WriteQueueStep \/ ReadQueueStep \/ Beaten
    BY <1>1, <2>3, QueueTypes
  <2>4. CASE WriteCompletes \/ ReadFails \/ CloseCompletes \/ (\E c \in Reads : OnReadMessage(c))
    BY <1>1, <2>4, CompletionTypes
  <2>5. CASE LoseStream
    BY <1>1, <2>5 DEF LoseStream, Types, hsvars, callvars, closevars
  <2>6. CASE GoDeaf
    BY <1>1, <2>6 DEF GoDeaf, Types, hsvars, callvars, closevars
  <2>7. CASE UNCHANGED vars
    BY <1>1, <2>7 DEF vars, Types, hsvars, callvars, closevars, netvars
  <2> QED BY <2>1, <2>2, <2>3, <2>4, <2>5, <2>6, <2>7 DEF Next
<1>3. ASSUME ~early' PROVE Patient'
  <2>1. Types /\ Patient
    BY <1>1, <1>3 DEF IInv, Types
  <2>2. CASE Opening
    BY <1>2, <2>1, <2>2, BeginInv, OnAcceptInv, OnTlsHandshakeInv, OnWsHandshakeInv DEF Opening
  <2>3. CASE Calling
    BY <1>2, <1>3, <2>1, <2>3, SendInv, ReadInv, DisconnectInv, ForceInv DEF Calling, InCall
  <2>4. CASE WriteQueueStep \/ ReadQueueStep
    BY <1>2, <2>1, <2>4, IdleStep, QueueStepInv
  <2>5. CASE Beaten
    BY <1>2, <2>1, <2>5, BeatenInv
  <2>6. CASE WriteCompletes \/ ReadFails \/ \E c \in Reads : OnReadMessage(c)
    BY <1>2, <2>1, <2>6, OnWriteInv, OnReadInv DEF WriteCompletes, ReadFails
  <2>7. CASE CloseCompletes
    BY <1>2, <2>1, <2>7, OnCloseInv DEF CloseCompletes
  <2>8. CASE LoseStream \/ GoDeaf \/ UNCHANGED vars
    BY <1>2, <2>1, <2>8, NothingDoneInv
  <2> QED BY <2>2, <2>3, <2>4, <2>5, <2>6, <2>7, <2>8 DEF Next
<1> QED BY <1>2, <1>3 DEF IInv

\* Every reachable state of a connection satisfies the inductive invariant.
THEOREM Invariance == Spec => []IInv
  BY InitInv, NextInv, PTL DEF Spec

\* Every variable has its type, and whoever is executed was queued and not
\* answered.
THEOREM TypeCorrect == Spec => []TypeInv
<1>1. IInv => TypeInv
  <2> SUFFICES ASSUME IInv PROVE TypeInv
    OBVIOUS
  <2>1. ASSUME ~early PROVE \A c \in (wopen \cup ropen) \ Closers : call[c] = "queued"
    <3>1. Types /\ Patient
      BY <2>1 DEF IInv
    <3>2. CASE handed
      BY <3>1, <3>2, UsedBefore, HeldAreCalls, CallsAssumption DEF Queued
    <3>3. CASE ~handed
      BY <3>1, <3>3, BusyIsHanded
    <3> QED BY <3>2, <3>3
  <2>2. announced \in 0..2
    BY DEF IInv, Types
  <2>3. Types
    BY DEF IInv
  <2> QED BY <2>1, <2>2, <2>3 DEF Types, TypeInv
<1> QED BY <1>1, Invariance, PTL

\* A set of which no two elements differ has at most one.
LEMMA AtMostOne ==
  ASSUME NEW S, \A x, y \in S : x = y
  PROVE  Cardinality(S) <= 1
<1>1. CASE S = {}
  BY <1>1, FS_EmptySet
<1>2. CASE S # {}
  <2>1. PICK x \in S : S = {x}
    BY <1>2
  <2> QED BY <2>1, FS_Singleton
<1> QED BY <1>1, <1>2

\* The stream has one async_write and one async_read under way, for users who
\* wait until they are told: the two queues of the connection see to it
\* (connection.hpp:341).
THEOREM OneOfEach == Spec => []OneWriteAndOneRead
<1>1. IInv => OneWriteAndOneRead
  <2> SUFFICES ASSUME IInv, ~early
               PROVE  /\ Cardinality(wopen \cap Sends) <= 1
                      /\ Cardinality(ropen \cap Reads) <= 1
    BY DEF OneWriteAndOneRead
  <2>1. /\ \A x, y \in wopen : x = y
        /\ \A x, y \in ropen : x = y
    <3>1. Types /\ Patient
      BY DEF IInv
    <3>2. CASE handed
      BY <3>1, <3>2, UsedBefore DEF WQP!IInv, WQP!TokenInv, WQP!OneAtATime, RQP!IInv, RQP!TokenInv, RQP!OneAtATime
    <3>3. CASE ~handed
      BY <3>1, <3>3, BusyIsHanded
    <3> QED BY <3>2, <3>3
  <2>2. /\ \A x, y \in wopen \cap Sends : x = y
        /\ \A x, y \in ropen \cap Reads : x = y
    BY <2>1
  <2> QED BY <2>2, AtMostOne
<1> QED BY <1>1, Invariance, PTL

\* For the same users, nothing is started on the stream before the handshake is
\* over.
THEOREM NothingEarly == Spec => []NothingBeforeHandshake
<1>1. IInv => NothingBeforeHandshake
  BY BusyIsHanded DEF IInv, Patient, Used, NothingBeforeHandshake
<1> QED BY <1>1, Invariance, PTL

\* "Whichever gets there first wins" (connection.hpp:235): as long as nobody
\* calls force_disconnect() from another thread, and nobody calls before being
\* told, the stream is closed once.
THEOREM ClosesOnce ==
  ASSUME ~OffStrand
  PROVE  Spec => []ClosedOnce
<1>1. IInv => ClosedOnce
  BY AtMostOne DEF IInv, Patient, Closing, ClosedOnce
<1> QED BY <1>1, Invariance, PTL

\* Who makes an ending connection active again: the handshake of a server whose
\* handler has disconnected it in the meantime, and nobody else.  A client's
\* handshake does not, as a client's user has no connection to disconnect; no
\* completion does, no queue and no call, not even a force_disconnect() from
\* another thread.
THEOREM ReopenedByNobodyElse == Spec => ReopenedByHandshakeOnly
<1> DEFINE Reopened == mstate \in Ended /\ mstate' \notin Ended
<1>1. IInv /\ [Next]_vars =>
        [Reopened => early /\ handshake = "accept" /\ stream' = "open"]_vars
  <2> SUFFICES ASSUME IInv, [Next]_vars, Reopened
               PROVE  early /\ handshake = "accept" /\ stream' = "open"
    OBVIOUS
  <2> Types /\ (~early => Patient)
    BY DEF IInv
  <2>1. ~early => handed /\ handshake = "over"
    BY DEF Patient, Untouched, Used
  <2>2. handshake \in {"tls", "ws", "ws_without_tls", "connect"} => ~early
    BY DEF Types
  <2>3. CASE OnAccept
    <3>1. handshake = "accept"
      BY <2>3 DEF OnAccept
    <3>2. early
      BY <2>1, <3>1
    <3>3. mstate' = mstate \/ stream' = "open"
      BY <2>3 DEF OnAccept
    <3> QED BY <3>1, <3>2, <3>3
  <2>4. CASE Opening /\ ~OnAccept
    BY <2>1, <2>2, <2>4 DEF Opening, Accept, Connect, OnConnect, OnTlsHandshake, OnWsHandshake, Ended
  <2>5. CASE Calling
    BY <2>5 DEF Calling, InCall, Send, Read, DisconnectTest, DisconnectPushWrite, DisconnectPushRead,
                ForceOnStrand, ForceTest, ForceAct, DoDisconnect, Ended
  <2>6. CASE WriteQueueStep \/ ReadQueueStep
    BY <2>6 DEF WriteQueueStep, ReadQueueStep, Execute, DoDisconnect, Ended
  <2>7. CASE Beaten \/ WriteCompletes \/ ReadFails \/ (\E c \in Reads : OnReadMessage(c))
    BY <2>7 DEF Beaten, BeatenWrite, BeatenRead, WriteCompletes, OnWrite, ReadFails, OnReadError, OnReadMessage
  <2>8. CASE LoseStream \/ GoDeaf \/ UNCHANGED vars
    BY <2>8 DEF LoseStream, GoDeaf, vars
  <2>9. CASE CloseCompletes
    BY <2>9 DEF CloseCompletes, OnClose, Ended
  <2> QED BY <2>3, <2>4, <2>5, <2>6, <2>7, <2>8, <2>9 DEF Next
<1> QED BY <1>1, Invariance, PTL DEF Spec, ReopenedByHandshakeOnly

\* Without a TLS handshake the callback is called by the last completion of the
\* opening, or, by an accept that fails, not at all.
Telling == /\ announced \in Nat /\ announced <= 1
           /\ handshake # "over" => announced = 0
           /\ handshake \notin {"tls", "ws_without_tls"}
           /\ handshake = "connect" => IsClient

\* AnnouncedOnce, except of a TLS client: the second call that is found there is
\* the one of the websocket handshake that follows a failed TLS handshake, and
\* no other order of completions makes one.
THEOREM ToldOnce ==
  ASSUME ~(IsClient /\ IsTls)
  PROVE  Spec => []AnnouncedOnce
<1>1. Init => Telling
  BY DEF Init, Telling
<1>2. Telling /\ [Next]_vars => Telling'
  <2> SUFFICES ASSUME Telling, [Next]_vars PROVE Telling'
    OBVIOUS
  <2>1. CASE Accept
    BY <2>1 DEF Accept, Telling
  <2>2. CASE OnAccept
    BY <2>2 DEF OnAccept, Telling
  <2>3. CASE Connect
    BY <2>3 DEF Connect, Telling
  <2>4. CASE OnConnect
    BY <2>4 DEF OnConnect, Telling
  <2>5. CASE OnTlsHandshake
    BY <2>5 DEF OnTlsHandshake, Telling
  <2>6. CASE OnWsHandshake
    BY <2>6 DEF OnWsHandshake, OnHandshake, Telling
  <2>7. ASSUME UNCHANGED hsvars PROVE Telling'
    BY <2>7 DEF hsvars, Telling
  <2>8. CASE Calling
    BY <2>7, <2>8 DEF Calling, InCall, Send, Read, DisconnectTest, DisconnectPushWrite, DisconnectPushRead,
                      ForceOnStrand, ForceTest, ForceAct
  <2>9. CASE WriteQueueStep \/ ReadQueueStep \/ Beaten
    BY <2>7, <2>9 DEF WriteQueueStep, ReadQueueStep, Beaten, BeatenWrite, BeatenRead
  <2>10. CASE WriteCompletes \/ ReadFails \/ CloseCompletes \/ (\E c \in Reads : OnReadMessage(c))
    BY <2>7, <2>10 DEF WriteCompletes, OnWrite, ReadFails, OnReadError, CloseCompletes, OnClose, OnReadMessage
  <2>11. CASE LoseStream \/ GoDeaf \/ UNCHANGED vars
    BY <2>7, <2>11 DEF LoseStream, GoDeaf, vars
  <2> QED BY <2>1, <2>2, <2>3, <2>4, <2>5, <2>6, <2>8, <2>9, <2>10, <2>11 DEF Next, Opening
<1>3. Telling => AnnouncedOnce
  BY DEF Telling, AnnouncedOnce
<1> QED BY <1>1, <1>2, <1>3, PTL DEF Spec

-----------------------------------------------------------------------------
(* Order.                                                                  *)

\* Once the user has been handed the connection, nobody starts a queue again:
\* what a step does to a queue is a step of that queue, or nothing.
LEMMA QueuesStep ==
  ASSUME Types, Patient, [Next]_vars, handed
  PROVE  [WQP!Next]_(WQP!vars) /\ [RQP!Next]_(RQP!vars)
<1> DEFINE WriteSame == UNCHANGED wvars
           ReadSame == UNCHANGED rvars
<1>1. ASSUME NEW c \in Sends \cup Closers, WQ!Push(c) \/ WQ!Done(c) PROVE WQP!Next
  BY <1>1 DEF WQ!Push, WQP!Push, WQ!Held, WQP!Held, WQ!Elements, WQP!Elements, WQ!Done, WQP!Done, WQP!Next, WQP!QueueNext
<1>2. ASSUME NEW c \in Reads \cup Closers, RQ!Push(c) \/ RQ!Done(c) PROVE RQP!Next
  BY <1>2 DEF RQ!Push, RQP!Push, RQ!Held, RQP!Held, RQ!Elements, RQP!Elements, RQ!Done, RQP!Done, RQP!Next, RQP!QueueNext
<1>3. ASSUME WQ!StrandStep PROVE WQP!Next
  BY <1>3 DEF WQ!StrandStep, WQP!StrandStep, WQ!StrandPush, WQP!StrandPush, WQ!StrandExec, WQP!StrandExec,
              WQ!PopAndInvoke, WQP!PopAndInvoke, WQP!Next, WQP!QueueNext
<1>4. ASSUME RQ!StrandStep PROVE RQP!Next
  BY <1>4 DEF RQ!StrandStep, RQP!StrandStep, RQ!StrandPush, RQP!StrandPush, RQ!StrandExec, RQP!StrandExec,
              RQ!PopAndInvoke, RQP!PopAndInvoke, RQP!Next, RQP!QueueNext
<1>5. /\ WriteSame => UNCHANGED WQP!vars
      /\ ReadSame => UNCHANGED RQP!vars
  BY DEF wvars, rvars, WQP!vars, RQP!vars
<1>6. ASSUME WriteSame \/ WQP!Next, ReadSame \/ RQP!Next
      PROVE  [WQP!Next]_(WQP!vars) /\ [RQP!Next]_(RQP!vars)
  BY <1>5, <1>6
<1>7. CASE Opening
  <2>1. handshake = "over"
    BY DEF Patient, Used
  <2> QED BY <1>7, <2>1 DEF Opening, Accept, OnAccept, Connect, OnConnect, OnTlsHandshake, OnWsHandshake
<1>8. CASE Calling
  <2>1. CASE \E c \in Sends : Send(c)
    BY <1>1, <1>6, <2>1 DEF Send
  <2>2. CASE \E c \in Reads : Read(c)
    BY <1>2, <1>6, <2>2 DEF Read
  <2>3. ASSUME NEW c \in Closers, DisconnectTest(c) \/ DisconnectPushWrite(c) \/ DisconnectPushRead(c)
        PROVE  (WriteSame \/ WQP!Next) /\ (ReadSame \/ RQP!Next)
    BY <1>1, <1>2, <2>3 DEF DisconnectTest, DisconnectPushWrite, DisconnectPushRead
  <2>4. ASSUME NEW c \in Forcers, ForceOnStrand(c) \/ ForceTest(c) \/ ForceAct(c)
        PROVE  WriteSame /\ ReadSame
    BY <2>4 DEF ForceOnStrand, ForceTest, ForceAct
  <2> QED BY <1>6, <1>8, <2>1, <2>2, <2>3, <2>4 DEF Calling, InCall
<1>9. CASE WriteQueueStep \/ ReadQueueStep
  BY <1>3, <1>4, <1>6, <1>9 DEF WriteQueueStep, ReadQueueStep
<1>10. CASE Beaten
  BY <1>1, <1>2, <1>6, <1>10 DEF Beaten, BeatenWrite, BeatenRead
<1>11. CASE WriteCompletes
  BY <1>1, <1>6, <1>11 DEF WriteCompletes, OnWrite
<1>12. CASE ReadFails \/ \E c \in Reads : OnReadMessage(c)
  BY <1>2, <1>6, <1>12 DEF ReadFails, OnReadError, OnReadMessage
<1>13. CASE CloseCompletes
  <2>1. PICK id \in CloseId : OnClose(id)
    BY <1>13 DEF CloseCompletes
  <2>2. id[1] = "w" \/ id[1] = "r" => id[2] \in Closers
    BY CallsAssumption DEF CloseId
  <2>3. (WriteSame \/ WQP!Next) /\ (ReadSame \/ RQP!Next)
    BY <1>1, <1>2, <2>1, <2>2 DEF OnClose
  <2> QED BY <1>6, <2>3
<1>14. CASE LoseStream \/ GoDeaf \/ UNCHANGED vars
  BY <1>6, <1>14 DEF LoseStream, GoDeaf, vars
<1> QED BY <1>7, <1>8, <1>9, <1>10, <1>11, <1>12, <1>13, <1>14 DEF Next

\* The serial queues behind the two are the same under both names.
LEMMA SameSerial ==
  /\ [WQP!Serial!Next]_(WQP!Serial!vars) => [WQ!Serial!Next]_(WQ!Serial!vars)
  /\ [RQP!Serial!Next]_(RQP!Serial!vars) => [RQ!Serial!Next]_(RQ!Serial!vars)
<1>1. WQP!Pushed(wstrand) = WQ!Pushed(wstrand) /\ WQP!Pushed(wstrand)' = WQ!Pushed(wstrand)'
  BY DEF WQP!Pushed, WQ!Pushed, WQP!Elements, WQ!Elements
<1>2. RQP!Pushed(rstrand) = RQ!Pushed(rstrand) /\ RQP!Pushed(rstrand)' = RQ!Pushed(rstrand)'
  BY DEF RQP!Pushed, RQ!Pushed, RQP!Elements, RQ!Elements
<1>3. [WQP!Serial!Next]_(WQP!Serial!vars) => [WQ!Serial!Next]_(WQ!Serial!vars)
  BY <1>1 DEF WQP!Serial!Next, WQP!Serial!Enqueue, WQP!Serial!Execute, WQP!Serial!Callback, WQP!Serial!vars,
              WQ!Serial!Next, WQ!Serial!Enqueue, WQ!Serial!Execute, WQ!Serial!Callback, WQ!Serial!vars
<1>4. [RQP!Serial!Next]_(RQP!Serial!vars) => [RQ!Serial!Next]_(RQ!Serial!vars)
  BY <1>2 DEF RQP!Serial!Next, RQP!Serial!Enqueue, RQP!Serial!Execute, RQP!Serial!Callback, RQP!Serial!vars,
              RQ!Serial!Next, RQ!Serial!Enqueue, RQ!Serial!Execute, RQ!Serial!Callback, RQ!Serial!vars
<1> QED BY <1>3, <1>4

\* The step that hands the connection over leaves two serial queues that hold
\* nothing, with an exe_next() on its way in each.
LEMMA HandedEmpty ==
  ASSUME Types, Patient, [Next]_vars, ~handed, handed'
  PROVE  (WQ!Serial!Init)' /\ (RQ!Serial!Init)'
<1>1. WQ!Init /\ RQ!Init /\ WQ!Run /\ RQ!Run
  <2>1. CASE Opening
    BY <2>1 DEF Opening, Accept, OnAccept, Connect, OnConnect, OnTlsHandshake, OnWsHandshake, OnHandshake, GoActive,
                Patient, Shaking
  <2>2. CASE ~Opening
    BY <2>2 DEF Next, Calling, InCall, Send, Read, DisconnectTest, DisconnectPushWrite, DisconnectPushRead,
                ForceOnStrand, ForceTest, ForceAct, WriteQueueStep, ReadQueueStep, Beaten, BeatenWrite, BeatenRead,
                WriteCompletes, OnWrite, ReadFails, OnReadError, OnReadMessage, CloseCompletes, OnClose, LoseStream,
                GoDeaf, hsvars, vars
  <2> QED BY <2>1, <2>2
<1>2. /\ wstrand' = <<ExeNext>> /\ wacts' = <<>> /\ wopen' = {}
      /\ rstrand' = <<ExeNext>> /\ racts' = <<>> /\ ropen' = {}
  BY <1>1 DEF WQ!Init, WQ!Run, RQ!Init, RQ!Run
<1>3. WQP!Pushed(<<ExeNext>>) = <<>>
  <2>1. ExeNext \in WQP!Elements(<<ExeNext>>)
    BY DEF WQP!Elements
  <2>2. \A i \in DOMAIN <<ExeNext>> : i = 1
    OBVIOUS
  <2> DEFINE k == CHOOSE i \in DOMAIN <<ExeNext>> : <<ExeNext>>[i] = ExeNext
  <2>3. k = 1
    BY <2>2
  <2>4. WQP!Pushed(<<ExeNext>>) = SubSeq(<<ExeNext>>, 1, k - 1) \o SubSeq(<<ExeNext>>, k + 1, 1)
    BY <2>1 DEF WQP!Pushed
  <2> HIDE DEF k
  <2>5. SubSeq(<<ExeNext>>, 1, 0) = <<>> /\ SubSeq(<<ExeNext>>, 2, 1) = <<>> /\ <<>> \o <<>> = <<>>
    BY SubSeqEmpty
  <2> QED BY <2>3, <2>4, <2>5
<1>4. WQ!Pushed(<<ExeNext>>) = <<>> /\ RQ!Pushed(<<ExeNext>>) = <<>>
  BY <1>3 DEF WQP!Pushed, WQ!Pushed, RQ!Pushed, WQP!Elements, WQ!Elements, RQ!Elements
<1>5. <<>> \o <<>> = <<>>
  OBVIOUS
<1> QED BY <1>2, <1>4, <1>5 DEF WQ!Serial!Init, RQ!Serial!Init

\* Messages are written in the order of the send() calls, and reads answered in
\* the order of the read() calls, each after the one before it is over: from the
\* moment the user has the connection, its two queues are serial queues, empty
\* at first (connection.hpp:275-345).  Of users who wait for that moment: a
\* queue that holds something when go_active() runs it is none.
THEOREM InOrderOfCalls ==
  Spec => [][~early =>
               /\ ~handed /\ handed' => (WQ!Serial!Init)' /\ (RQ!Serial!Init)'
               /\ handed => [WQ!Serial!Next]_(WQ!Serial!vars) /\ [RQ!Serial!Next]_(RQ!Serial!vars)]_vars
<1>1. IInv /\ [Next]_vars =>
        [~early =>
           /\ ~handed /\ handed' => (WQ!Serial!Init)' /\ (RQ!Serial!Init)'
           /\ handed => [WQ!Serial!Next]_(WQ!Serial!vars) /\ [RQ!Serial!Next]_(RQ!Serial!vars)]_vars
  <2>1. ASSUME IInv, [Next]_vars, ~early, ~handed, handed'
        PROVE  (WQ!Serial!Init)' /\ (RQ!Serial!Init)'
    BY <2>1, HandedEmpty DEF IInv
  <2>2. ASSUME IInv, [Next]_vars, ~early, handed
        PROVE  [WQ!Serial!Next]_(WQ!Serial!vars) /\ [RQ!Serial!Next]_(RQ!Serial!vars)
    <3>1. Types /\ Patient
      BY <2>2 DEF IInv
    <3>2. [WQP!Next]_(WQP!vars) /\ [RQP!Next]_(RQP!vars)
      BY <2>2, <3>1, QueuesStep
    <3>3. WQP!IInv /\ RQP!IInv
      BY <2>2, <3>1, UsedBefore
    <3>4. [WQP!Serial!Next]_(WQP!Serial!vars) /\ [RQP!Serial!Next]_(RQP!Serial!vars)
      BY <3>2, <3>3, NotACall, WQP!NextRefines, RQP!NextRefines
    <3> QED BY <3>4, SameSerial
  <2> QED BY <2>1, <2>2
<1> QED BY <1>1, Invariance, PTL DEF Spec
=============================================================================
