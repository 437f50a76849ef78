----------------------------- MODULE HttpProofs -----------------------------
(***************************************************************************)
(* Proofs about HttpConnection.tla for any number of requests, and about   *)
(* HttpContent.tla for any texts.                                          *)
(*                                                                         *)
(* The argument about the connection is about what is ahead of it, that is,*)
(* m_buffer and what is on its way: it comes in the order in which it was  *)
(* sent, and none of it is older than what was answered last; and while    *)
(* the client waits for its answers and no body was left unread, it is the *)
(* rest of the request that is not answered.                               *)
(*                                                                         *)
(* The one about contents is that what is taken apart is what was put      *)
(* together.  The recursions of the text functions are first shown to have *)
(* solutions, by induction over positions.  split() returns the pieces that*)
(* were put together with delimiters, url_decode() inverts the browser's   *)
(* encoding, and the boundary lines of a body stand where the browser put  *)
(* them; cookies, credentials and the three encodings of forms follow.     *)
(***************************************************************************)
EXTENDS HttpConnection, HttpContent, SequenceTheorems, FiniteSetTheorems, WellFoundedInduction, TLAPS

-----------------------------------------------------------------------------
(* Sequences.                                                              *)

LEMMA ConcatAppend ==
  ASSUME NEW S, NEW b \in Seq(S), NEW w \in Seq(S), NEW x \in S
  PROVE  b \o Append(w, x) = Append(b \o w, x)
<1> DEFINE l == b \o Append(w, x)
           r == Append(b \o w, x)
<1>1. /\ Append(w, x) \in Seq(S) /\ Len(Append(w, x)) = Len(w) + 1
      /\ \A i \in 1..Len(w) : Append(w, x)[i] = w[i]
      /\ Append(w, x)[Len(w) + 1] = x
      /\ Len(w) \in Nat /\ Len(b) \in Nat
  BY AppendProperties, LenProperties
<1>2. /\ b \o w \in Seq(S) /\ Len(b \o w) = Len(b) + Len(w)
      /\ \A i \in 1..(Len(b) + Len(w)) : (b \o w)[i] = IF i <= Len(b) THEN b[i] ELSE w[i - Len(b)]
  BY ConcatProperties
<1>3. /\ l \in Seq(S) /\ Len(l) = Len(b) + Len(w) + 1
      /\ \A i \in 1..(Len(b) + Len(w) + 1) : l[i] = IF i <= Len(b) THEN b[i] ELSE Append(w, x)[i - Len(b)]
  BY <1>1, ConcatProperties
<1>4. /\ r \in Seq(S) /\ Len(r) = Len(b) + Len(w) + 1
      /\ \A i \in 1..(Len(b) + Len(w)) : r[i] = (b \o w)[i]
      /\ r[Len(b) + Len(w) + 1] = x
  BY <1>2, AppendProperties
<1>5. ASSUME NEW i \in 1..Len(l) PROVE l[i] = r[i]
  <2>1. CASE i <= Len(b)
    BY <1>1, <1>2, <1>3, <1>4, <2>1
  <2>2. CASE Len(b) < i /\ i <= Len(b) + Len(w)
    <3>1. i - Len(b) \in 1..Len(w) /\ i \in 1..(Len(b) + Len(w))
      BY <1>1, <2>2
    <3> QED BY <1>1, <1>2, <1>3, <1>4, <2>2, <3>1
  <2>3. CASE i = Len(b) + Len(w) + 1
    <3>1. i - Len(b) = Len(w) + 1 /\ ~(i <= Len(b))
      BY <1>1, <2>3
    <3> QED BY <1>1, <1>3, <1>4, <2>3, <3>1
  <2> QED BY <1>1, <1>3, <2>1, <2>2, <2>3
<1> QED BY <1>3, <1>4, <1>5, SeqEqual

LEMMA TailConcat ==
  ASSUME NEW S, NEW b \in Seq(S), NEW w \in Seq(S), b # <<>>
  PROVE  /\ b \o w # <<>>
         /\ Head(b \o w) = Head(b)
         /\ Tail(b \o w) = Tail(b) \o w
<1> DEFINE l == Tail(b \o w)
           r == Tail(b) \o w
<1>1. /\ b \o w \in Seq(S) /\ Len(b \o w) = Len(b) + Len(w)
      /\ \A i \in 1..(Len(b) + Len(w)) : (b \o w)[i] = IF i <= Len(b) THEN b[i] ELSE w[i - Len(b)]
      /\ Len(b) \in Nat \ {0} /\ Len(w) \in Nat
  BY ConcatProperties, LenProperties, EmptySeq
<1>2. b \o w # <<>>
  BY <1>1, EmptySeq
<1>3. Head(b \o w) = Head(b)
  BY <1>1
<1>4. /\ Tail(b) \in Seq(S) /\ Len(Tail(b)) = Len(b) - 1
      /\ \A i \in 1..(Len(b) - 1) : Tail(b)[i] = b[i + 1]
  BY HeadTailProperties
<1>5. /\ l \in Seq(S) /\ Len(l) = Len(b) + Len(w) - 1
      /\ \A i \in 1..(Len(b) + Len(w) - 1) : l[i] = (b \o w)[i + 1]
  BY <1>1, <1>2, HeadTailProperties
<1>6. /\ r \in Seq(S) /\ Len(r) = Len(b) - 1 + Len(w)
      /\ \A i \in 1..(Len(b) - 1 + Len(w)) : r[i] = IF i <= Len(b) - 1 THEN Tail(b)[i] ELSE w[i - (Len(b) - 1)]
  BY <1>4, ConcatProperties
<1>7. ASSUME NEW i \in 1..Len(l) PROVE l[i] = r[i]
  <2>1. CASE i <= Len(b) - 1
    BY <1>1, <1>4, <1>5, <1>6, <2>1
  <2>2. CASE i > Len(b) - 1
    <3>1. i + 1 - Len(b) = i - (Len(b) - 1) /\ ~(i + 1 <= Len(b)) /\ i + 1 \in 1..(Len(b) + Len(w))
      BY <1>1, <1>5, <2>2
    <3> QED BY <1>1, <1>5, <1>6, <2>2, <3>1
  <2> QED BY <1>1, <1>5, <2>1, <2>2
<1>8. l = r
  <2>1. Len(l) = Len(r)
    BY <1>1, <1>5, <1>6
  <2> QED BY <1>5, <1>6, <1>7, <2>1, SeqEqual
<1> QED BY <1>2, <1>3, <1>8

\* A read splits what is on its way.
LEMMA Divided ==
  ASSUME NEW S, NEW w \in Seq(S), NEW k \in 1..Len(w)
  PROVE  /\ SubSeq(w, 1, k) \in Seq(S) /\ SubSeq(w, k + 1, Len(w)) \in Seq(S)
         /\ SubSeq(w, 1, k) \o SubSeq(w, k + 1, Len(w)) = w
<1>1. Len(w) \in Nat /\ \A i \in 1..Len(w) : w[i] \in S
  BY LenProperties
<1>2. SubSeq(w, 1, k) \in Seq(S)
  BY <1>1, SubSeqProperties
<1>3. SubSeq(w, k + 1, Len(w)) \in Seq(S)
  BY <1>1, SubSeqProperties
<1>4. SubSeq(w, 1, k) \o SubSeq(w, k + 1, Len(w)) = SubSeq(w, 1, Len(w))
  BY <1>1, ConcatAdjacentSubSeq
<1> QED BY <1>2, <1>3, <1>4, SubSeqFull

-----------------------------------------------------------------------------
(* Units in the order of their requests.                                   *)

\* The units in s are of requests from the lo-th to the hi-th, in order.
Sorted(s, lo, hi) ==
  /\ \A i \in DOMAIN s : lo <= s[i][2] /\ s[i][2] <= hi
  /\ \A i, j \in DOMAIN s : i < j => s[i][2] <= s[j][2]

LEMMA UnitNumbers == /\ \A u \in Units : u[2] \in Nat
                     /\ \A m : Header(m)[2] = m /\ Body(m)[2] = m /\ ClientHello[2] = 0
  BY MaxRequestsAssumption DEF Units, Header, Body, ClientHello

LEMMA SortedAppend ==
  ASSUME NEW s \in Seq(Units), NEW lo \in Nat, NEW hi \in Nat, NEW top \in Nat, Sorted(s, lo, hi),
         NEW x \in Units, x[2] = top, lo <= top, hi <= top
  PROVE  Sorted(Append(s, x), lo, top)
<1> DEFINE t == Append(s, x)
<1>1. /\ DOMAIN s = 1..Len(s) /\ Len(s) \in Nat
      /\ DOMAIN t = 1..(Len(s) + 1)
      /\ \A i \in 1..Len(s) : t[i] = s[i]
      /\ t[Len(s) + 1] = x
  BY AppendProperties, LenProperties
<1>2. \A i \in 1..Len(s) : s[i] \in Units
  BY ElementOfSeq
<1> HIDE DEF t
<1>3. \A i \in DOMAIN s : s[i][2] \in Nat /\ lo <= s[i][2] /\ s[i][2] <= hi
  BY <1>1, <1>2, UnitNumbers DEF Sorted
<1>4. \A i \in DOMAIN t : lo <= t[i][2] /\ t[i][2] <= top
  BY <1>1, <1>3
<1>5. ASSUME NEW i \in DOMAIN t, NEW j \in DOMAIN t, i < j PROVE t[i][2] <= t[j][2]
  <2>1. CASE j \in DOMAIN s
    BY <1>1, <1>5, <2>1 DEF Sorted
  <2>2. CASE j = Len(s) + 1
    BY <1>1, <1>4, <2>2
  <2> QED BY <1>1, <2>1, <2>2
<1>6. Sorted(t, lo, top)
  BY <1>4, <1>5 DEF Sorted
<1> QED BY <1>6 DEF t

\* What comes after part of a sorted sequence, and after the unit at its front.
LEMMA SortedRest ==
  ASSUME NEW b \in Seq(Units), NEW w \in Seq(Units), NEW lo \in Nat, NEW hi \in Nat,
         Sorted(b \o w, lo, hi)
  PROVE  /\ Sorted(w, lo, hi)
         /\ b # <<>> => lo <= Head(b)[2] /\ Head(b)[2] <= hi /\ Sorted(w, Head(b)[2], hi)
<1> DEFINE a == b \o w
<1>1. /\ DOMAIN w = 1..Len(w) /\ Len(w) \in Nat /\ Len(b) \in Nat
      /\ DOMAIN a = 1..(Len(b) + Len(w))
      /\ \A i \in DOMAIN w : i + Len(b) \in DOMAIN a /\ a[i + Len(b)] = w[i]
      /\ b # <<>> => 1 \in DOMAIN a /\ a[1] = Head(b) /\ Len(b) > 0
  <2>1. /\ a \in Seq(Units) /\ Len(a) = Len(b) + Len(w)
        /\ \A i \in 1..(Len(b) + Len(w)) : a[i] = IF i <= Len(b) THEN b[i] ELSE w[i - Len(b)]
        /\ Len(w) \in Nat /\ Len(b) \in Nat /\ DOMAIN w = 1..Len(w)
    BY ConcatProperties, LenProperties
  <2>2. DOMAIN a = 1..(Len(b) + Len(w))
    BY <2>1, LenProperties
  <2>3. ASSUME NEW i \in DOMAIN w PROVE i + Len(b) \in DOMAIN a /\ a[i + Len(b)] = w[i]
    <3>1. i + Len(b) \in 1..(Len(b) + Len(w)) /\ ~(i + Len(b) <= Len(b)) /\ (i + Len(b)) - Len(b) = i
      BY <2>1
    <3> QED BY <2>1, <2>2, <3>1
  <2>4. b # <<>> => 1 \in DOMAIN a /\ a[1] = Head(b) /\ Len(b) > 0
    BY <2>1, <2>2, EmptySeq
  <2> QED BY <2>1, <2>2, <2>3, <2>4
<1> HIDE DEF a
<1>2. Sorted(a, lo, hi)
  BY DEF a
<1>3. \A i, j \in DOMAIN w : i < j => w[i][2] <= w[j][2]
  <2> SUFFICES ASSUME NEW i \in DOMAIN w, NEW j \in DOMAIN w, i < j PROVE w[i][2] <= w[j][2]
    OBVIOUS
  <2>1. i + Len(b) < j + Len(b)
    BY <1>1
  <2> QED BY <1>1, <1>2, <2>1 DEF Sorted
<1>4. Sorted(w, lo, hi)
  BY <1>1, <1>2, <1>3 DEF Sorted
<1>5. ASSUME b # <<>> PROVE lo <= Head(b)[2] /\ Head(b)[2] <= hi /\ Sorted(w, Head(b)[2], hi)
  <2>1. lo <= Head(b)[2] /\ Head(b)[2] <= hi
    BY <1>1, <1>2, <1>5 DEF Sorted
  <2>2. ASSUME NEW i \in DOMAIN w PROVE Head(b)[2] <= w[i][2]
    <3>1. 1 < i + Len(b) /\ i + Len(b) \in DOMAIN a /\ a[i + Len(b)] = w[i]
      BY <1>1, <1>5
    <3> QED BY <1>1, <1>2, <1>5, <3>1 DEF Sorted
  <2> QED BY <1>3, <1>4, <2>1, <2>2 DEF Sorted
<1> QED BY <1>4, <1>5

-----------------------------------------------------------------------------
(* The inductive invariant.                                                *)

Early == {"detecting", "handshaking", "reading"}

Booleans == /\ tlsClient \in BOOLEAN /\ tlsCtx \in BOOLEAN
            /\ isTls \in BOOLEAN /\ armed \in BOOLEAN
            /\ skipped \in BOOLEAN /\ owed \in BOOLEAN /\ pipelined \in BOOLEAN /\ eof \in BOOLEAN

Types ==
  /\ phase \in Over \cup Early \cup {"body", "writing"}
  /\ ghost \in {"none", "reading", "dropped"}
  /\ buffer \in Seq(Units) /\ genBuffer \in Seq(Units) /\ wire \in Seq(Units)
  /\ response \in 0..MaxRequests
  /\ answered \in Seq(1..MaxRequests)
  /\ reqs \in Seq(Request) /\ Len(reqs) <= MaxRequests
  /\ owed => Len(reqs) # 0 /\ HasBody(reqs[Len(reqs)])

\* m_buffer went with the request that is being handled.  No request is sent to
\* a server that cannot do the TLS its client wants.
Handling ==
  /\ current \in 0..Len(reqs)
  /\ phase \in {"body", "writing"} => current # 0 /\ buffer = <<>>
  /\ phase \in Early => current = 0
  /\ phase = "writing" => response = current
  /\ phase = "detecting" => answered = <<>>
  /\ \A k \in DOMAIN answered : answered[k] <= Len(reqs)
  /\ isTls => tlsCtx
  /\ tlsClient /\ ~tlsCtx => reqs = <<>>

\* What is ahead comes in order, and none of it is of a request before the one
\* that is being handled or was answered last.
Low == IF current # 0 THEN current
       ELSE IF answered = <<>> THEN 0 ELSE answered[Len(answered)]
Ordered == Sorted(buffer \o wire, Low, Len(reqs))

\* The answers are in order, too.
Rising == /\ \A j, k \in DOMAIN answered : j < k => answered[j] <= answered[k]
          /\ \A k \in DOMAIN answered : answered[k] <= Low

\* A client that waits, of a server that reads the bodies, has one request open
\* at most.
Waiting == ~pipelined /\ ~skipped =>
             /\ Len(answered) <= Len(reqs) /\ Len(reqs) <= Len(answered) + 1
             /\ current # 0 => Len(answered) < current
             /\ \A k \in DOMAIN answered : answered[k] = k

\* What was sent of the request that is not answered.
Unanswered == IF Len(reqs) = Len(answered) THEN <<>>
              ELSE IF owed \/ ~HasBody(reqs[Len(reqs)]) THEN <<Header(Len(reqs))>>
              ELSE <<Header(Len(reqs)), Body(Len(reqs))>>

\* All of that is ahead until it is handled, and nothing is when it is answered.
Framing == /\ phase \in Early => buffer \o wire = Unanswered
           /\ phase = "body" => genBuffer \o wire = Tail(Unanswered)
           /\ phase = "writing" => wire = <<>> /\ ~owed
           /\ owed => Len(reqs) # Len(answered)

Framed == ~pipelined /\ ~skipped /\ (tlsClient => tlsCtx) => Framing

IInv == Booleans /\ Types /\ Handling /\ Ordered /\ Rising /\ Waiting /\ Framed

LEMMA RequestTypes == \A r \in Request : HasBody(r) \in BOOLEAN /\ r.close \in BOOLEAN
  BY DEF Request, HasBody

LEMMA InitInv == Init => IInv
<1> SUFFICES ASSUME Init PROVE IInv
  OBVIOUS
<1>1. Booleans
  BY DEF Init, Booleans
<1>2. /\ buffer = <<>> /\ genBuffer = <<>> /\ wire = <<>> /\ answered = <<>> /\ reqs = <<>>
      /\ phase = "detecting" /\ ghost = "none" /\ current = 0 /\ response = 0 /\ ~owed
  BY DEF Init
<1>3. <<>> \in Seq(Units) /\ <<>> \in Seq(1..MaxRequests) /\ <<>> \in Seq(Request) /\ Len(<<>>) = 0
  OBVIOUS
<1>4. Types
  BY <1>2, <1>3, MaxRequestsAssumption DEF Types, Early
<1>5. Handling
  BY <1>2, <1>3 DEF Init, Handling, Early
<1>6. buffer \o wire = <<>>
  BY <1>2, <1>3, ConcatEmptySeq
<1>7. Ordered
  BY <1>6 DEF Ordered, Sorted
<1>8. Waiting /\ Rising
  BY <1>2, <1>3 DEF Waiting, Rising
<1>9. Framed
  BY <1>2, <1>3, <1>6 DEF Framed, Framing, Unanswered, Early
<1> QED BY <1>1, <1>4, <1>5, <1>7, <1>8, <1>9 DEF IInv

\* A step that ends the connection, or goes on before a request is there.
LEMMA QuietInv ==
  ASSUME IInv, UNCHANGED <<tlsClient, tlsCtx, buffer, genBuffer, current, response, answered, skipped,
                           reqs, wire, owed, pipelined>>,
         isTls' \in BOOLEAN, isTls' => isTls \/ tlsCtx, armed' \in BOOLEAN, eof' \in BOOLEAN,
         ghost' \in {"none", "reading", "dropped"},
         phase' \in Over \/ phase' = phase \/ ({phase, phase'} \subseteq Early /\ phase' # "detecting")
  PROVE  IInv'
<1>1. Booleans'
  BY DEF IInv, Booleans
<1>2. Types'
  BY DEF IInv, Types
<1>3. Handling'
  BY DEF IInv, Handling, Over, Early
<1>4. Ordered' /\ Waiting'
  BY DEF IInv, Ordered, Low, Waiting
<1>7. Rising'
  BY DEF IInv, Rising, Low
<1>5. Unanswered' = Unanswered
  BY DEF Unanswered
<1>6. Framed'
  BY <1>5 DEF IInv, Framed, Framing, Over, Early
<1> QED BY <1>1, <1>2, <1>3, <1>4, <1>6, <1>7 DEF IInv

\* What the invariant says of the sequences.
LEMMA Lengths ==
  ASSUME Types
  PROVE  /\ Len(reqs) \in Nat /\ Len(answered) \in Nat
         /\ \A i \in 1..Len(reqs) : reqs[i] \in Request /\ Header(i) \in Units /\ Body(i) \in Units
         /\ buffer \o wire \in Seq(Units)
         /\ Handling => Low \in Nat /\ Low <= Len(reqs)
<1>1. /\ Len(reqs) \in Nat /\ \A i \in 1..Len(reqs) : reqs[i] \in Request
      /\ Len(answered) \in Nat
      /\ Len(reqs) <= MaxRequests
  BY LenProperties, ElementOfSeq DEF Types
<1>2. \A i \in 1..Len(reqs) : i \in 1..MaxRequests
  BY <1>1, MaxRequestsAssumption
<1>3. Handling => Low \in Nat /\ Low <= Len(reqs)
  <2>1. answered # <<>> => Len(answered) \in DOMAIN answered /\ answered[Len(answered)] \in Nat
    <3>1. answered \in Seq(1..MaxRequests) /\ DOMAIN answered = 1..Len(answered)
      BY LenProperties DEF Types
    <3>2. answered # <<>> => Len(answered) \in 1..Len(answered)
      BY <1>1, <3>1, EmptySeq
    <3>3. \A k \in 1..Len(answered) : answered[k] \in 1..MaxRequests
      BY <3>1, ElementOfSeq
    <3> QED BY <3>1, <3>2, <3>3, MaxRequestsAssumption
  <2> QED BY <1>1, <2>1 DEF Handling, Low
<1> QED BY <1>1, <1>2, <1>3, ConcatProperties DEF Types, Units

\* The few explicit sequences of the framing.
LEMMA Tuples ==
  ASSUME NEW S, NEW x \in S, NEW y \in S
  PROVE  /\ <<x>> \in Seq(S) /\ Head(<<x>>) = x /\ Len(<<x>>) = 1 /\ Tail(<<x>>) = <<>>
         /\ <<x, y>> \in Seq(S) /\ Head(<<x, y>>) = x /\ Len(<<x, y>>) = 2 /\ Tail(<<x, y>>) = <<y>>
         /\ Append(<<>>, x) = <<x>> /\ Append(<<x>>, y) = <<x, y>>
<1>1. <<x>> \in Seq(S) /\ <<x, y>> \in Seq(S) /\ <<>> \in Seq(S)
  OBVIOUS
<1>2. Head(<<x>>) = x /\ Head(<<x, y>>) = x
  OBVIOUS
<1>3. Len(<<x>>) = 1 /\ Len(<<x, y>>) = 2
  OBVIOUS
<1>4. Tail(<<x>>) = <<>>
  BY <1>1, <1>3, HeadTailProperties, EmptySeq
<1>5. Tail(<<x, y>>) = <<y>>
  <2>1. /\ Tail(<<x, y>>) \in Seq(S) /\ Len(Tail(<<x, y>>)) = 1
        /\ Tail(<<x, y>>)[1] = y
    BY <1>1, <1>3, HeadTailProperties
  <2>2. <<y>> \in Seq(S) /\ Len(<<y>>) = 1 /\ <<y>>[1] = y
    OBVIOUS
  <2> QED BY <2>1, <2>2, SeqEqual
<1>6. Append(<<>>, x) = <<x>>
  <2>1. /\ Append(<<>>, x) \in Seq(S) /\ Len(Append(<<>>, x)) = 1
        /\ Append(<<>>, x)[1] = x
    BY <1>1, AppendProperties
  <2>2. <<x>>[1] = x
    OBVIOUS
  <2> QED BY <1>1, <1>3, <2>1, <2>2, SeqEqual
<1>7. Append(<<x>>, y) = <<x, y>>
  <2>1. /\ Append(<<x>>, y) \in Seq(S) /\ Len(Append(<<x>>, y)) = 2
        /\ Append(<<x>>, y)[1] = x /\ Append(<<x>>, y)[2] = y
    <3>1. <<x>>[1] = x /\ 1 \in 1..Len(<<x>>)
      BY <1>3
    <3> QED BY <1>1, <1>3, <3>1, AppendProperties
  <2>2. <<x, y>>[1] = x /\ <<x, y>>[2] = y
    OBVIOUS
  <2>3. \A i \in 1..Len(Append(<<x>>, y)) : Append(<<x>>, y)[i] = <<x, y>>[i]
    <3>1. \A i \in 1..Len(Append(<<x>>, y)) : i = 1 \/ i = 2
      BY <2>1
    <3> QED BY <2>1, <2>2, <3>1
  <2>4. Len(Append(<<x>>, y)) = Len(<<x, y>>)
    BY <1>3, <2>1
  <2>5. Append(<<x>>, y) \in Seq(S)
    BY <2>1
  <2> QED BY <1>1, <2>3, <2>4, <2>5, SeqEqual
<1> QED BY <1>1, <1>2, <1>3, <1>4, <1>5, <1>6, <1>7

LEMMA ClientSendInv ==
  ASSUME IInv, ClientSend
  PROVE  IInv'
<1> DEFINE n == Len(reqs) + 1
<1>1. PICK r \in Request : reqs' = Append(reqs, r) /\ owed' = HasBody(r)
  BY DEF ClientSend
<1>2. /\ ~owed /\ Len(reqs) < MaxRequests
      /\ wire' = Append(wire, Header(n))
      /\ pipelined' = (pipelined \/ Len(answered) < Len(reqs))
      /\ UNCHANGED <<setup, server, eof>>
  BY DEF ClientSend
<1>3. Booleans /\ Types /\ Handling /\ Ordered /\ Rising /\ Waiting /\ Framed
  BY DEF IInv
<1>4. Len(reqs) \in Nat /\ Len(answered) \in Nat
  BY <1>3, Lengths
<1>5. Header(n) \in Units
  <2>1. n \in 1..MaxRequests
    BY <1>2, <1>4, MaxRequestsAssumption
  <2> QED BY <2>1 DEF Units
<1>6. /\ reqs' \in Seq(Request) /\ Len(reqs') = n /\ reqs'[n] = r
  BY <1>1, <1>3, <1>4, AppendProperties DEF Types
<1>7. wire' \in Seq(Units)
  BY <1>2, <1>3, <1>5, AppendProperties DEF Types
<1>8. buffer' \o wire' = Append(buffer \o wire, Header(n))
  BY <1>2, <1>3, <1>5, ConcatAppend DEF Types, server
<1>9. Booleans'
  <2>1. owed' \in BOOLEAN
    BY <1>1, RequestTypes
  <2>2. pipelined' \in BOOLEAN
    BY <1>2, <1>3 DEF Booleans
  <2> QED BY <1>2, <1>3, <2>1, <2>2 DEF Booleans, setup, server
<1>10. Types'
  <2>1. Len(reqs') <= MaxRequests
    BY <1>2, <1>4, <1>6, MaxRequestsAssumption
  <2>2. owed' => Len(reqs') # 0 /\ HasBody(reqs'[Len(reqs')])
    BY <1>1, <1>4, <1>6
  <2> QED BY <1>2, <1>3, <1>6, <1>7, <2>1, <2>2 DEF Types, server
<1>11. Handling'
  <2>1. UNCHANGED <<phase, isTls, buffer, current, response, answered, tlsClient, tlsCtx>>
    BY <1>2 DEF server, setup
  <2>2. current' \in 0..Len(reqs')
    BY <1>3, <1>4, <1>6, <2>1 DEF Handling
  <2>3. \A k \in DOMAIN answered' : answered'[k] <= Len(reqs')
    <3>1. \A k \in DOMAIN answered : answered[k] \in Nat /\ answered[k] <= Len(reqs)
      BY <1>3, ElementOfSeq, LenProperties, MaxRequestsAssumption DEF Types, Handling
    <3> QED BY <1>4, <1>6, <2>1, <3>1
  <2>4. ~(tlsClient /\ ~tlsCtx)
    BY <1>3 DEF ClientSend, Handling
  <2> QED BY <1>3, <2>1, <2>2, <2>3, <2>4 DEF Handling
<1>12. Ordered'
  <2>1. /\ buffer \o wire \in Seq(Units) /\ Low \in Nat /\ Low <= Len(reqs)
        /\ Sorted(buffer \o wire, Low, Len(reqs))
    BY <1>3, Lengths DEF Ordered
  <2>2. Header(n)[2] = n /\ n \in Nat /\ Len(reqs) <= n /\ Low <= n
    BY <1>4, <2>1, UnitNumbers
  <2>3. Sorted(Append(buffer \o wire, Header(n)), Low, n)
    BY ONLY <1>4, <1>5, <2>1, <2>2, SortedAppend
  <2>4. Low' = Low
    BY <1>2 DEF Low, server
  <2> QED BY <1>6, <1>8, <2>3, <2>4 DEF Ordered
<1>13. Rising'
  BY <1>2, <1>3 DEF Rising, Low, server
<1>14. ~pipelined' => ~pipelined /\ ~(Len(answered) < Len(reqs))
  BY <1>2, Zenon
<1>15. ~pipelined' /\ ~skipped => ~pipelined /\ Len(reqs) = Len(answered)
  BY <1>3, <1>4, <1>14 DEF Waiting
<1>16. Waiting'
  <2> SUFFICES ASSUME ~pipelined', ~skipped PROVE
                 /\ Len(answered) <= Len(reqs') /\ Len(reqs') <= Len(answered) + 1
                 /\ current # 0 => Len(answered) < current
                 /\ \A k \in DOMAIN answered : answered[k] = k
    BY <1>2 DEF Waiting, server
  <2>1. ~pipelined /\ Len(reqs) = Len(answered)
    BY <1>15
  <2> QED BY <1>3, <1>4, <1>6, <2>1 DEF Waiting
<1>17. Framed'
  <2> SUFFICES ASSUME ~pipelined', ~skipped, tlsClient => tlsCtx PROVE Framing'
    BY <1>2 DEF Framed, server, setup
  <2>1. Framing /\ Waiting /\ ~pipelined /\ Len(reqs) = Len(answered)
    BY <1>3, <1>15 DEF Framed
  <2>2. Unanswered = <<>> /\ Unanswered' = <<Header(n)>>
    <3>1. Len(reqs') # Len(answered') /\ (owed' \/ ~HasBody(reqs'[Len(reqs')]))
      BY <1>1, <1>2, <1>4, <1>6, <2>1 DEF server
    <3> QED BY <1>6, <2>1, <3>1 DEF Unanswered
  <2>3. phase \notin {"body", "writing"}
    <3>1. current \in 0..Len(reqs) /\ (current # 0 => Len(answered) < current)
      BY <1>3, <2>1 DEF Handling, Waiting
    <3> QED BY <1>3, <1>4, <2>1, <3>1 DEF Handling
  <2>4. phase' \in Early => buffer' \o wire' = <<Header(n)>>
    <3>1. phase' \in Early => buffer \o wire = <<>>
      BY <1>2, <2>1, <2>2 DEF Framing, server
    <3> QED BY <1>5, <1>8, <3>1, Tuples
  <2>5. Len(reqs') # Len(answered')
    BY <1>2, <1>4, <1>6, <2>1 DEF server
  <2> QED BY <1>2, <2>2, <2>3, <2>4, <2>5 DEF Framing, server
<1> QED BY <1>9, <1>10, <1>11, <1>12, <1>13, <1>16, <1>17 DEF IInv

LEMMA ClientSendBodyInv ==
  ASSUME IInv, ClientSendBody
  PROVE  IInv'
<1> DEFINE n == Len(reqs)
<1>1. /\ owed /\ owed' = FALSE
      /\ wire' = Append(wire, Body(n))
      /\ UNCHANGED <<setup, server, reqs, pipelined, eof>>
  BY DEF ClientSendBody
<1>2. Booleans /\ Types /\ Handling /\ Ordered /\ Rising /\ Waiting /\ Framed
  BY DEF IInv
<1>3. n \in Nat /\ Len(answered) \in Nat /\ Body(n) \in Units /\ HasBody(reqs[n])
  BY <1>1, <1>2, Lengths DEF Types
<1>4. wire' \in Seq(Units)
  BY <1>1, <1>2, <1>3, AppendProperties DEF Types
<1>5. /\ buffer' \o wire' = Append(buffer \o wire, Body(n))
      /\ genBuffer' \o wire' = Append(genBuffer \o wire, Body(n))
  <2>1. UNCHANGED <<buffer, genBuffer>>
    BY <1>1 DEF server
  <2>4. /\ buffer \in Seq(Units) /\ genBuffer \in Seq(Units) /\ wire \in Seq(Units)
        /\ Body(n) \in Units
    BY <1>2, <1>3 DEF Types
  <2>2. buffer \o Append(wire, Body(n)) = Append(buffer \o wire, Body(n))
    BY ONLY <2>4, ConcatAppend
  <2>3. genBuffer \o Append(wire, Body(n)) = Append(genBuffer \o wire, Body(n))
    BY ONLY <2>4, ConcatAppend
  <2> QED BY <1>1, <2>1, <2>2, <2>3
<1>6. Booleans'
  BY <1>1, <1>2 DEF Booleans, setup, server
<1>7. Types'
  BY <1>1, <1>2, <1>4 DEF Types, server
<1>8. Handling' /\ Waiting' /\ Rising'
  BY <1>1, <1>2 DEF Handling, Waiting, Rising, Low, server, setup
<1>9. Ordered'
  <2>1. /\ buffer \o wire \in Seq(Units) /\ Low \in Nat /\ Low <= n
        /\ Sorted(buffer \o wire, Low, n)
    BY <1>2, Lengths DEF Ordered
  <2>4. Body(n)[2] = n /\ n <= n
    BY <1>3, UnitNumbers
  <2>2. Sorted(Append(buffer \o wire, Body(n)), Low, n)
    BY ONLY <1>3, <2>1, <2>4, SortedAppend
  <2>3. Low' = Low /\ Len(reqs') = n
    BY <1>1 DEF Low, server
  <2> QED BY <1>5, <2>2, <2>3 DEF Ordered
<1>10. Framed'
  <2> SUFFICES ASSUME ~pipelined, ~skipped, tlsClient => tlsCtx PROVE Framing'
    BY <1>1 DEF Framed, server, setup
  <2>1. Framing
    BY <1>2 DEF Framed
  <2>2. phase # "writing" /\ Len(answered) # n
    BY <1>1, <2>1 DEF Framing
  <2>3. Unanswered = <<Header(n)>> /\ Unanswered' = <<Header(n), Body(n)>>
    BY <1>1, <1>3, <2>2 DEF Unanswered, server
  <2>4. /\ Append(<<Header(n)>>, Body(n)) = <<Header(n), Body(n)>>
        /\ Tail(<<Header(n)>>) = <<>> /\ Append(<<>>, Body(n)) = <<Body(n)>>
        /\ Tail(<<Header(n), Body(n)>>) = <<Body(n)>>
    <3>1. Header(n) \in Units
      BY <1>2, <1>1, <1>3, Lengths DEF Types
    <3> QED BY <1>3, <3>1, Tuples
  <2>5. phase' \in Early => buffer' \o wire' = Unanswered'
    <3>1. phase' \in Early => buffer \o wire = <<Header(n)>>
      BY <1>1, <2>1, <2>3 DEF Framing, server
    <3> QED BY <1>5, <2>3, <2>4, <3>1
  <2>6. phase' = "body" => genBuffer' \o wire' = Tail(Unanswered')
    <3>1. phase' = "body" => genBuffer \o wire = <<>>
      BY <1>1, <2>1, <2>3, <2>4 DEF Framing, server
    <3> QED BY <1>5, <2>3, <2>4, <3>1
  <2> QED BY <1>1, <2>2, <2>5, <2>6 DEF Framing, server
<1> QED BY <1>6, <1>7, <1>8, <1>9, <1>10 DEF IInv

\* A TLS handshake without a TLS context reaches the connection as bytes that
\* are no header.
LEMMA OnDetectInv ==
  ASSUME IInv, OnDetect
  PROVE  IInv'
<1>1. /\ phase = "detecting"
      /\ UNCHANGED <<genBuffer, current, response, answered, skipped, setup, client>>
  BY DEF OnDetect
<1>2. Booleans /\ Types /\ Handling /\ Ordered /\ Rising /\ Waiting /\ Framed
  BY DEF IInv
<1>3. CASE StartTls /\ ghost' = "reading" /\ UNCHANGED buffer
  <2>1. /\ isTls' \in BOOLEAN /\ tlsCtx /\ armed' \in BOOLEAN /\ phase' = "handshaking"
    BY <1>1, <1>3 DEF StartTls, OnDetect, DoRead, ClientHello
  <2> QED BY <1>1, <1>2, <1>3, <2>1, QuietInv DEF Booleans, Early, setup, client
<1>4. CASE DoRead /\ UNCHANGED <<isTls, ghost, buffer>>
  <2>1. /\ armed' \in BOOLEAN /\ phase' = "reading"
    BY <1>4 DEF DoRead
  <2> QED BY <1>1, <1>2, <1>4, <2>1, QuietInv DEF Booleans, Types, Early, setup, client
<1>5. CASE tlsClient /\ ~tlsCtx /\ DoRead /\ buffer' = <<ClientHello>> /\ UNCHANGED <<isTls, ghost>>
  <2> DEFINE t == <<ClientHello>> \o wire
  <2>1. armed' = TRUE /\ phase' = "reading" /\ wire' = wire
    BY <1>1, <1>5 DEF DoRead, client
  <2>2. ClientHello \in Units /\ wire \in Seq(Units) /\ buffer \in Seq(Units) /\ Len(wire) \in Nat
    BY <1>2, LenProperties DEF Types, Units
  <2>3. <<ClientHello>> \in Seq(Units) /\ <<ClientHello>>[1] = ClientHello /\ Len(<<ClientHello>>) = 1
    BY <2>2
  <2>4. Booleans'
    BY <1>1, <1>2, <1>5, <2>1 DEF Booleans, setup, client
  <2>5. Types'
    BY <1>1, <1>2, <1>5, <2>1, <2>3 DEF Types, Early, setup, client
  <2>6. Handling' /\ Waiting' /\ Rising'
    BY <1>1, <1>2, <1>5, <2>1 DEF Handling, Waiting, Rising, Low, Early, client, setup
  <2>7. Ordered'
    <3>1. answered = <<>> /\ current = 0
      BY <1>1, <1>2 DEF Handling, Early
    <3>2. Low = 0 /\ Len(reqs) \in Nat /\ Sorted(buffer \o wire, 0, Len(reqs))
      BY <1>2, <3>1, Lengths DEF Ordered, Low
    <3>3. Sorted(wire, 0, Len(reqs))
      BY <2>2, <3>2, SortedRest
    <3>4. /\ DOMAIN t = 1..(1 + Len(wire)) /\ DOMAIN wire = 1..Len(wire)
          /\ t[1] = ClientHello
          /\ \A i \in 1..(1 + Len(wire)) : i # 1 => t[i] = wire[i - 1]
      <4>1. /\ t \in Seq(Units) /\ Len(t) = 1 + Len(wire)
            /\ \A i \in 1..(1 + Len(wire)) : t[i] = IF i <= 1 THEN <<ClientHello>>[i] ELSE wire[i - 1]
        BY <2>2, <2>3, ConcatProperties
      <4>2. DOMAIN t = 1..(1 + Len(wire)) /\ DOMAIN wire = 1..Len(wire)
        BY <2>2, <4>1, LenProperties
      <4> QED BY <2>2, <2>3, <4>1, <4>2
    <3> HIDE DEF t
    <3>5. ASSUME NEW i \in DOMAIN t
          PROVE  \/ i = 1 /\ t[i][2] = 0
                 \/ i - 1 \in DOMAIN wire /\ t[i] = wire[i - 1] /\ t[i][2] \in Nat
      <4>1. CASE i = 1
        BY <3>4, <4>1, UnitNumbers
      <4>2. CASE i # 1
        <5>1. i - 1 \in 1..Len(wire) /\ t[i] = wire[i - 1]
          BY <2>2, <3>4, <4>2
        <5>2. wire[i - 1] \in Units
          BY <2>2, <5>1, ElementOfSeq
        <5> QED BY <3>4, <5>1, <5>2, UnitNumbers
      <4> QED BY <4>1, <4>2
    <3>6. \A i \in DOMAIN t : 0 <= t[i][2] /\ t[i][2] <= Len(reqs)
      BY <3>2, <3>3, <3>5 DEF Sorted
    <3>7. ASSUME NEW i \in DOMAIN t, NEW j \in DOMAIN t, i < j PROVE t[i][2] <= t[j][2]
      <4>1. CASE i = 1
        <5>1. t[i][2] = 0
          BY <3>4, <4>1, UnitNumbers
        <5>2. t[j][2] \in Nat
          BY <3>5
        <5> QED BY <5>1, <5>2
      <4>2. CASE i # 1
        <5>1. i \in 1..(1 + Len(wire)) /\ j \in 1..(1 + Len(wire)) /\ j # 1
          BY <2>2, <3>4, <3>7, <4>2
        <5>2. i - 1 \in DOMAIN wire /\ j - 1 \in DOMAIN wire /\ i - 1 < j - 1
          BY <2>2, <3>4, <3>7, <4>2, <5>1
        <5>3. t[i] = wire[i - 1] /\ t[j] = wire[j - 1]
          BY <3>4, <4>2, <5>1
        <5> QED BY <3>3, <5>2, <5>3 DEF Sorted
      <4> QED BY <4>1, <4>2
    <3>8. Sorted(t, 0, Len(reqs))
      BY <3>6, <3>7 DEF Sorted
    <3>9. buffer' \o wire' = t /\ Low' = Low /\ reqs' = reqs
      BY <1>1, <1>5, <2>1 DEF t, Low, client
    <3> QED BY <3>2, <3>8, <3>9 DEF Ordered
  <2>8. Framed'
    BY <1>1, <1>5 DEF Framed, setup
  <2> QED BY <2>4, <2>5, <2>6, <2>7, <2>8 DEF IInv
<1> QED BY <1>3, <1>4, <1>5 DEF OnDetect

LEMMA ReceiveInv ==
  ASSUME IInv, Receive
  PROVE  IInv'
<1>1. PICK k \in 1..Len(wire) :
        /\ wire' = SubSeq(wire, k + 1, Len(wire))
        /\ \/ /\ phase \in {"detecting", "reading"} /\ buffer = <<>>
              /\ buffer' = SubSeq(wire, 1, k)
              /\ UNCHANGED genBuffer
           \/ /\ phase = "body" /\ genBuffer = <<>>
              /\ genBuffer' = SubSeq(wire, 1, k)
              /\ UNCHANGED buffer
  BY DEF Receive
<1>2. UNCHANGED <<phase, isTls, ghost, armed, current, response, answered, skipped,
                  setup, reqs, owed, pipelined, eof>>
  BY DEF Receive
<1>3. Booleans /\ Types /\ Handling /\ Ordered /\ Rising /\ Waiting /\ Framed
  BY DEF IInv
<1>4. wire \in Seq(Units) /\ buffer \in Seq(Units) /\ genBuffer \in Seq(Units)
  BY <1>3 DEF Types
<1>5. /\ SubSeq(wire, 1, k) \in Seq(Units) /\ wire' \in Seq(Units)
      /\ SubSeq(wire, 1, k) \o wire' = wire
      /\ <<>> \o wire = wire /\ <<>> \o wire' = wire'
  BY <1>1, <1>4, Divided, ConcatEmptySeq
<1>6. Booleans'
  BY <1>2, <1>3 DEF Booleans, setup
<1>7. Types'
  <2>1. buffer' \in Seq(Units) /\ genBuffer' \in Seq(Units)
    BY <1>1, <1>4, <1>5
  <2> QED BY <1>2, <1>3, <1>5, <2>1 DEF Types
<1>8. Waiting' /\ Rising' /\ Low' = Low /\ Unanswered' = Unanswered
  BY <1>2, <1>3 DEF Waiting, Rising, Low, Unanswered
<1>9. CASE phase \in {"detecting", "reading"} /\ buffer = <<>> /\ buffer' = SubSeq(wire, 1, k) /\ UNCHANGED genBuffer
  <2>1. buffer' \o wire' = buffer \o wire
    BY <1>5, <1>9
  <2>2. Handling' /\ Ordered'
    BY <1>2, <1>3, <1>8, <1>9, <2>1 DEF Handling, Ordered, Early, setup
  <2>3. Framed'
    BY <1>2, <1>3, <1>8, <1>9, <2>1 DEF Framed, Framing, setup, Early
  <2> QED BY <1>6, <1>7, <1>8, <2>2, <2>3 DEF IInv
<1>10. CASE phase = "body" /\ genBuffer = <<>> /\ genBuffer' = SubSeq(wire, 1, k) /\ UNCHANGED buffer
  <2>1. buffer = <<>>
    BY <1>3, <1>10 DEF Handling
  <2>2. Handling'
    BY <1>2, <1>3, <1>10 DEF Handling, setup
  <2>3. Ordered'
    <3>1. Low \in Nat /\ Len(reqs) \in Nat /\ Sorted(wire, Low, Len(reqs))
      BY <1>3, <1>5, <2>1, Lengths DEF Ordered
    <3>2. Sorted(SubSeq(wire, 1, k) \o wire', Low, Len(reqs))
      BY <1>5, <3>1
    <3>3. Sorted(wire', Low, Len(reqs))
      BY ONLY <1>5, <3>1, <3>2, SortedRest
    <3> QED BY <1>2, <1>5, <1>8, <1>10, <2>1, <3>3 DEF Ordered
  <2>4. genBuffer' \o wire' = genBuffer \o wire
    BY <1>5, <1>10
  <2>5. Framed'
    BY <1>2, <1>3, <1>8, <1>10, <2>4 DEF Framed, Framing, setup, Early
  <2> QED BY <1>6, <1>7, <1>8, <2>2, <2>3, <2>5 DEF IInv
<1> QED BY <1>1, <1>9, <1>10

\* The header at the front is that of a later request, and what comes after it
\* goes to the generator.
LEMMA OnReadInv ==
  ASSUME IInv, OnRead
  PROVE  IInv'
<1> DEFINE n == Len(reqs)
<1>1. PICK i \in 1..n :
        /\ Head(buffer) = Header(i)
        /\ Generate(i)
        /\ \/ /\ reqs[i].kind = "page"
              /\ phase' = "body"
              /\ UNCHANGED <<armed, response, skipped>>
           \/ /\ reqs[i].kind = "direct"
              /\ DoWrite(i)
              /\ skipped' = (skipped \/ HasBody(reqs[i]))
              /\ UNCHANGED armed
           \/ /\ reqs[i].kind \in {"upgrade", "upgrade_unrouted"}
              /\ Upgrade(reqs[i].kind = "upgrade")
  BY DEF OnRead
<1>2. /\ phase = "reading" /\ buffer # <<>>
      /\ current' = i /\ genBuffer' = Tail(buffer) /\ buffer' = <<>>
      /\ UNCHANGED <<isTls, ghost, answered, setup, client>>
  BY <1>1 DEF OnRead, Generate
<1>3. Booleans /\ Types /\ Handling /\ Ordered /\ Rising /\ Waiting /\ Framed
  BY DEF IInv
<1>4. /\ n \in Nat /\ n <= MaxRequests /\ Len(answered) \in Nat
      /\ reqs[i] \in Request /\ HasBody(reqs[i]) \in BOOLEAN
      /\ Header(n) \in Units /\ Body(n) \in Units
      /\ wire \in Seq(Units) /\ buffer \in Seq(Units) /\ buffer \o wire \in Seq(Units)
  <2>1. n \in Nat /\ n <= MaxRequests /\ Len(answered) \in Nat
    BY <1>3, Lengths DEF Types
  <2>2. n \in 1..Len(reqs)
    BY <2>1
  <2> QED BY <1>3, <2>1, <2>2, Lengths, RequestTypes DEF Types
<1>5. current = 0 /\ Low' = i /\ i \in Nat /\ i # 0
  BY <1>2, <1>3, <1>4 DEF Handling, Low, Early
<1>6. Low <= i /\ Sorted(wire, i, n)
  BY <1>1, <1>2, <1>3, <1>4, Lengths, SortedRest, UnitNumbers DEF Ordered
<1>7. /\ Tail(buffer) \in Seq(Units)
      /\ buffer \o wire # <<>>
      /\ Tail(buffer \o wire) = Tail(buffer) \o wire
      /\ buffer' \o wire' = wire
  <2>1. <<>> \o wire = wire
    BY <1>4, ConcatEmptySeq
  <2>2. wire' = wire
    BY <1>2 DEF client
  <2>3. Tail(buffer) \in Seq(Units)
    BY <1>2, <1>4, HeadTailProperties
  <2> QED BY <1>2, <1>4, <2>1, <2>2, <2>3, TailConcat
<1>8. /\ phase' \in {"body", "writing", "upgraded", "dropped"}
      /\ phase' = "writing" => response' = i /\ reqs[i].kind = "direct"
      /\ response' = response \/ response' = i
  BY <1>1 DEF DoWrite, Upgrade
<1>9. armed' \in BOOLEAN
  BY <1>1, <1>3 DEF Upgrade, Booleans
<1>10. skipped' = skipped \/ skipped' = (skipped \/ HasBody(reqs[i]))
  BY <1>1 DEF Upgrade
<1>11. phase' = "writing" => skipped' = (skipped \/ HasBody(reqs[i]))
  BY <1>1 DEF Upgrade
<1>12. Booleans'
  <2>1. skipped' \in BOOLEAN
    BY <1>3, <1>4, <1>10 DEF Booleans
  <2> QED BY <1>2, <1>3, <1>9, <2>1 DEF Booleans, setup, client
<1>13. Types'
  <2>1. phase' \in Over \cup Early \cup {"body", "writing"}
    BY <1>8 DEF Over
  <2>2. response' \in 0..MaxRequests
    BY <1>3, <1>4, <1>8, MaxRequestsAssumption DEF Types
  <2>3. buffer' \in Seq(Units) /\ genBuffer' \in Seq(Units)
    BY <1>2, <1>7
  <2>4. /\ ghost' \in {"none", "reading", "dropped"} /\ wire' \in Seq(Units)
        /\ answered' \in Seq(1..MaxRequests)
        /\ reqs' \in Seq(Request) /\ Len(reqs') <= MaxRequests
        /\ owed' => Len(reqs') # 0 /\ HasBody(reqs'[Len(reqs')])
    BY <1>2, <1>3 DEF Types, client
  <2> QED BY <2>1, <2>2, <2>3, <2>4 DEF Types
<1>14. Handling'
  <2>1. current' \in 0..Len(reqs') /\ current' # 0
    BY <1>2, <1>4, <1>5 DEF client
  <2>2. UNCHANGED <<answered, isTls, tlsClient, tlsCtx, reqs>> /\ phase' \notin Early
    BY <1>2, <1>8 DEF client, setup, Early
  <2> QED BY <1>2, <1>3, <1>8, <2>1, <2>2 DEF Handling, Early
<1>15. Ordered' /\ Rising'
  <2>1. reqs' = reqs /\ answered' = answered
    BY <1>2 DEF client
  <2>2. \A k \in DOMAIN answered : answered[k] \in Nat /\ answered[k] <= Low
    BY <1>3, ElementOfSeq, LenProperties, MaxRequestsAssumption DEF Types, Rising
  <2>3. Low \in Nat
    BY <1>3, Lengths
  <2>4. \A k \in DOMAIN answered : answered[k] <= i
    BY <1>5, <1>6, <2>2, <2>3
  <2>5. Ordered'
    BY <1>5, <1>6, <1>7, <2>1 DEF Ordered
  <2> QED BY <1>3, <1>5, <2>1, <2>4, <2>5 DEF Rising
<1>16. ~pipelined' /\ ~skipped' => ~pipelined /\ ~skipped /\ i = n /\ n # Len(answered) /\ n = Len(answered) + 1
                                   /\ Framing /\ (phase' = "writing" => ~HasBody(reqs[i]))
  <2> SUFFICES ASSUME ~pipelined', ~skipped'
               PROVE  ~pipelined /\ ~skipped /\ i = n /\ n # Len(answered) /\ n = Len(answered) + 1
                      /\ Framing /\ (phase' = "writing" => ~HasBody(reqs[i]))
    OBVIOUS
  <2>1. ~skipped /\ (phase' = "writing" => ~HasBody(reqs[i]))
    <3> DEFINE rest == HasBody(reqs[i])
               after == skipped'
    <3>1. /\ ~after /\ (after = skipped \/ after = (skipped \/ rest))
          /\ phase' = "writing" => after = (skipped \/ rest)
      BY <1>10, <1>11
    <3>2. skipped \in BOOLEAN /\ rest \in BOOLEAN
      BY <1>3, <1>4 DEF Booleans
    <3> HIDE DEF rest, after
    <3>3. ~skipped /\ (phase' = "writing" => ~rest)
      BY <3>1, <3>2
    <3> QED BY <3>3 DEF rest
  <2>2. ~pipelined
    BY <1>2 DEF client
  <2>3. tlsClient => tlsCtx
    BY <1>3, <1>4 DEF Handling
  <2>4. Framing
    BY <1>3, <2>1, <2>2, <2>3 DEF Framed
  <2>5. buffer \o wire = Unanswered
    BY <1>2, <2>4 DEF Framing, Early
  <2>6. n # Len(answered)
    BY <1>7, <2>5 DEF Unanswered
  <2>7. n = Len(answered) + 1
    BY <1>3, <1>4, <2>1, <2>2, <2>6 DEF Waiting
  <2>8. i = n
    <3>1. Head(Unanswered) = Header(n)
      BY <1>4, <2>6, Tuples DEF Unanswered
    <3>2. Head(buffer) = Header(n)
      BY <1>2, <1>4, <2>5, <3>1, TailConcat
    <3> QED BY <1>1, <3>2 DEF Header
  <2> QED BY <2>1, <2>2, <2>4, <2>6, <2>7, <2>8
<1>18. Waiting'
  <2> SUFFICES ASSUME ~pipelined', ~skipped' PROVE
                 /\ Len(answered) <= Len(reqs) /\ Len(reqs) <= Len(answered) + 1
                 /\ i # 0 => Len(answered) < i
                 /\ \A k \in DOMAIN answered : answered[k] = k
    BY <1>2 DEF Waiting, client
  <2> QED BY <1>3, <1>4, <1>16 DEF Waiting
<1>17. Framed'
  <2> SUFFICES ASSUME ~pipelined, ~skipped', tlsClient => tlsCtx PROVE Framing'
    BY <1>2 DEF Framed, client, setup
  <2>1. ~skipped /\ (phase' = "writing" => ~HasBody(reqs[i])) /\ Framing /\ n # Len(answered) /\ i = n
    BY <1>2, <1>16 DEF client
  <2>3. buffer \o wire = Unanswered
    BY <1>2, <2>1 DEF Framing, Early
  <2>6. Unanswered' = Unanswered
    BY <1>2 DEF Unanswered, client
  <2>7. genBuffer' \o wire' = Tail(Unanswered')
    BY <1>2, <1>7, <2>3, <2>6 DEF client
  <2>8. phase' = "writing" => wire' = <<>> /\ ~owed'
    <3> SUFFICES ASSUME phase' = "writing" PROVE wire = <<>> /\ ~owed
      BY <1>2 DEF client
    <3>1. ~HasBody(reqs[n])
      BY <2>1
    <3>2. ~owed
      BY <1>3, <3>1 DEF Types
    <3>3. Unanswered = <<Header(n)>>
      BY <2>1, <3>1 DEF Unanswered
    <3>4. Tail(buffer) \o wire = <<>>
      BY <1>4, <1>7, <2>3, <3>3, Tuples
    <3> QED BY <1>4, <1>7, <3>2, <3>4, ConcatProperties, LenProperties, EmptySeq
  <2>9. owed' => Len(reqs') # Len(answered')
    BY <1>2, <2>1 DEF client
  <2> QED BY <1>8, <2>7, <2>8, <2>9 DEF Framing, Early
<1> QED BY <1>12, <1>13, <1>14, <1>15, <1>18, <1>17 DEF IInv

\* A body is taken for a request only if one was left unread, or something was
\* read ahead and lost.
LEMMA OnReadBodyInv ==
  ASSUME IInv, OnReadBody
  PROVE  IInv'
<1> DEFINE n == Len(reqs)
<1>1. PICK i \in 1..n : Head(buffer) = Body(i) /\ Generate(i) /\ DoWrite(i)
  BY DEF OnReadBody, ParsedBody
<1>2. /\ phase = "reading" /\ buffer # <<>> /\ phase' = "writing" /\ response' = i
      /\ current' = i /\ genBuffer' = Tail(buffer) /\ buffer' = <<>>
      /\ UNCHANGED <<isTls, ghost, armed, answered, skipped, setup, client>>
  BY <1>1 DEF OnReadBody, Generate, DoWrite
<1>3. Booleans /\ Types /\ Handling /\ Ordered /\ Rising /\ Waiting /\ Framed
  BY DEF IInv
<1>4. /\ n \in Nat /\ n <= MaxRequests /\ Len(answered) \in Nat
      /\ Header(n) \in Units /\ Body(n) \in Units
      /\ wire \in Seq(Units) /\ buffer \in Seq(Units) /\ buffer \o wire \in Seq(Units)
      /\ Low \in Nat
  <2>1. n \in Nat /\ n <= MaxRequests /\ Len(answered) \in Nat
    BY <1>3, Lengths DEF Types
  <2>2. n \in 1..Len(reqs)
    BY <2>1
  <2> QED BY <1>3, <2>1, <2>2, Lengths DEF Types
<1>5. Low' = i /\ i \in Nat /\ i # 0
  BY <1>2, <1>4 DEF Low
<1>6. Low <= i /\ Sorted(wire, i, n)
  BY <1>1, <1>2, <1>3, <1>4, SortedRest, UnitNumbers DEF Ordered
<1>7. /\ Tail(buffer) \in Seq(Units)
      /\ Head(buffer \o wire) = Head(buffer) /\ buffer \o wire # <<>>
      /\ buffer' \o wire' = wire
  <2>1. <<>> \o wire = wire /\ wire' = wire
    BY <1>2, <1>4, ConcatEmptySeq DEF client
  <2>2. Tail(buffer) \in Seq(Units)
    BY <1>2, <1>4, HeadTailProperties
  <2> QED BY <1>2, <1>4, <2>1, <2>2, TailConcat
<1>8. pipelined \/ skipped
  <2> SUFFICES ASSUME ~pipelined, ~skipped PROVE FALSE
    OBVIOUS
  <2>1. tlsClient => tlsCtx
    BY <1>3, <1>4 DEF Handling
  <2>2. buffer \o wire = Unanswered
    BY <1>2, <1>3, <2>1 DEF Framed, Framing, Early
  <2>3. Head(Unanswered) = Header(n)
    BY <1>4, <1>7, <2>2, Tuples DEF Unanswered
  <2> QED BY <1>1, <1>7, <2>2, <2>3 DEF Header, Body
<1>9. Booleans'
  BY <1>2, <1>3 DEF Booleans, setup, client
<1>10. Types'
  <2>1. response' \in 0..MaxRequests
    BY <1>2, <1>4, MaxRequestsAssumption
  <2> QED BY <1>2, <1>3, <1>7, <2>1 DEF Types, client
<1>11. Handling'
  <2>1. current' \in 0..Len(reqs') /\ current' # 0
    BY <1>2, <1>4, <1>5 DEF client
  <2> QED BY <1>2, <1>3, <2>1 DEF Handling, Early, client, setup
<1>12. Ordered' /\ Rising'
  <2>1. reqs' = reqs /\ answered' = answered
    BY <1>2 DEF client
  <2>2. \A k \in DOMAIN answered : answered[k] \in Nat /\ answered[k] <= Low
    BY <1>3, ElementOfSeq, LenProperties, MaxRequestsAssumption DEF Types, Rising
  <2>3. \A k \in DOMAIN answered : answered[k] <= i
    BY <1>4, <1>5, <1>6, <2>2
  <2>4. Ordered'
    BY <1>5, <1>6, <1>7, <2>1 DEF Ordered
  <2> QED BY <1>3, <1>5, <2>1, <2>3, <2>4 DEF Rising
<1>13. Waiting' /\ Framed'
  BY <1>2, <1>8 DEF Waiting, Framed, client
<1> QED BY <1>9, <1>10, <1>11, <1>12, <1>13 DEF IInv

LEMMA OnBodyInv ==
  ASSUME IInv, OnBody
  PROVE  IInv'
<1> DEFINE n == Len(reqs)
<1>1. /\ phase = "body" /\ phase' = "writing" /\ response' = current
      /\ UNCHANGED <<isTls, ghost, armed, buffer, current, answered, skipped, setup, client>>
      /\ \/ ~HasBody(reqs[current]) /\ UNCHANGED genBuffer
         \/ HasBody(reqs[current]) /\ genBuffer # <<>> /\ genBuffer' = Tail(genBuffer)
  BY DEF OnBody, DoWrite
<1>2. Booleans /\ Types /\ Handling /\ Ordered /\ Rising /\ Waiting /\ Framed
  BY DEF IInv
<1>3. /\ n \in Nat /\ n <= MaxRequests /\ Len(answered) \in Nat
      /\ current \in 1..n
      /\ genBuffer \in Seq(Units) /\ wire \in Seq(Units)
  BY <1>1, <1>2, Lengths DEF Types, Handling
<1>4. Booleans'
  BY <1>1, <1>2 DEF Booleans, setup, client
<1>5. Types'
  <2>1. genBuffer' \in Seq(Units)
    BY <1>1, <1>3, HeadTailProperties
  <2>2. response' \in 0..MaxRequests
    BY <1>1, <1>3, MaxRequestsAssumption
  <2> QED BY <1>1, <1>2, <2>1, <2>2 DEF Types, client
<1>6. Handling'
  BY <1>1, <1>2 DEF Handling, client, setup, Early
<1>7. Ordered' /\ Rising' /\ Waiting' /\ Unanswered' = Unanswered
  BY <1>1, <1>2 DEF Ordered, Rising, Low, Waiting, Unanswered, client
<1>8. Framed'
  <2> SUFFICES ASSUME ~pipelined, ~skipped, tlsClient => tlsCtx PROVE Framing'
    BY <1>1 DEF Framed, client, setup
  <2>1. /\ genBuffer \o wire = Tail(Unanswered)
        /\ owed => n # Len(answered)
    BY <1>1, <1>2 DEF Framed, Framing
  <2>2. current = n /\ n # Len(answered)
    BY <1>2, <1>3 DEF Waiting
  <2>3. Header(n) \in Units /\ Body(n) \in Units
    <3>1. n \in 1..Len(reqs)
      BY <1>3
    <3> QED BY <1>2, <3>1, Lengths
  <2>4. Len(genBuffer \o wire) = Len(genBuffer) + Len(wire) /\ Len(genBuffer) \in Nat /\ Len(wire) \in Nat
    BY <1>3, ConcatProperties, LenProperties
  <2>5. CASE owed \/ ~HasBody(reqs[n])
    <3>1. genBuffer \o wire = <<>>
      BY <2>1, <2>2, <2>3, <2>5, Tuples DEF Unanswered
    <3>2. genBuffer = <<>> /\ wire = <<>>
      BY <1>3, <2>4, <3>1, EmptySeq
    <3>3. ~HasBody(reqs[n])
      BY <1>1, <2>2, <3>2
    <3>4. ~owed
      BY <1>2, <3>3 DEF Types
    <3> QED BY <1>1, <3>2, <3>4 DEF Framing, client, Early
  <2>6. CASE ~owed /\ HasBody(reqs[n])
    <3>1. Len(genBuffer \o wire) = 1
      <4>1. Unanswered = <<Header(n), Body(n)>>
        BY <2>2, <2>6 DEF Unanswered
      <4> QED BY <2>1, <2>3, <4>1, Tuples
    <3>2. genBuffer # <<>>
      BY <1>1, <2>2, <2>6
    <3>3. Len(genBuffer) # 0
      BY <1>3, <3>2, EmptySeq
    <3>4. wire = <<>>
      BY <1>3, <2>4, <3>1, <3>3, EmptySeq
    <3> QED BY <1>1, <2>6, <3>4 DEF Framing, client, Early
  <2> QED BY <2>5, <2>6
<1> QED BY <1>4, <1>5, <1>6, <1>7, <1>8 DEF IInv

LEMMA OnWriteInv ==
  ASSUME IInv, OnWrite
  PROVE  IInv'
<1> DEFINE n == Len(reqs)
           a == Len(answered)
<1>1. /\ phase = "writing"
      /\ answered' = Append(answered, response)
      /\ genBuffer' = <<>> /\ current' = 0
      /\ UNCHANGED <<isTls, ghost, buffer, skipped, setup, client>>
      /\ phase' \in {"reading", "closed", "shutdown"}
      /\ response' = response \/ response' = 0
      /\ armed' = armed \/ armed' = TRUE
  BY DEF OnWrite, DoClose, CloseTls, ClosePlain, DoRead
<1>2. Booleans /\ Types /\ Handling /\ Ordered /\ Rising /\ Waiting /\ Framed
  BY DEF IInv
<1>3. /\ n \in Nat /\ n <= MaxRequests /\ a \in Nat
      /\ current \in 1..n /\ response = current /\ buffer = <<>>
      /\ buffer \in Seq(Units) /\ wire \in Seq(Units)
  BY <1>1, <1>2, Lengths DEF Types, Handling
<1>4. response \in 1..MaxRequests
  BY <1>3, MaxRequestsAssumption
<1>5. /\ answered' \in Seq(1..MaxRequests) /\ Len(answered') = a + 1
      /\ \A k \in 1..a : answered'[k] = answered[k]
      /\ answered'[a + 1] = current
      /\ DOMAIN answered' = 1..(a + 1) /\ DOMAIN answered = 1..a
  <2>1. answered \in Seq(1..MaxRequests)
    BY <1>2 DEF Types
  <2>2. /\ answered' \in Seq(1..MaxRequests) /\ Len(answered') = a + 1
        /\ \A k \in 1..a : answered'[k] = answered[k]
        /\ answered'[a + 1] = current
    BY <1>1, <1>3, <1>4, <2>1, AppendProperties
  <2>3. DOMAIN answered' = 1..(a + 1) /\ DOMAIN answered = 1..a
    BY <2>1, <2>2, LenProperties
  <2> QED BY <2>2, <2>3
<1>6. Booleans'
  BY <1>1, <1>2 DEF Booleans, setup, client
<1>7. Types'
  <2>2. response' \in 0..MaxRequests
    BY <1>1, <1>4, MaxRequestsAssumption
  <2>3. genBuffer' \in Seq(Units)
    BY <1>1
  <2>4. phase' \in Over \cup Early \cup {"body", "writing"}
    BY <1>1 DEF Over, Early
  <2> QED BY <1>1, <1>2, <1>5, <2>2, <2>3, <2>4 DEF Types, client
\* What was answered last is what was handled.
<1>8. Low = current /\ Low' = current
  <2>1. answered' # <<>>
    BY <1>3, <1>5
  <2> QED BY <1>1, <1>3, <1>5, <2>1 DEF Low
<1>9. Handling'
  <2>1. current' \in 0..Len(reqs')
    BY <1>1, <1>3 DEF client
  <2>2. \A k \in DOMAIN answered' : answered'[k] <= Len(reqs')
    <3>1. \A k \in 1..a : answered[k] <= n
      BY <1>2, <1>5 DEF Handling
    <3> QED BY <1>1, <1>3, <1>5, <3>1 DEF client
  <2> QED BY <1>1, <1>2, <2>1, <2>2 DEF Handling, setup, client
<1>10. Ordered'
  <2>1. buffer' \o wire' = buffer \o wire /\ reqs' = reqs
    BY <1>1 DEF client
  <2> QED BY <1>2, <1>8, <2>1 DEF Ordered
<1>11. Rising'
  <2>1. \A k \in 1..a : answered[k] <= current
    BY <1>2, <1>5, <1>8 DEF Rising
  <2>2. \A k \in DOMAIN answered' : answered'[k] <= current
    BY <1>3, <1>5, <2>1
  <2>3. ASSUME NEW j \in DOMAIN answered', NEW k \in DOMAIN answered', j < k
        PROVE  answered'[j] <= answered'[k]
    <3>1. CASE k \in 1..a
      BY <1>2, <1>3, <1>5, <2>3, <3>1 DEF Rising
    <3>2. CASE k = a + 1
      BY <1>5, <2>2, <3>2
    <3> QED BY <1>3, <1>5, <3>1, <3>2
  <2> QED BY <1>8, <2>2, <2>3 DEF Rising
<1>12. ~pipelined /\ ~skipped => n = a + 1 /\ current = n
  BY <1>2, <1>3 DEF Waiting
<1>13. Waiting'
  <2> SUFFICES ASSUME ~pipelined, ~skipped PROVE
                 /\ Len(answered') <= n /\ n <= Len(answered') + 1
                 /\ \A k \in DOMAIN answered' : answered'[k] = k
    BY <1>1 DEF Waiting, client
  <2> QED BY <1>2, <1>3, <1>5, <1>12 DEF Waiting
<1>14. Framed'
  <2> SUFFICES ASSUME ~pipelined, ~skipped, tlsClient => tlsCtx PROVE Framing'
    BY <1>1 DEF Framed, client, setup
  <2>1. wire = <<>> /\ ~owed
    BY <1>1, <1>2 DEF Framed, Framing
  <2>2. Unanswered' = <<>>
    BY <1>1, <1>3, <1>5, <1>12 DEF Unanswered, client
  <2>3. buffer' \o wire' = <<>>
    BY <1>1, <1>3, <2>1, ConcatEmptySeq DEF client
  <2> QED BY <1>1, <2>1, <2>2, <2>3 DEF Framing, client
<1> QED BY <1>6, <1>7, <1>9, <1>10, <1>11, <1>13, <1>14 DEF IInv

LEMMA NextInv ==
  ASSUME IInv, [Next]_vars
  PROVE  IInv'
<1>1. Booleans /\ Types
  BY DEF IInv
<1>2. CASE ClientSend
  BY <1>2, ClientSendInv
<1>3. CASE ClientSendBody
  BY <1>3, ClientSendBodyInv
<1>4. CASE Receive
  BY <1>4, ReceiveInv
<1>5. CASE OnDetect
  BY <1>5, OnDetectInv
<1>6. CASE OnRead
  BY <1>6, OnReadInv
<1>18. CASE OnReadBody
  BY <1>18, OnReadBodyInv
<1>7. CASE OnBody
  BY <1>7, OnBodyInv
<1>8. CASE OnWrite
  BY <1>8, OnWriteInv
<1>9. CASE ClientEof
  BY <1>1, <1>9, QuietInv DEF ClientEof, setup, server, Booleans, Types
<1>10. CASE Fail
  BY <1>1, <1>10, QuietInv DEF Fail, setup, client, Booleans, Types, Over
<1>11. CASE GhostRead
  BY <1>1, <1>11, QuietInv DEF GhostRead, setup, client, Booleans
<1>12. CASE OnHandshake
  BY <1>1, <1>12, QuietInv DEF OnHandshake, DoRead, setup, client, Booleans, Types, Over, Early
<1>13. CASE OnReadGarbage
  BY <1>1, <1>13, QuietInv DEF OnReadGarbage, setup, client, Booleans, Types, Over
<1>14. CASE OnReadEof
  BY <1>1, <1>14, QuietInv DEF OnReadEof, DoClose, CloseTls, ClosePlain, setup, client, Booleans, Types, Over
<1>15. CASE OnShutdown
  BY <1>1, <1>15, QuietInv DEF OnShutdown, setup, client, Booleans, Types, Over
<1>16. CASE OnTimeout
  BY <1>1, <1>16, QuietInv DEF OnTimeout, DoClose, CloseTls, ClosePlain, setup, client, Booleans, Types, Over
<1>17. CASE UNCHANGED vars
  BY <1>1, <1>17, QuietInv DEF vars, setup, server, client, Booleans, Types
<1> QED BY <1>2, <1>3, <1>4, <1>5, <1>6, <1>7, <1>8, <1>9, <1>10, <1>11, <1>12, <1>13, <1>14, <1>15,
           <1>16, <1>17, <1>18 DEF Next, Network, Server

-----------------------------------------------------------------------------
(* The results.                                                            *)

\* The inductive invariant holds in every reachable state.
THEOREM Invariance == Spec => []IInv
<1>1. Init => IInv
  BY InitInv
<1>2. IInv /\ [Next]_vars => IInv'
  BY NextInv
<1> QED BY <1>1, <1>2, PTL DEF Spec

\* Every variable has its type, and a request is being handled while its body
\* is read or its response is written.
THEOREM TypeCorrect == Spec => []TypeInv
<1>1. IInv => TypeInv
  <2> SUFFICES ASSUME IInv PROVE TypeInv
    OBVIOUS
  <2>1. Booleans /\ Types /\ Handling
    BY DEF IInv
  <2>2. current \in 0..MaxRequests
    BY <2>1, Lengths, MaxRequestsAssumption DEF Types, Handling
  <2>3. phase \in {"body", "writing"} => current # 0
    BY <2>1 DEF Handling
  <2>4. phase \in {"detecting", "handshaking", "reading"} => current = 0
    BY <2>1 DEF Handling, Early
  <2>5. phase \in Over \cup {"detecting", "handshaking", "reading", "body", "writing"}
    BY <2>1 DEF Types, Early
  <2> QED BY <2>1, <2>2, <2>3, <2>4, <2>5 DEF TypeInv, Booleans, Types
<1> QED BY <1>1, Invariance, PTL

\* m_response stays alive until it is written, and nothing is read meanwhile:
\* the argument of connection.hpp:206-208 for a single m_response.
THEOREM HalfDuplex == Spec => []OneResponse
<1>1. IInv => OneResponse
  BY DEF IInv, Handling, Rising, Low, OneResponse
<1> QED BY <1>1, Invariance, PTL

\* Whatever the client does and the server leaves unread, no answer overtakes
\* another; and however many requests a client sends that waits for its answers,
\* of a server that reads its bodies, it gets one answer for each.
THEOREM InOrder == Spec => []AnswersInOrder
<1>1. IInv => AnswersInOrder
  BY DEF IInv, Rising, Waiting, AnswersInOrder
<1> QED BY <1>1, Invariance, PTL

\* A waiting client whose bodies are read stands at the start of a request
\* whenever the server reads one, although every generator took the buffer
\* of the connection with it.
THEOREM AtBoundary == Spec => []AtRequestBoundary
<1>1. IInv => AtRequestBoundary
  <2> SUFFICES ASSUME IInv, phase = "reading", tlsClient => tlsCtx, ~pipelined, ~skipped
               PROVE  buffer \o wire = <<>> \/ Head(buffer \o wire) = Header(Len(answered) + 1)
    BY DEF AtRequestBoundary
  <2>1. Types /\ Waiting /\ Framing
    BY DEF IInv, Framed
  <2>2. buffer \o wire = Unanswered
    BY <2>1 DEF Framing, Early
  <2>3. Len(reqs) \in Nat /\ Len(answered) \in Nat
    BY <2>1, Lengths
  <2>4. CASE Len(reqs) = Len(answered)
    BY <2>2, <2>4 DEF Unanswered
  <2>5. CASE Len(reqs) # Len(answered)
    <3>1. Len(reqs) = Len(answered) + 1
      BY <2>1, <2>3, <2>5 DEF Types, Waiting
    <3>2. Header(Len(reqs)) \in Units /\ Body(Len(reqs)) \in Units
      <4>1. Len(reqs) \in 1..Len(reqs)
        BY <2>3, <3>1
      <4> QED BY <2>1, <4>1, Lengths
    <3>3. Head(Unanswered) = Header(Len(reqs))
      BY <2>5, <3>2, Tuples DEF Unanswered
    <3> QED BY <2>2, <3>1, <3>3
  <2> QED BY <2>4, <2>5
<1> QED BY <1>1, Invariance, PTL

-----------------------------------------------------------------------------
(* Induction and recursion, without an operator as a parameter.            *)

\* A set of numbers that is not empty has a least member.
LEMMA Least ==
  ASSUME NEW S, S \subseteq Nat, S # {}
  PROVE  \E k \in S : \A l \in S : k <= l
<1> DEFINE R == OpToRel(<, Nat)
<1>1. IsWellFoundedOn(R, Nat)
  BY NatLessThanWellFounded
<1>2. \A x, y \in Nat : <<x, y>> \in R <=> x < y
  BY DEF OpToRel
<1> HIDE DEF R
<1>3. PICK k \in S : \A l \in S : ~(<<l, k>> \in R)
  BY <1>1, WFMin
<1>4. ASSUME NEW l \in S PROVE k <= l
  <2>1. ~(l < k)
    BY <1>2, <1>3
  <2>2. k \in Nat /\ l \in Nat
    OBVIOUS
  <2> QED BY <2>1, <2>2
<1> QED BY <1>4

\* And a greatest one, if it is bounded.
LEMMA Greatest ==
  ASSUME NEW n \in Nat, NEW S, S \subseteq 1..n, S # {}
  PROVE  \E k \in S : \A l \in S : l <= k
<1> DEFINE Down == {d \in Nat : n - d \in S}
<1>1. Down \subseteq Nat /\ Down # {}
  <2>1. PICK k \in S : TRUE
    OBVIOUS
  <2>2. n - k \in Nat /\ n - (n - k) = k
    BY <2>1
  <2> QED BY <2>1, <2>2
<1> HIDE DEF Down
<1>2. PICK d \in Down : \A e \in Down : d <= e
  BY <1>1, Least
<1>3. n - d \in S /\ d \in Nat
  BY <1>2 DEF Down
<1>4. ASSUME NEW l \in S PROVE l <= n - d
  <2>1. n - l \in Nat /\ n - (n - l) = l
    OBVIOUS
  <2>2. d <= n - l
    BY <2>1, <1>2 DEF Down
  <2> QED BY <2>1, <2>2, <1>3
<1> QED BY <1>3, <1>4

\* What holds wherever it holds at all smaller ranks holds everywhere.
LEMMA RankInduction ==
  ASSUME NEW D, NEW rank \in [D -> Nat], NEW S,
         \A i \in D : (\A j \in D : rank[j] < rank[i] => j \in S) => i \in S
  PROVE  D \subseteq S
<1> SUFFICES ASSUME D \ S # {} PROVE FALSE
  OBVIOUS
<1> DEFINE K == {rank[i] : i \in D \ S}
<1>1. K \subseteq Nat /\ K # {}
  OBVIOUS
<1>2. PICK k \in K : \A l \in K : k <= l
  BY <1>1, Least
<1>3. PICK i \in D \ S : rank[i] = k
  BY <1>2
<1>4. ASSUME NEW j \in D, rank[j] < rank[i] PROVE j \in S
  <2>1. CASE j \notin S
    <3>1. rank[j] \in K /\ rank[j] \in Nat /\ k \in Nat
      BY <2>1
    <3>2. k <= rank[j]
      BY <3>1, <1>2
    <3> HIDE DEF K
    <3> QED BY <3>1, <3>2, <1>3, <1>4
  <2> QED BY <2>1
<1> QED BY <1>3, <1>4

\* What holds of 0 and of the number after each holds of every number.
LEMMA Induction ==
  ASSUME NEW S, 0 \in S, \A k \in Nat : k \in S => k + 1 \in S
  PROVE  Nat \subseteq S
<1> DEFINE rank == [i \in Nat |-> i]
<1>1. ASSUME NEW i \in Nat, \A j \in Nat : rank[j] < rank[i] => j \in S PROVE i \in S
  <2>1. CASE i = 0
    BY <2>1
  <2>2. CASE i # 0
    <3>1. i - 1 \in Nat /\ rank[i - 1] < rank[i] /\ (i - 1) + 1 = i
      BY <2>2
    <3>2. i - 1 \in S
      BY <3>1, <1>1
    <3> QED BY <3>1, <3>2
  <2> QED BY <2>1, <2>2
<1>2. rank \in [Nat -> Nat]
  OBVIOUS
<1> HIDE DEF rank
<1> QED BY <1>1, <1>2, RankInduction

\* A recursion that looks at smaller ranks only has a solution.
Causal(Step, D, V, rank) ==
  /\ Step \in [[D -> V] -> [D -> V]]
  /\ \A F, G \in [D -> V] : \A i \in D :
       (\A j \in D : rank[j] < rank[i] => F[j] = G[j]) => Step[F][i] = Step[G][i]
Solvable(Step, D, V) == \E F \in [D -> V] : F = Step[F]

\* Such a recursion, over ranks up to n, has a solution.
LEMMA Recursion ==
  ASSUME NEW D, NEW V, V # {}, NEW n \in Nat, NEW rank \in [D -> 0..n],
         NEW Step, Causal(Step, D, V, rank)
  PROVE  Solvable(Step, D, V)
<1> USE DEF Causal, Solvable
<1> DEFINE Good(F, k) == \A i \in D : rank[i] < k => Step[F][i] = F[i]
           S == {k \in Nat : \E F \in [D -> V] : Good(F, k)}
<1>1. 0 \in S
  <2>1. PICK v \in V : TRUE
    OBVIOUS
  <2>2. [i \in D |-> v] \in [D -> V]
    OBVIOUS
  <2>3. \A i \in D : ~(rank[i] < 0)
    OBVIOUS
  <2> QED BY <2>2, <2>3
<1>2. ASSUME NEW k \in Nat, k \in S PROVE k + 1 \in S
  <2>1. PICK F \in [D -> V] : Good(F, k)
    BY <1>2
  <2>2. Step[F] \in [D -> V]
    OBVIOUS
  <2>3. ASSUME NEW i \in D, rank[i] < k + 1 PROVE Step[Step[F]][i] = Step[F][i]
    <3>1. ASSUME NEW j \in D, rank[j] < rank[i] PROVE Step[F][j] = F[j]
      <4>1. rank[j] < k
        BY <2>3, <3>1
      <4> QED BY <4>1, <2>1
    <3> QED BY <2>2, <3>1
  <2>4. Good(Step[F], k + 1)
    BY <2>3
  <2> QED BY <2>2, <2>4
<1>3. n + 1 \in S
  <2> HIDE DEF S
  <2>1. Nat \subseteq S
    BY <1>1, <1>2, Induction
  <2> QED BY <2>1
<1>4. PICK F \in [D -> V] : Good(F, n + 1)
  BY <1>3
<1>5. \A i \in D : Step[F][i] = F[i]
  BY <1>4
<1>6. Step[F] \in [D -> V]
  OBVIOUS
<1> QED BY <1>5, <1>6

-----------------------------------------------------------------------------
(* find() and split().                                                     *)

\* d stands in s at p.
Stands(s, d, p) == p + Len(d) <= Len(s) /\ SubSeq(s, p + 1, p + Len(d)) = d

\* find() finds the first place at which the pattern stands.
LEMMA FindFirst ==
  ASSUME NEW s \in Text, NEW d \in Text, NEW from \in Nat
  PROVE  \/ /\ Find(s, d, from) = Npos
            /\ \A p \in Nat : p >= from => ~Stands(s, d, p)
         \/ /\ Find(s, d, from) \in Nat /\ from <= Find(s, d, from)
            /\ Stands(s, d, Find(s, d, from))
            /\ \A p \in Nat : p >= from /\ p < Find(s, d, from) => ~Stands(s, d, p)
<1> DEFINE hits == {p \in from..(Len(s) - Len(d)) : SubSeq(s, p + 1, p + Len(d)) = d}
<1>0. Len(s) \in Nat /\ Len(d) \in Nat
  BY DEF Text
<1>1. Find(s, d, from) = IF hits = {} THEN Npos ELSE CHOOSE p \in hits : \A q \in hits : p <= q
  BY DEF Find
<1>2. \A p \in Nat : p \in hits <=> p >= from /\ Stands(s, d, p)
  BY <1>0 DEF Stands
<1>3. hits \subseteq Nat
  BY <1>0
<1> HIDE DEF hits
<1>4. CASE hits = {}
  BY <1>1, <1>2, <1>4
<1>5. CASE hits # {}
  <2>1. \E p \in hits : \A q \in hits : p <= q
    BY <1>3, <1>5, Least
  <2> DEFINE k == CHOOSE p \in hits : \A q \in hits : p <= q
  <2>2. k \in hits /\ \A q \in hits : k <= q
    BY <2>1
  <2>3. Find(s, d, from) = k
    BY <1>1, <1>5
  <2> HIDE DEF k
  <2>4. k \in Nat /\ \A p \in Nat : p >= from /\ p < k => ~Stands(s, d, p)
    BY <1>2, <1>3, <2>2
  <2> QED BY <1>2, <2>2, <2>3, <2>4
<1> QED BY <1>4, <1>5

\* The place before which there is no other is what it finds.
LEMMA FindIs ==
  ASSUME NEW s \in Text, NEW d \in Text, NEW from \in Nat, NEW k \in Nat,
         from <= k, Stands(s, d, k), \A p \in Nat : p >= from /\ p < k => ~Stands(s, d, p)
  PROVE  Find(s, d, from) = k
<1>1. Find(s, d, from) \in Nat /\ from <= Find(s, d, from) /\ Stands(s, d, Find(s, d, from))
      /\ \A p \in Nat : p >= from /\ p < Find(s, d, from) => ~Stands(s, d, p)
  BY FindFirst
<1>2. ~(Find(s, d, from) < k) /\ ~(k < Find(s, d, from))
  BY <1>1
<1> QED BY <1>1, <1>2

\* It finds nothing where there is nothing.
LEMMA FindNone ==
  ASSUME NEW s \in Text, NEW d \in Text, NEW from \in Nat,
         \A p \in Nat : p >= from => ~Stands(s, d, p)
  PROVE  Find(s, d, from) = Npos
  BY FindFirst

\* What split() makes of the rest of s from pos, given what it makes of the
\* rests of the rest.
SplitRest(s, d, F, pos) ==
  LET found == Find(s, d, pos)
      part == <<SubSeq(s, pos + 1, IF found = Npos THEN Len(s) ELSE found)>>
  IN  IF found = 0 THEN F[Len(d)]
      ELSE IF found = Npos \/ found + Len(d) >= Len(s) THEN part
      ELSE part \o F[found + Len(d)]

\* It looks at later positions only.
LEMMA SplitRestCases ==
  ASSUME NEW s \in Text, NEW d \in Text, d # <<>>, NEW F, NEW pos \in 0..Len(s)
  PROVE  \/ /\ Find(s, d, pos) = 0 /\ Len(d) \in (pos + 1)..Len(s)
            /\ SplitRest(s, d, F, pos) = F[Len(d)]
         \/ /\ Find(s, d, pos) = Npos
            /\ SplitRest(s, d, F, pos) = <<SubSeq(s, pos + 1, Len(s))>>
         \/ /\ Find(s, d, pos) \in Nat \ {0} /\ pos <= Find(s, d, pos) /\ Find(s, d, pos) + Len(d) = Len(s)
            /\ SplitRest(s, d, F, pos) = <<SubSeq(s, pos + 1, Find(s, d, pos))>>
         \/ /\ Find(s, d, pos) \in Nat \ {0} /\ pos <= Find(s, d, pos)
            /\ Find(s, d, pos) + Len(d) \in (pos + 1)..(Len(s) - 1)
            /\ SplitRest(s, d, F, pos) = <<SubSeq(s, pos + 1, Find(s, d, pos))>> \o F[Find(s, d, pos) + Len(d)]
<1>0. Len(s) \in Nat /\ Len(d) \in Nat \ {0} /\ pos \in Nat /\ Npos = -1
  BY DEF Text, Npos
<1>1. CASE Find(s, d, pos) = Npos
  BY <1>0, <1>1 DEF SplitRest
<1>2. CASE Find(s, d, pos) # Npos
  <2> DEFINE found == Find(s, d, pos)
  <2>1. found \in Nat /\ pos <= found /\ found + Len(d) <= Len(s)
    BY <1>0, <1>2, FindFirst DEF Stands
  <2>2. found # Npos /\ SplitRest(s, d, F, pos) = IF found = 0 THEN F[Len(d)]
            ELSE IF found + Len(d) >= Len(s) THEN <<SubSeq(s, pos + 1, found)>>
            ELSE <<SubSeq(s, pos + 1, found)>> \o F[found + Len(d)]
    BY <1>2 DEF SplitRest
  <2> HIDE DEF found
  <2>3. CASE found = 0
    <3>1. pos = 0 /\ Len(d) \in (pos + 1)..Len(s)
      BY <1>0, <2>1, <2>3
    <3> QED BY <2>2, <2>3, <3>1 DEF found
  <2>4. CASE found # 0 /\ found + Len(d) >= Len(s)
    <3>1. found + Len(d) = Len(s) /\ found \in Nat \ {0}
      BY <1>0, <2>1, <2>4
    <3> QED BY <2>1, <2>2, <2>4, <3>1 DEF found
  <2>5. CASE found # 0 /\ ~(found + Len(d) >= Len(s))
    <3>1. found + Len(d) \in (pos + 1)..(Len(s) - 1) /\ found \in Nat \ {0}
      BY <1>0, <2>1, <2>5
    <3> QED BY <2>1, <2>2, <2>5, <3>1 DEF found
  <2> QED BY <2>3, <2>4, <2>5
<1> QED BY <1>1, <1>2

\* Its pieces are texts.
LEMMA SplitRestType ==
  ASSUME NEW s \in Text, NEW d \in Text, d # <<>>, NEW F, NEW pos \in 0..Len(s),
         \A p \in (pos + 1)..Len(s) : F[p] \in Seq(Text)
  PROVE  SplitRest(s, d, F, pos) \in Seq(Text)
<1>0. Len(s) \in Nat /\ Len(d) \in Nat \ {0} /\ pos \in Nat
  BY DEF Text
<1>1. \A k \in Nat : k <= Len(s) => SubSeq(s, pos + 1, k) \in Text
  BY <1>0 DEF Text
<1>2. ASSUME NEW x \in Text PROVE <<x>> \in Seq(Text)
  OBVIOUS
<1>3. ASSUME NEW x \in Text, NEW r \in Seq(Text) PROVE <<x>> \o r \in Seq(Text)
  BY <1>2
<1> DEFINE found == Find(s, d, pos)
<1>4. CASE found = 0 /\ Len(d) \in (pos + 1)..Len(s) /\ SplitRest(s, d, F, pos) = F[Len(d)]
  BY <1>4
<1>5. CASE found = Npos /\ SplitRest(s, d, F, pos) = <<SubSeq(s, pos + 1, Len(s))>>
  BY <1>0, <1>1, <1>2, <1>5
<1>6. CASE /\ found \in Nat \ {0} /\ found + Len(d) = Len(s)
           /\ SplitRest(s, d, F, pos) = <<SubSeq(s, pos + 1, found)>>
  <2>1. found <= Len(s) /\ found \in Nat
    BY <1>0, <1>6
  <2> QED BY <1>1, <1>2, <1>6, <2>1
<1>7. CASE /\ found \in Nat \ {0} /\ found + Len(d) \in (pos + 1)..(Len(s) - 1)
           /\ SplitRest(s, d, F, pos) = <<SubSeq(s, pos + 1, found)>> \o F[found + Len(d)]
  <2>1. found <= Len(s) /\ found \in Nat /\ found + Len(d) \in (pos + 1)..Len(s)
    BY <1>0, <1>7
  <2> QED BY <1>1, <1>3, <1>7, <2>1
<1> QED BY <1>4, <1>5, <1>6, <1>7, SplitRestCases

\* It depends on what is behind pos only.
LEMMA SplitRestLocal ==
  ASSUME NEW s \in Text, NEW d \in Text, d # <<>>, NEW F, NEW G, NEW pos \in 0..Len(s),
         \A p \in (pos + 1)..Len(s) : F[p] = G[p]
  PROVE  SplitRest(s, d, F, pos) = SplitRest(s, d, G, pos)
<1>0. Len(s) \in Nat /\ Len(d) \in Nat \ {0} /\ pos \in Nat
  BY DEF Text
<1>1. (pos + 1)..(Len(s) - 1) \subseteq (pos + 1)..Len(s)
  BY <1>0
<1> DEFINE found == Find(s, d, pos)
<1>2. CASE found = 0
  BY <1>2, SplitRestCases DEF SplitRest
<1>3. CASE found # 0
  <2>1. CASE found = Npos \/ found + Len(d) >= Len(s)
    BY <1>3, <2>1 DEF SplitRest
  <2>2. CASE ~(found = Npos \/ found + Len(d) >= Len(s))
    <3>1. found + Len(d) \in (pos + 1)..Len(s)
      BY <1>0, <1>2, <1>3, <2>2, FindFirst DEF Stands
    <3>2. F[found + Len(d)] = G[found + Len(d)]
      BY <3>1
    <3> QED BY <1>3, <2>2, <3>2 DEF SplitRest
  <2> QED BY <2>1, <2>2
<1> QED BY <1>2, <1>3

\* split() is that recursion.
IsSplit(s, d, F) == /\ F \in [0..Len(s) -> Seq(Text)]
                    /\ \A pos \in 0..Len(s) : F[pos] = SplitRest(s, d, F, pos)
                    /\ Split(s, d) = F[0]

\* split() solves its recursion.
LEMMA SplitSolved ==
  ASSUME NEW s \in Text, s # <<>>, NEW d \in Text, d # <<>>
  PROVE  \E F : IsSplit(s, d, F)
<1> DEFINE D == 0..Len(s)
           Solved(F) == F = [pos \in D |-> SplitRest(s, d, F, pos)]
           Step == [F \in [D -> Seq(Text)] |-> [pos \in D |-> SplitRest(s, d, F, pos)]]
           rank == [pos \in D |-> Len(s) - pos]
           C == CHOOSE F : Solved(F)
<1>0. Len(s) \in Nat \ {0} /\ D \subseteq Nat /\ Len(s) \in D /\ 0 \in D
  BY DEF Text
<1>1. Split(s, d) = C[0]
  BY Zenon DEF Split, SplitRest
<1>2. rank \in [D -> 0..Len(s)] /\ \A p, q \in D : rank[p] < rank[q] <=> q < p
  BY <1>0
<1>3. \A pos \in D : (pos + 1)..Len(s) \subseteq D /\ \A p \in (pos + 1)..Len(s) : rank[p] < rank[pos]
  BY <1>0
<1>4. \E F : Solved(F)
  <2>1. Step \in [[D -> Seq(Text)] -> [D -> Seq(Text)]]
    <3>1. ASSUME NEW F \in [D -> Seq(Text)], NEW pos \in D PROVE SplitRest(s, d, F, pos) \in Seq(Text)
      BY <1>3, SplitRestType
    <3> QED BY <3>1
  <2>2. ASSUME NEW F \in [D -> Seq(Text)], NEW G \in [D -> Seq(Text)], NEW pos \in D,
               \A p \in D : rank[p] < rank[pos] => F[p] = G[p]
        PROVE  Step[F][pos] = Step[G][pos]
    <3>1. \A p \in (pos + 1)..Len(s) : F[p] = G[p]
      BY <1>3, <2>2
    <3>2. SplitRest(s, d, F, pos) = SplitRest(s, d, G, pos)
      BY <3>1, SplitRestLocal
    <3> QED BY <3>2
  <2>3. Seq(Text) # {}
    <3>1. <<>> \in Seq(Text)
      OBVIOUS
    <3> QED BY <3>1
  <2>4. \A F \in [D -> Seq(Text)] : Step[F] = [pos \in D |-> SplitRest(s, d, F, pos)]
    OBVIOUS
  <2>6. \A F, G \in [D -> Seq(Text)] : \A pos \in D :
          (\A p \in D : rank[p] < rank[pos] => F[p] = G[p]) => Step[F][pos] = Step[G][pos]
    BY <2>2
  <2> HIDE DEF Step, rank, D
  <2>7. Causal(Step, D, Seq(Text), rank)
    BY <2>1, <2>6 DEF Causal
  <2>5. Solvable(Step, D, Seq(Text))
    BY <1>0, <1>2, <2>3, <2>7, Recursion
  <2>8. PICK F \in [D -> Seq(Text)] : F = Step[F]
    BY ONLY <2>5 DEF Solvable
  <2>9. Solved(F)
    BY ONLY <2>4, <2>8
  <2> HIDE DEF Solved
  <2> QED BY ONLY <2>9
<1>5. Solved(C)
  <2> HIDE DEF Solved
  <2> QED BY ONLY <1>4
<1> HIDE DEF C
<1>6. \A pos \in D : C[pos] = SplitRest(s, d, C, pos)
  BY <1>5
<1>7. C \in [D -> Seq(Text)]
  <2> DEFINE S == {pos \in D : C[pos] \in Seq(Text)}
  <2>1. ASSUME NEW pos \in D, \A p \in D : rank[p] < rank[pos] => p \in S PROVE pos \in S
    <3>1. \A p \in (pos + 1)..Len(s) : C[p] \in Seq(Text)
      BY <1>3, <2>1
    <3>2. SplitRest(s, d, C, pos) \in Seq(Text)
      BY <3>1, SplitRestType
    <3> QED BY <1>6, <3>2
  <2>2. rank \in [D -> Nat]
    BY <1>2
  <2> HIDE DEF rank, S, D
  <2>3. D \subseteq S
    BY <2>1, <2>2, RankInduction
  <2>4. DOMAIN C = D /\ C = [pos \in DOMAIN C |-> C[pos]]
    BY <1>5
  <2> QED BY <2>3, <2>4 DEF S
<1> QED BY <1>1, <1>6, <1>7 DEF IsSplit

\* What split() returns are texts.
LEMMA SplitType ==
  ASSUME NEW s \in Text, NEW d \in Text, d # <<>>
  PROVE  Split(s, d) \in Seq(Text)
<1>1. CASE s = <<>>
  BY <1>1 DEF Split
<1>2. CASE s # <<>>
  <2>1. PICK F : IsSplit(s, d, F)
    BY <1>2, SplitSolved
  <2>2. 0 \in 0..Len(s)
    BY DEF Text
  <2> QED BY <2>1, <2>2 DEF IsSplit
<1> QED BY <1>1, <1>2

-----------------------------------------------------------------------------
(* Where the parts of a multipart body begin.                              *)

StartsRest(body, line, F, pos) ==
  LET found == Find(body, line, pos)
  IN  IF found = Npos THEN <<>> ELSE <<found>> \o F[found + Len(line)]

\* The search for boundary lines goes on behind the one it found.
LEMMA StartsRestCases ==
  ASSUME NEW body \in Text, NEW line \in Text, line # <<>>, NEW F, NEW pos \in 0..Len(body)
  PROVE  \/ /\ Find(body, line, pos) = Npos
            /\ StartsRest(body, line, F, pos) = <<>>
         \/ /\ Find(body, line, pos) \in Nat /\ Find(body, line, pos) + Len(line) \in (pos + 1)..Len(body)
            /\ StartsRest(body, line, F, pos) = <<Find(body, line, pos)>> \o F[Find(body, line, pos) + Len(line)]
<1>0. Len(body) \in Nat /\ Len(line) \in Nat \ {0} /\ pos \in Nat /\ Npos = -1
  BY DEF Text, Npos
<1> DEFINE found == Find(body, line, pos)
<1>1. CASE found = Npos
  BY <1>1 DEF StartsRest
<1>2. CASE found # Npos
  <2>1. found \in Nat /\ pos <= found /\ found + Len(line) <= Len(body)
    BY <1>2, FindFirst DEF Stands
  <2>2. StartsRest(body, line, F, pos) = <<found>> \o F[found + Len(line)]
    BY <1>2 DEF StartsRest
  <2> HIDE DEF found
  <2>3. found + Len(line) \in (pos + 1)..Len(body)
    BY <1>0, <2>1
  <2> QED BY <2>1, <2>2, <2>3 DEF found
<1> QED BY <1>1, <1>2

\* It returns positions.
LEMMA StartsRestType ==
  ASSUME NEW body \in Text, NEW line \in Text, line # <<>>, NEW F, NEW pos \in 0..Len(body),
         \A p \in (pos + 1)..Len(body) : F[p] \in Seq(Nat)
  PROVE  StartsRest(body, line, F, pos) \in Seq(Nat)
<1> DEFINE found == Find(body, line, pos)
<1>1. CASE StartsRest(body, line, F, pos) = <<>>
  BY <1>1
<1>2. CASE /\ found \in Nat /\ found + Len(line) \in (pos + 1)..Len(body)
           /\ StartsRest(body, line, F, pos) = <<found>> \o F[found + Len(line)]
  <2>1. F[found + Len(line)] \in Seq(Nat) /\ <<found>> \in Seq(Nat)
    BY <1>2
  <2> QED BY <1>2, <2>1
<1> QED BY <1>1, <1>2, StartsRestCases

\* It depends on what is behind pos only.
LEMMA StartsRestLocal ==
  ASSUME NEW body \in Text, NEW line \in Text, line # <<>>, NEW F, NEW G, NEW pos \in 0..Len(body),
         \A p \in (pos + 1)..Len(body) : F[p] = G[p]
  PROVE  StartsRest(body, line, F, pos) = StartsRest(body, line, G, pos)
<1> DEFINE found == Find(body, line, pos)
<1>1. CASE found = Npos
  BY <1>1 DEF StartsRest
<1>2. CASE found # Npos
  <2>1. F[found + Len(line)] = G[found + Len(line)]
    BY <1>2, StartsRestCases
  <2> QED BY <1>2, <2>1 DEF StartsRest
<1> QED BY <1>1, <1>2

IsStarts(body, line, F) == /\ F \in [0..Len(body) -> Seq(Nat)]
                           /\ \A pos \in 0..Len(body) : F[pos] = StartsRest(body, line, F, pos)

\* The boundary lines of a body, and where the last one is.
LEMMA StartsSolved ==
  ASSUME NEW body \in Text, NEW boundary \in Text
  PROVE  \E F : /\ IsStarts(body, BoundaryLine(boundary), F)
                /\ BoundaryStarts(body, boundary) =
                     LET end == IF F[0] = <<>> THEN Npos
                                ELSE Find(body, LastBoundaryLine(boundary), Last(F[0]))
                     IN  IF end = Npos THEN <<>> ELSE Append(F[0], end)
<1> DEFINE line == BoundaryLine(boundary)
           D == 0..Len(body)
           Solved(F) == F = [pos \in D |-> StartsRest(body, line, F, pos)]
           Step == [F \in [D -> Seq(Nat)] |-> [pos \in D |-> StartsRest(body, line, F, pos)]]
           rank == [pos \in D |-> Len(body) - pos]
           C == CHOOSE F : Solved(F)
<1>0. Len(body) \in Nat /\ D \subseteq Nat /\ Len(body) \in D /\ 0 \in D
  BY DEF Text
<1>1. BoundaryStarts(body, boundary) =
        LET end == IF C[0] = <<>> THEN Npos ELSE Find(body, LastBoundaryLine(boundary), Last(C[0]))
        IN  IF end = Npos THEN <<>> ELSE Append(C[0], end)
  BY Zenon DEF BoundaryStarts, StartsRest
<1>2. rank \in [D -> 0..Len(body)] /\ \A p, q \in D : rank[p] < rank[q] <=> q < p
  BY <1>0
<1>3. \A pos \in D : (pos + 1)..Len(body) \subseteq D /\ \A p \in (pos + 1)..Len(body) : rank[p] < rank[pos]
  BY <1>0
<1>x. line \in Text /\ line # <<>>
  <2>1. boundary \in Seq(Nat) /\ <<Dash, Dash>> \in Seq(Nat) /\ <<CR, LF>> \in Seq(Nat) /\ Len(<<Dash, Dash>>) = 2
    BY DEF Text, Dash, CR, LF
  <2>2. line \in Seq(Nat) /\ Len(line) = 2 + Len(boundary) + Len(<<CR, LF>>)
    BY <2>1 DEF BoundaryLine
  <2> QED BY <2>1, <2>2 DEF Text
<1> HIDE DEF line
<1>4. \E F : Solved(F)
  <2>1. Step \in [[D -> Seq(Nat)] -> [D -> Seq(Nat)]]
    <3>1. ASSUME NEW F \in [D -> Seq(Nat)], NEW pos \in D PROVE StartsRest(body, line, F, pos) \in Seq(Nat)
      BY <1>3, <1>x, StartsRestType
    <3> QED BY <3>1
  <2>2. ASSUME NEW F \in [D -> Seq(Nat)], NEW G \in [D -> Seq(Nat)], NEW pos \in D,
               \A p \in D : rank[p] < rank[pos] => F[p] = G[p]
        PROVE  Step[F][pos] = Step[G][pos]
    <3>1. \A p \in (pos + 1)..Len(body) : F[p] = G[p]
      BY <1>3, <2>2
    <3>2. StartsRest(body, line, F, pos) = StartsRest(body, line, G, pos)
      BY <3>1, <1>x, StartsRestLocal
    <3> QED BY <3>2
  <2>3. Seq(Nat) # {}
    <3>1. <<>> \in Seq(Nat)
      OBVIOUS
    <3> QED BY <3>1
  <2>4. \A F \in [D -> Seq(Nat)] : Step[F] = [pos \in D |-> StartsRest(body, line, F, pos)]
    OBVIOUS
  <2>6. \A F, G \in [D -> Seq(Nat)] : \A pos \in D :
          (\A p \in D : rank[p] < rank[pos] => F[p] = G[p]) => Step[F][pos] = Step[G][pos]
    BY <2>2
  <2> HIDE DEF Step, rank, D
  <2>7. Causal(Step, D, Seq(Nat), rank)
    BY <2>1, <2>6 DEF Causal
  <2>5. Solvable(Step, D, Seq(Nat))
    BY <1>0, <1>2, <2>3, <2>7, Recursion
  <2>8. PICK F \in [D -> Seq(Nat)] : F = Step[F]
    BY ONLY <2>5 DEF Solvable
  <2>9. Solved(F)
    BY ONLY <2>4, <2>8
  <2> HIDE DEF Solved
  <2> QED BY ONLY <2>9
<1>5. Solved(C)
  <2> HIDE DEF Solved
  <2> QED BY ONLY <1>4
<1> HIDE DEF C
<1>6. \A pos \in D : C[pos] = StartsRest(body, line, C, pos)
  BY <1>5
<1>7. C \in [D -> Seq(Nat)]
  <2> DEFINE S == {pos \in D : C[pos] \in Seq(Nat)}
  <2>1. ASSUME NEW pos \in D, \A p \in D : rank[p] < rank[pos] => p \in S PROVE pos \in S
    <3>1. \A p \in (pos + 1)..Len(body) : C[p] \in Seq(Nat)
      BY <1>3, <2>1
    <3>2. StartsRest(body, line, C, pos) \in Seq(Nat)
      BY <3>1, <1>x, StartsRestType
    <3> QED BY <1>6, <3>2
  <2>2. rank \in [D -> Nat]
    BY <1>2
  <2> HIDE DEF rank, S, D
  <2>3. D \subseteq S
    BY <2>1, <2>2, RankInduction
  <2>4. DOMAIN C = D /\ C = [pos \in DOMAIN C |-> C[pos]]
    BY <1>5
  <2> QED BY <2>3, <2>4 DEF S
<1>8. IsStarts(body, line, C)
  BY <1>6, <1>7 DEF IsStarts
<1> QED BY <1>1, <1>8 DEF line

-----------------------------------------------------------------------------
(* Texts put together, and members taken out.                              *)

IsFlat(seqs, G) == /\ G \in [0..Len(seqs) -> Text]
                   /\ G[0] = <<>>
                   /\ \A i \in 1..Len(seqs) : G[i] = G[i - 1] \o seqs[i]
                   /\ FlattenSeq(seqs) = G[Len(seqs)]

\* FlattenSeq() solves the recursion that concatenates one text after the other.
LEMMA FlatSolved ==
  ASSUME NEW seqs \in Seq(Text)
  PROVE  \E G : IsFlat(seqs, G)
<1>0. Len(seqs) \in Nat /\ <<>> \in Text
  BY DEF Text
<1>1. CASE Len(seqs) = 0
  <2>1. FlattenSeq(seqs) = <<>>
    BY <1>1 DEF FlattenSeq
  <2>2. IsFlat(seqs, [i \in 0..Len(seqs) |-> <<>>])
    BY <1>0, <1>1, <2>1 DEF IsFlat
  <2> QED BY <2>2
<1>2. CASE Len(seqs) # 0
  <2> DEFINE n == Len(seqs)
             D == 1..n
             Rest(F, i) == IF i = 1 THEN seqs[i] ELSE F[i - 1] \o seqs[i]
             Solved(F) == F = [i \in D |-> Rest(F, i)]
             Step == [F \in [D -> Text] |-> [i \in D |-> Rest(F, i)]]
             rank == [i \in D |-> i]
             C == CHOOSE F : Solved(F)
  <2>1. FlattenSeq(seqs) = C[n]
    BY <1>2, Zenon DEF FlattenSeq
  <2>2. rank \in [D -> 0..n] /\ \A i, j \in D : rank[j] < rank[i] <=> j < i
    BY <1>0
  <2>3. \A i \in D : i # 1 => i - 1 \in D /\ i - 1 < i
    BY <1>0
  <2>4. \A i \in D : seqs[i] \in Text
    OBVIOUS
  <2>5. \A x, y \in Text : x \o y \in Text
    BY DEF Text
  <2>6. \E F : Solved(F)
    <3>1. Step \in [[D -> Text] -> [D -> Text]]
      BY <2>3, <2>4, <2>5
    <3>2. ASSUME NEW F \in [D -> Text], NEW G \in [D -> Text], NEW i \in D,
                 \A j \in D : rank[j] < rank[i] => F[j] = G[j]
          PROVE  Step[F][i] = Step[G][i]
      <4>1. i # 1 => F[i - 1] = G[i - 1]
        BY <2>2, <2>3, <3>2
      <4> QED BY <4>1
    <3>3. \A F, G \in [D -> Text] : \A i \in D :
            (\A j \in D : rank[j] < rank[i] => F[j] = G[j]) => Step[F][i] = Step[G][i]
      BY <3>2
    <3>4. \A F \in [D -> Text] : Step[F] = [i \in D |-> Rest(F, i)]
      OBVIOUS
    <3> HIDE DEF Step, rank, D, Rest
    <3>5. Causal(Step, D, Text, rank)
      BY <3>1, <3>3 DEF Causal
    <3>6. Solvable(Step, D, Text)
      BY <1>0, <2>2, <3>5, Recursion
    <3>7. PICK F \in [D -> Text] : F = Step[F]
      BY ONLY <3>6 DEF Solvable
    <3>8. Solved(F)
      BY ONLY <3>4, <3>7
    <3> HIDE DEF Solved
    <3> QED BY ONLY <3>8
  <2>7. Solved(C)
    <3> HIDE DEF Solved
    <3> QED BY ONLY <2>6
  <2> HIDE DEF C
  <2>8. DOMAIN C = D /\ C = [i \in DOMAIN C |-> C[i]] /\ \A i \in D : C[i] = Rest(C, i)
    BY <2>7
  <2>9. \A i \in D : C[i] \in Text
    <3> DEFINE S == {i \in D : C[i] \in Text}
    <3>1. ASSUME NEW i \in D, \A j \in D : rank[j] < rank[i] => j \in S PROVE i \in S
      <4>1. i # 1 => C[i - 1] \in Text
        BY <2>2, <2>3, <3>1
      <4> QED BY <2>4, <2>5, <2>8, <4>1
    <3>2. rank \in [D -> Nat]
      BY <2>2
    <3> HIDE DEF rank, S, D
    <3>3. D \subseteq S
      BY <3>1, <3>2, RankInduction
    <3> QED BY <3>3 DEF S
  <2> DEFINE G == [i \in 0..n |-> IF i = 0 THEN <<>> ELSE C[i]]
  <2>10. \A i \in 0..n : i = 0 \/ i \in D
    BY <1>0
  <2>11. G \in [0..n -> Text] /\ G[0] = <<>> /\ G[n] = C[n]
    BY <1>0, <1>2, <2>9, <2>10
  <2>12. ASSUME NEW i \in D PROVE G[i] = G[i - 1] \o seqs[i]
    <3>1. i \in 0..n /\ i - 1 \in 0..n /\ i # 0
      BY <1>0
    <3>2. CASE i = 1
      <4>1. i - 1 = 0
        BY <3>2
      <4>2. G[i - 1] = <<>> /\ G[i] = seqs[i]
        BY <2>8, <3>1, <3>2, <4>1
      <4>3. seqs[i] \in Seq(Nat)
        BY <2>4 DEF Text
      <4>4. <<>> \o seqs[i] = seqs[i]
        BY <4>3
      <4> QED BY <4>2, <4>4
    <3>3. CASE i # 1
      <4>1. i - 1 # 0
        BY <3>3
      <4>2. G[i - 1] = C[i - 1] /\ G[i] = C[i - 1] \o seqs[i]
        BY <2>8, <3>1, <3>3, <4>1
      <4> QED BY <4>2
    <3> QED BY <3>2, <3>3
  <2> HIDE DEF G
  <2>13. IsFlat(seqs, G)
    BY <2>1, <2>11, <2>12 DEF IsFlat
  <2> QED BY <2>13
<1> QED BY <1>1, <1>2

\* A concatenation of texts is a text.
LEMMA FlattenType ==
  ASSUME NEW seqs \in Seq(Text)
  PROVE  FlattenSeq(seqs) \in Text
<1>1. PICK G : IsFlat(seqs, G)
  BY FlatSolved
<1>2. Len(seqs) \in 0..Len(seqs)
  OBVIOUS
<1> QED BY <1>1, <1>2 DEF IsFlat

\* Where the k-th of some positions is.
Place(positions, i) == Cardinality({j \in positions : j <= i})

\* Places count from 1 to the number of positions.
LEMMA PlaceType ==
  ASSUME NEW n \in Nat, NEW P, P \subseteq 1..n
  PROVE  /\ IsFiniteSet(P) /\ Cardinality(P) \in Nat
         /\ \A i \in P : Place(P, i) \in 1..Cardinality(P)
<1>1. IsFiniteSet(1..n) /\ P \in SUBSET (1..n)
  BY FS_Interval
<1>2. IsFiniteSet(P) /\ Cardinality(P) \in Nat
  BY <1>1, FS_Subset, FS_CardinalityType
<1>3. ASSUME NEW i \in P PROVE Place(P, i) \in 1..Cardinality(P)
  <2> DEFINE Q == {j \in P : j <= i}
  <2>1. Q \in SUBSET P /\ i \in Q /\ Q # {}
    OBVIOUS
  <2> HIDE DEF Q
  <2>2. IsFiniteSet(Q) /\ Cardinality(Q) <= Cardinality(P)
    BY <1>2, <2>1, FS_Subset
  <2>3. Cardinality(Q) \in Nat /\ Cardinality(Q) # 0
    BY <2>1, <2>2, FS_CardinalityType, FS_EmptySet
  <2> QED BY <1>2, <2>2, <2>3 DEF Place, Q
<1> QED BY <1>2, <1>3

\* The next position has the next place.
LEMMA PlaceNext ==
  ASSUME NEW n \in Nat, NEW P, P \subseteq 1..n, NEW i \in P, NEW m \in P, i < m,
         \A j \in P : j > i => m <= j
  PROVE  Place(P, m) = Place(P, i) + 1
<1> DEFINE Q == {j \in P : j <= i}
<1>1. IsFiniteSet(P)
  BY PlaceType
<1>2. Q \in SUBSET P /\ m \notin Q
  OBVIOUS
<1>3. {j \in P : j <= m} = Q \cup {m}
  <2>1. \A j \in P : j \in Nat
    OBVIOUS
  <2>2. \A j \in P : j <= m <=> j <= i \/ j = m
    BY <2>1
  <2> QED BY <2>2
<1> HIDE DEF Q
<1>4. IsFiniteSet(Q)
  BY <1>1, <1>2, FS_Subset
<1>5. Cardinality(Q \cup {m}) = Cardinality(Q) + 1
  BY <1>2, <1>4, FS_AddElement
<1> QED BY <1>3, <1>5 DEF Place, Q

\* The first position has the first place.
LEMMA PlaceFirst ==
  ASSUME NEW n \in Nat, NEW P, P \subseteq 1..n, NEW m \in P, \A j \in P : m <= j
  PROVE  Place(P, m) = 1
<1>1. {j \in P : j <= m} = {m}
  <2>1. \A j \in P : j \in Nat
    OBVIOUS
  <2>2. \A j \in P : j <= m <=> j = m
    BY <2>1
  <2> QED BY <2>2
<1> QED BY <1>1, FS_Singleton DEF Place

\* A later position has a later place.
LEMMA PlaceGrows ==
  ASSUME NEW n \in Nat, NEW P, P \subseteq 1..n, NEW i \in P, NEW j \in P, i < j
  PROVE  Place(P, i) < Place(P, j)
<1> DEFINE A == {k \in P : k <= i}
           B == {k \in P : k <= j}
<1>1. IsFiniteSet(P)
  BY PlaceType
<1>2. A \in SUBSET B /\ j \in B /\ j \notin A /\ B \in SUBSET P
  <2>1. \A k \in P : k \in Nat
    OBVIOUS
  <2>2. (\A k \in P : k <= i => k <= j) /\ j <= j /\ ~(j <= i)
    BY <2>1
  <2> QED BY <2>2
<1> HIDE DEF A, B
<1>3. IsFiniteSet(B) /\ IsFiniteSet(A) /\ Cardinality(A) <= Cardinality(B) /\ Cardinality(A) # Cardinality(B)
  BY <1>1, <1>2, FS_Subset
<1>4. Cardinality(A) \in Nat /\ Cardinality(B) \in Nat
  BY <1>3, FS_CardinalityType
<1> QED BY <1>3, <1>4 DEF Place, A, B

\* Every place is taken.
LEMMA PlaceTaken ==
  ASSUME NEW n \in Nat, NEW P, P \subseteq 1..n, NEW k \in 1..Cardinality(P)
  PROVE  \E i \in P : Place(P, i) = k
<1>0. IsFiniteSet(P) /\ Cardinality(P) \in Nat
  BY PlaceType
<1> DEFINE S == {h \in Nat : h \in 1..Cardinality(P) => \E i \in P : Place(P, i) = h}
<1>1. 0 \in S
  OBVIOUS
<1>2. ASSUME NEW h \in Nat, h \in S PROVE h + 1 \in S
  <2> SUFFICES ASSUME h + 1 \in 1..Cardinality(P) PROVE \E i \in P : Place(P, i) = h + 1
    OBVIOUS
  <2>1. CASE h = 0
    <3>1. P # {} /\ P \subseteq Nat
      BY FS_EmptySet
    <3>2. PICK m \in P : \A j \in P : m <= j
      BY <3>1, Least
    <3>3. Place(P, m) = 1
      BY <3>2, PlaceFirst
    <3> QED BY <2>1, <3>3
  <2>2. CASE h # 0
    <3>1. PICK i \in P : Place(P, i) = h
      BY <1>0, <1>2, <2>2
    <3> DEFINE later == {j \in P : j > i}
    <3>2. later # {}
      <4>1. CASE later = {}
        <5>1. \A j \in P : j \in Nat /\ ~(j > i)
          BY <4>1
        <5>2. \A j \in P : j <= i
          BY <5>1
        <5>3. {j \in P : j <= i} = P
          BY <5>2
        <5>4. Cardinality(P) = h
          BY <3>1, <5>3 DEF Place
        <5> QED BY <1>0, <5>4
      <4> QED BY <4>1
    <3>3. later \subseteq Nat
      <4>1. \A j \in P : j \in Nat
        OBVIOUS
      <4> QED BY <4>1
    <3>4. PICK m \in later : \A j \in later : m <= j
      BY <3>2, <3>3, Least
    <3>5. m \in P /\ i < m /\ \A j \in P : j > i => m <= j
      BY <3>4
    <3>6. Place(P, m) = Place(P, i) + 1
      BY <3>5, PlaceNext
    <3> QED BY <3>1, <3>5, <3>6
  <2> QED BY <2>1, <2>2
<1> HIDE DEF S
<1>3. k \in S
  <2>1. Nat \subseteq S
    BY <1>1, <1>2, Induction
  <2>2. k \in Nat
    BY <1>0
  <2> QED BY <2>1, <2>2
<1> QED BY <1>3 DEF S

\* A subsequence has every member at the positions, and no other.
Order(P, nth) == /\ nth \in [1..Cardinality(P) -> P]
                 /\ \A k \in 1..Cardinality(P) : Place(P, nth[k]) = k
                 /\ \A i \in P : nth[Place(P, i)] = i

\* It is the order of every subsequence at these positions.
Numbers(P, nth) == /\ Order(P, nth)
                   /\ \A s : Subsequence(s, P) = [k \in 1..Cardinality(P) |-> s[nth[k]]]

\* Positions have an order.
LEMMA SubsequenceOrder ==
  ASSUME NEW n \in Nat, NEW P, P \subseteq 1..n
  PROVE  \E nth : Numbers(P, nth)
<1> DEFINE Nth(k) == CHOOSE i \in P : Place(P, i) = k
           nth == [k \in 1..Cardinality(P) |-> Nth(k)]
<1>1. \A k \in 1..Cardinality(P) : Nth(k) \in P /\ Place(P, Nth(k)) = k
  BY PlaceTaken
<1>2. ASSUME NEW s PROVE Subsequence(s, P) = [k \in 1..Cardinality(P) |-> s[nth[k]]]
  BY DEF Subsequence, Place
<1> HIDE DEF Nth
<1>3. ASSUME NEW i \in P PROVE nth[Place(P, i)] = i
  <2>1. Place(P, i) \in 1..Cardinality(P)
    BY PlaceType
  <2>2. nth[Place(P, i)] \in P /\ Place(P, nth[Place(P, i)]) = Place(P, i)
    BY <1>1, <2>1
  <2> HIDE DEF nth
  <2>3. Place(P, i) \in Nat
    BY <2>1, PlaceType
  <2>4. ASSUME NEW j \in P, Place(P, j) = Place(P, i) PROVE ~(j < i) /\ ~(i < j)
    <3>1. CASE j < i
      <4>1. Place(P, j) < Place(P, i)
        BY <3>1, PlaceGrows
      <4> QED BY <2>3, <2>4, <4>1
    <3>2. CASE i < j
      <4>1. Place(P, i) < Place(P, j)
        BY <3>2, PlaceGrows
      <4> QED BY <2>3, <2>4, <4>1
    <3> QED BY <3>1, <3>2
  <2>5. \A j \in P : j \in Nat
    OBVIOUS
  <2>6. \A j \in P : Place(P, j) = Place(P, i) => j = i
    BY <2>4, <2>5
  <2> QED BY <2>2, <2>6
<1>4. Order(P, nth)
  BY <1>1, <1>3 DEF Order
<1> HIDE DEF nth
<1> QED BY <1>2, <1>4 DEF Numbers

\* A subsequence is as long as there are positions.
LEMMA SubsequenceDomain ==
  ASSUME NEW n \in Nat, NEW P, P \subseteq 1..n, NEW s
  PROVE  DOMAIN Subsequence(s, P) = 1..Cardinality(P) /\ Cardinality(P) \in Nat
  BY PlaceType DEF Subsequence

\* At all positions it is the sequence itself.
LEMMA SubsequenceAll ==
  ASSUME NEW X, NEW s \in Seq(X)
  PROVE  Subsequence(s, DOMAIN s) = s
<1> DEFINE P == 1..Len(s)
<1>1. Len(s) \in Nat /\ DOMAIN s = P
  OBVIOUS
<1>2. Cardinality(P) = Len(s)
  BY <1>1, FS_Interval
<1>3. \A i \in P : Place(P, i) = i
  <2> TAKE i \in P
  <2>1. {j \in P : j <= i} = 1..i
    BY <1>1
  <2>2. Cardinality(1..i) = i
    BY <1>1, FS_Interval
  <2> QED BY <2>1, <2>2 DEF Place
<1>4. P \subseteq 1..Len(s)
  OBVIOUS
<1>5. PICK nth : Order(P, nth) /\ Subsequence(s, P) = [k \in 1..Cardinality(P) |-> s[nth[k]]]
  <2> HIDE DEF P
  <2>1. \E nth : Numbers(P, nth)
    BY <1>1, <1>4, SubsequenceOrder
  <2> QED BY <2>1 DEF Numbers
<1>6. \A k \in P : nth[k] = k
  BY <1>2, <1>3, <1>5 DEF Order
<1>7. s = [k \in 1..Len(s) |-> s[k]]
  OBVIOUS
<1> QED BY <1>1, <1>2, <1>5, <1>6, <1>7

-----------------------------------------------------------------------------
(* What a browser writes is a text, and what is parsed is None or a list.  *)

\* The characters and literals are byte values of their own.
LEMMA Literals ==
  /\ {CR, LF, Space, Quote, Percent, Ampersand, Dash, Colon, Semicolon, Equals} \subseteq Nat
  /\ {Disposition, TypeHeader, FormDataType, NameKey, FilenameKey, BoundaryKey} \subseteq Nat
  /\ {UrlType, MultipartType, PlainType} \subseteq Nat
  BY DEF CR, LF, Space, Quote, Percent, Ampersand, Dash, Colon, Semicolon, Equals, Disposition, TypeHeader,
         FormDataType, NameKey, FilenameKey, BoundaryKey, UrlType, MultipartType, PlainType

\* What is concatenated of texts is a text.
LEMMA TextConcat ==
  /\ <<>> \in Text
  /\ \A x \in Nat : <<x>> \in Text
  /\ \A x, y \in Nat : <<x, y>> \in Text
  /\ \A s, t \in Text : s \o t \in Text
  BY DEF Text

\* A percent-encoded text is a text.
LEMMA PercentEncodeType ==
  ASSUME NEW s \in Text
  PROVE  PercentEncode(s) \in Text
<1> DEFINE E(c) == CASE c = Space -> <<Plus>>
                     [] c \in Plain -> <<c>>
                     [] OTHER -> <<Percent, Hex(c \div 16), Hex(c % 16)>>
<1>1. ASSUME NEW c \in Nat PROVE E(c) \in Text
  <2>1. c \div 16 \in Nat /\ c % 16 \in Nat
    OBVIOUS
  <2>2. \A n \in Nat : Hex(n) \in Nat
    BY DEF Hex
  <2>3. Hex(c \div 16) \in Nat /\ Hex(c % 16) \in Nat /\ Percent \in Nat /\ Plus \in Nat
    BY <2>1, <2>2 DEF Percent, Plus
  <2>4. CASE c = Space
    BY <2>3, <2>4 DEF Text
  <2>5. CASE c # Space /\ c \in Plain
    BY <2>5 DEF Text
  <2>6. CASE c # Space /\ c \notin Plain
    <3>1. E(c) = <<Percent, Hex(c \div 16), Hex(c % 16)>>
      BY <2>6
    <3> QED BY <2>3, <3>1 DEF Text
  <2> QED BY <2>4, <2>5, <2>6
<1>2. DOMAIN s = 1..Len(s) /\ Len(s) \in Nat /\ \A i \in DOMAIN s : s[i] \in Nat
  BY DEF Text
<1>3. [i \in DOMAIN s |-> E(s[i])] \in Seq(Text)
  <2> HIDE DEF E
  <2> QED BY <1>1, <1>2
<1>4. PercentEncode(s) = FlattenSeq([i \in DOMAIN s |-> E(s[i])])
  BY DEF PercentEncode
<1> QED BY <1>3, <1>4, FlattenType

\* Texts with delimiters between them are a text.
LEMMA JoinedType ==
  ASSUME NEW parts \in Seq(Text), NEW d \in Text
  PROVE  Joined(parts, d) \in Text
<1>1. [i \in DOMAIN parts |-> IF i = Len(parts) THEN parts[i] ELSE parts[i] \o d] \in Seq(Text)
  <2>1. DOMAIN parts = 1..Len(parts) /\ Len(parts) \in Nat
    OBVIOUS
  <2>2. \A i \in DOMAIN parts : parts[i] \in Text /\ parts[i] \o d \in Text
    BY TextConcat
  <2> QED BY <2>1, <2>2
<1> QED BY <1>1, FlattenType DEF Joined

\* The boundary lines are texts.
LEMMA BoundaryLineType ==
  ASSUME NEW boundary \in Text
  PROVE  BoundaryLine(boundary) \in Text /\ LastBoundaryLine(boundary) \in Text
  BY Literals, TextConcat DEF BoundaryLine, LastBoundaryLine

\* A part of a multipart body is a text.
LEMMA PartType ==
  ASSUME NEW e \in FormFieldData
  PROVE  Part(e) \in Text /\ Enclosed(e) \in Text
<1>1. e.name \in Text /\ e.filename \in Text /\ e.type \in Text /\ e.content \in Text
  BY DEF FormFieldData
<1>2. BoundaryLine(Boundary) \in Text
  BY TextsAssumption, BoundaryLineType
<1> DEFINE A == <<Disposition, FormDataType, Semicolon, Space, NameKey, Quote>>
           B == <<Semicolon, Space, FilenameKey, Quote>>
           F == IF e.filename = <<>> THEN <<>> ELSE B \o e.filename \o <<Quote>>
           T == IF e.type = <<>> THEN <<>> ELSE <<TypeHeader>> \o e.type \o <<CR, LF>>
<1>3. A \in Text /\ B \in Text /\ <<Quote>> \in Text /\ <<CR, LF>> \in Text /\ <<TypeHeader>> \in Text
  BY Literals DEF Text
<1>4. F \in Text /\ T \in Text
  <2> HIDE DEF B
  <2> QED BY <1>1, <1>3, TextConcat
<1>5. Enclosed(e) = A \o e.name \o <<Quote>> \o F \o <<CR, LF>> \o T \o <<CR, LF>> \o e.content \o <<CR, LF>>
  BY DEF Enclosed
<1>6. Enclosed(e) \in Text
  <2> HIDE DEF A, F, T
  <2> QED BY <1>1, <1>3, <1>4, <1>5, TextConcat
<1> QED BY <1>2, <1>6, TextConcat DEF Part

\* What a browser sends of a form is a body and a type.
LEMMA FormBodyType ==
  ASSUME NEW enc \in Encodings, NEW es \in Seq(FormFieldData)
  PROVE  FormBody(enc, es) \in Text /\ ContentType(enc) \in Text
<1>0. DOMAIN es = 1..Len(es) /\ Len(es) \in Nat
      /\ \A i \in DOMAIN es : es[i].name \in Text /\ es[i].content \in Text
  <2>1. \A e \in FormFieldData : e.name \in Text /\ e.content \in Text
    BY DEF FormFieldData
  <2>2. DOMAIN es = 1..Len(es) /\ Len(es) \in Nat /\ \A i \in DOMAIN es : es[i] \in FormFieldData
    OBVIOUS
  <2> QED BY <2>1, <2>2
<1>1. CASE enc = "url"
  <2>1. [i \in DOMAIN es |-> PercentEncode(es[i].name) \o <<Equals>> \o PercentEncode(es[i].content)] \in Seq(Text)
    <3>1. \A i \in 1..Len(es) : PercentEncode(es[i].name) \o <<Equals>> \o PercentEncode(es[i].content) \in Text
      BY <1>0, Literals, TextConcat, PercentEncodeType
    <3> QED BY <1>0, <3>1
  <2>2. <<Ampersand>> \in Text
    BY Literals, TextConcat
  <2>3. ContentType(enc) \in Text
    BY <1>1, Literals, TextConcat DEF ContentType, EncodingToString
  <2> QED BY <1>1, <2>1, <2>2, <2>3, JoinedType DEF FormBody
<1>2. CASE enc = "plain"
  <2>1. [i \in DOMAIN es |-> es[i].name \o <<Equals>> \o es[i].content \o <<CR, LF>>] \in Seq(Text)
    <3>1. \A i \in 1..Len(es) : es[i].name \o <<Equals>> \o es[i].content \o <<CR, LF>> \in Text
      BY <1>0, Literals, TextConcat
    <3> QED BY <1>0, <3>1
  <2>2. ContentType(enc) \in Text
    BY <1>2, Literals, TextConcat DEF ContentType, EncodingToString
  <2> QED BY <1>2, <2>1, <2>2, FlattenType DEF FormBody
<1>3. CASE enc = "multipart"
  <2>1. [i \in DOMAIN es |-> Part(es[i])] \in Seq(Text)
    BY <1>0, PartType
  <2>2. FlattenSeq([i \in DOMAIN es |-> Part(es[i])]) \in Text
    BY <2>1, FlattenType
  <2>3. LastBoundaryLine(Boundary) \in Text
    BY TextsAssumption, BoundaryLineType
  <2>4. ContentType(enc) \in Text
    <3>1. ContentType(enc) = <<MultipartType>> \o <<Semicolon, Space, BoundaryKey, Equals>> \o Boundary
      BY <1>3 DEF ContentType, EncodingToString
    <3>2. <<Semicolon, Space, BoundaryKey, Equals>> \in Text /\ <<MultipartType>> \in Text
      BY Literals DEF Text
    <3> QED BY <3>1, <3>2, TextConcat, TextsAssumption
  <2> QED BY <1>3, <2>2, <2>3, <2>4, TextConcat DEF FormBody
<1> QED BY <1>1, <1>2, <1>3 DEF Encodings

IsList(x) == \E n \in Nat : DOMAIN x = 1..n

\* A list is one whatever is done to its members.
LEMMA ListMapped ==
  ASSUME NEW s, IsList(s), NEW t, DOMAIN t = DOMAIN s
  PROVE  IsList(t)
  BY DEF IsList

\* The pairs of a text are a list.
LEMMA PairsList ==
  ASSUME NEW pieces \in Seq(Text)
  PROVE  IsList(PairsOf(pieces))
<1> DEFINE P == {i \in DOMAIN pieces : Pair(pieces[i]) # <<>>}
<1>1. P \subseteq 1..Len(pieces) /\ Len(pieces) \in Nat
  OBVIOUS
<1> HIDE DEF P
<1>2. DOMAIN Subsequence(pieces, P) = 1..Cardinality(P) /\ Cardinality(P) \in Nat
  BY <1>1, SubsequenceDomain
<1> QED BY <1>2 DEF PairsOf, P, IsList

\* A pair is two texts.
LEMMA PairType ==
  ASSUME NEW s \in Text
  PROVE  Pair(s) = <<>> \/ (Len(Pair(s)) = 2 /\ Pair(s)[1] \in Text /\ Pair(s)[2] \in Text)
<1>1. <<Equals>> \in Text /\ <<Equals>> # <<>>
  BY Literals, TextConcat
<1>2. Split(s, <<Equals>>) \in Seq(Text)
  BY <1>1, SplitType
<1> QED BY <1>2 DEF Pair

\* The boundary that a type names is a text.
LEMMA BoundaryOfType ==
  ASSUME NEW type \in Text
  PROVE  BoundaryOf(type) \in Text
<1> DEFINE parts == SplitHeaderValue(type)
           named == {i \in DOMAIN parts : IsPrefix(<<BoundaryKey>>, parts[i]) /\ Pair(parts[i]) # <<>>}
           last == CHOOSE i \in named : \A j \in named : i >= j
<1>1. parts \in Seq(Text)
  <2>1. <<Semicolon, Space>> \in Text /\ <<Semicolon, Space>> # <<>>
    BY Literals, TextConcat
  <2> QED BY <2>1, SplitType DEF SplitHeaderValue
<1>2. BoundaryOf(type) = IF named = {} THEN <<>> ELSE Pair(parts[last])[2]
  BY DEF BoundaryOf
<1>3. CASE named = {}
  BY <1>2, <1>3, TextConcat
<1>4. CASE named # {}
  <2>1. named \subseteq 1..Len(parts) /\ Len(parts) \in Nat /\ named \subseteq Nat
    BY <1>1
  <2>2. \A i \in named : parts[i] \in Text /\ Pair(parts[i]) # <<>>
    BY <1>1
  <2> HIDE DEF named, parts
  <2>3. \E i \in named : \A j \in named : j <= i
    BY <1>4, <2>1, Greatest
  <2>4. \E i \in named : \A j \in named : i >= j
    BY <2>1, <2>3
  <2>5. last \in named
    BY <2>4
  <2> HIDE DEF last
  <2> QED BY <1>2, <1>4, <2>2, <2>5, PairType
<1> QED BY <1>3, <1>4

\* What parse() returns is None or a list.
LEMMA ParseList ==
  ASSUME NEW type \in Text, NEW body \in Text, NEW past
  PROVE  Parse(type, body, past) = None \/ IsList(Parse(type, body, past))
<1>1. IsList(ParseUrlencoded(body, past))
  <2>1. Split(body, <<Ampersand>>) \in Seq(Text)
    BY Literals, TextConcat, SplitType
  <2>2. IsList(PairsOf(Split(body, <<Ampersand>>)))
    BY <2>1, PairsList
  <2>3. DOMAIN ParseUrlencoded(body, past) = DOMAIN PairsOf(Split(body, <<Ampersand>>))
    BY DEF ParseUrlencoded
  <2> QED BY <2>2, <2>3, ListMapped
<1>2. IsList(ParsePlain(body))
  <2>1. Split(body, <<CR, LF>>) \in Seq(Text)
    BY Literals, TextConcat, SplitType
  <2>2. IsList(PairsOf(Split(body, <<CR, LF>>)))
    BY <2>1, PairsList
  <2>3. DOMAIN ParsePlain(body) = DOMAIN PairsOf(Split(body, <<CR, LF>>))
    BY DEF ParsePlain
  <2> QED BY <2>2, <2>3, ListMapped
<1>3. ParseMultipart(body, type) = None \/ IsList(ParseMultipart(body, type))
  <2> DEFINE boundary == BoundaryOf(type)
             starts == IF boundary = <<>> THEN <<>> ELSE BoundaryStarts(body, boundary)
             raw == [i \in 1..(Len(starts) - 1) |->
                       SubSeq(body, starts[i] + Len(BoundaryLine(boundary)) + 1, starts[i + 1])]
             P == {i \in DOMAIN raw : raw[i] # <<>>}
  <2>1. boundary \in Text
    BY BoundaryOfType
  <2>2. Len(starts) \in Nat
    <3>1. PICK F : /\ IsStarts(body, BoundaryLine(boundary), F)
                   /\ BoundaryStarts(body, boundary) =
                        LET end == IF F[0] = <<>> THEN Npos
                                   ELSE Find(body, LastBoundaryLine(boundary), Last(F[0]))
                        IN  IF end = Npos THEN <<>> ELSE Append(F[0], end)
      BY <2>1, StartsSolved
    <3>2. F[0] \in Seq(Nat)
      <4>1. 0 \in 0..Len(body)
        BY DEF Text
      <4> QED BY <3>1, <4>1 DEF IsStarts
    <3> DEFINE end == IF F[0] = <<>> THEN Npos ELSE Find(body, LastBoundaryLine(boundary), Last(F[0]))
    <3>3. BoundaryStarts(body, boundary) = IF end = Npos THEN <<>> ELSE Append(F[0], end)
      BY <3>1
    <3> HIDE DEF end
    <3>4. CASE end = Npos
      BY <3>3, <3>4
    <3>5. CASE end # Npos
      <4>1. Len(Append(F[0], end)) = Len(F[0]) + 1
        <5>1. F[0] \in Seq(Nat \cup {end}) /\ end \in Nat \cup {end}
          BY <3>2
        <5> QED BY <5>1
      <4> QED BY <3>2, <3>3, <3>5, <4>1
    <3> QED BY <3>4, <3>5
  <2> HIDE DEF starts
  <2>3. \E n \in Nat : P \subseteq 1..n
    <3>1. P \subseteq 1..(Len(starts) - 1)
      OBVIOUS
    <3>2. 1..(Len(starts) - 1) \subseteq 1..Len(starts)
      BY <2>2
    <3> QED BY <2>2, <3>1, <3>2
  <2>4. ParseParts(body, boundary) = [i \in DOMAIN Subsequence(raw, P) |-> ParsePart(Subsequence(raw, P)[i])]
    BY DEF ParseParts, starts
  <2> HIDE DEF raw, P
  <2>5. IsList(Subsequence(raw, P))
    BY <2>3, SubsequenceDomain DEF IsList
  <2>6. IsList(ParseParts(body, boundary))
    BY <2>4, <2>5, ListMapped
  <2>7. ParseMultipart(body, type) = None \/ DOMAIN ParseMultipart(body, type) = DOMAIN ParseParts(body, boundary)
    BY DEF ParseMultipart, MultipartData
  <2> QED BY <2>6, <2>7, ListMapped
<1>4. Parse(type, body, past) \in {ParseUrlencoded(body, past), ParseMultipart(body, type), ParsePlain(body), None}
  BY DEF Parse
<1> QED BY <1>1, <1>2, <1>3, <1>4

-----------------------------------------------------------------------------
(* What split() makes of texts put together from pieces.                   *)

\* A piece from b to e, and something behind the delimiter that ends it.
Piece(s, d, b, e) == /\ b \in Nat /\ e \in Nat \ {0} /\ b <= e /\ e + Len(d) < Len(s)
                     /\ Stands(s, d, e)
                     /\ \A p \in Nat : p >= b /\ p < e => ~Stands(s, d, p)

\* split() returns such a piece, and then what is behind the delimiter.
LEMMA SplitOne ==
  ASSUME NEW s \in Text, NEW d \in Text, d # <<>>, NEW F, IsSplit(s, d, F),
         NEW b, NEW e, Piece(s, d, b, e)
  PROVE  /\ F[b] = <<SubSeq(s, b + 1, e)>> \o F[e + Len(d)]
         /\ F[e + Len(d)] \in Seq(Text)
<1> USE DEF Piece
<1>0. Len(s) \in Nat /\ Len(d) \in Nat \ {0} /\ Npos = -1
  BY DEF Text, Npos
<1>1. Find(s, d, b) = e
  BY FindIs
<1>2. b \in 0..Len(s) /\ e + Len(d) \in 0..Len(s)
  BY <1>0
<1>3. F[b] = SplitRest(s, d, F, b) /\ F[e + Len(d)] \in Seq(Text)
  BY <1>2 DEF IsSplit
<1>4. e # Npos /\ ~(e + Len(d) >= Len(s))
  BY <1>0
<1> QED BY <1>1, <1>3, <1>4 DEF SplitRest

\* The last piece, with or without a delimiter behind it.
LEMMA SplitLast ==
  ASSUME NEW s \in Text, NEW d \in Text, d # <<>>, NEW F, IsSplit(s, d, F),
         NEW b \in Nat, NEW e \in Nat, b <= e, e # 0,
         e = Len(s) \/ (Stands(s, d, e) /\ e + Len(d) = Len(s)),
         \A p \in Nat : p >= b /\ p < e => ~Stands(s, d, p)
  PROVE  F[b] = <<SubSeq(s, b + 1, e)>>
<1>0. Len(s) \in Nat /\ Len(d) \in Nat \ {0} /\ Npos = -1
  BY DEF Text, Npos
<1>1. b \in 0..Len(s)
  BY <1>0
<1>2. F[b] = SplitRest(s, d, F, b)
  BY <1>1 DEF IsSplit
<1>3. CASE e = Len(s)
  <2>1. \A p \in Nat : p >= b => ~Stands(s, d, p)
    <3>1. \A p \in Nat : p >= Len(s) => ~Stands(s, d, p)
      BY <1>0 DEF Stands
    <3> QED BY <1>0, <1>3, <3>1
  <2>2. Find(s, d, b) = Npos
    BY <2>1, FindNone
  <2>3. Npos # 0
    BY <1>0
  <2> QED BY <1>2, <1>3, <2>2, <2>3 DEF SplitRest
<1>4. CASE Stands(s, d, e) /\ e + Len(d) = Len(s)
  <2>1. Find(s, d, b) = e
    BY <1>4, FindIs
  <2>2. e # Npos /\ e + Len(d) >= Len(s)
    BY <1>0, <1>4
  <2> QED BY <1>2, <2>1, <2>2 DEF SplitRest
<1> QED BY <1>3, <1>4

\* The pieces of s are from b[i] to e[i], and nothing in them is a delimiter;
\* the first has something in it, and something is behind each delimiter but
\* the one at the end, if there is one there.
Marked(s, d, n, b, e) ==
  /\ b \in [1..n -> Nat] /\ e \in [1..n -> Nat]
  /\ b[1] = 0 /\ e[1] # 0
  /\ \A i \in 1..n : /\ b[i] <= e[i] /\ e[i] <= Len(s)
                     /\ \A p \in Nat : p >= b[i] /\ p < e[i] => ~Stands(s, d, p)
  /\ \A i \in 1..(n - 1) : b[i + 1] = e[i] + Len(d) /\ b[i + 1] < Len(s) /\ Stands(s, d, e[i])
  /\ e[n] = Len(s) \/ (Stands(s, d, e[n]) /\ e[n] + Len(d) = Len(s))

\* A member in front of a sequence.
LEMMA ConcatListed ==
  ASSUME NEW V, NEW x \in V, NEW m \in Nat, NEW g \in [1..m -> V]
  PROVE  <<x>> \o g = [k \in 1..(m + 1) |-> IF k = 1 THEN x ELSE g[k - 1]]
<1> DEFINE h == [k \in 1..(m + 1) |-> IF k = 1 THEN x ELSE g[k - 1]]
<1>1. g \in Seq(V) /\ Len(g) = m /\ <<x>> \in Seq(V) /\ Len(<<x>>) = 1
  OBVIOUS
<1>2. <<x>> \o g \in Seq(V) /\ Len(<<x>> \o g) = m + 1
  BY <1>1
<1>3. \A k \in 1..(m + 1) : k # 1 => k - 1 \in 1..m
  OBVIOUS
<1>4. h \in [1..(m + 1) -> V]
  BY <1>3
<1>5. h \in Seq(V) /\ Len(h) = m + 1
  BY <1>4
<1>6. \A k \in 1..(m + 1) : (<<x>> \o g)[k] = h[k]
  BY <1>1, <1>3
<1> HIDE DEF h
<1>7. <<x>> \o g = h
  <2>1. Len(<<x>> \o g) = Len(h) /\ \A k \in 1..Len(<<x>> \o g) : (<<x>> \o g)[k] = h[k]
    BY <1>2, <1>5, <1>6
  <2> QED BY <1>2, <1>5, <2>1, SeqEqual
<1> QED BY <1>7 DEF h

\* split() returns the pieces between the marks.
LEMMA SplitMarked ==
  ASSUME NEW s \in Text, NEW d \in Text, d # <<>>, NEW n \in Nat \ {0}, NEW b, NEW e, Marked(s, d, n, b, e)
  PROVE  Split(s, d) = [i \in 1..n |-> SubSeq(s, b[i] + 1, e[i])]
<1>0. Len(s) \in Nat /\ Len(d) \in Nat \ {0} /\ n - 1 \in Nat
  BY DEF Text
<1>1. \A i \in 1..n : b[i] \in Nat /\ e[i] \in Nat /\ b[i] <= e[i]
  BY DEF Marked
<1>2. \A i \in 1..n : e[i] # 0
  <2> TAKE i \in 1..n
  <2>1. CASE i = 1
    BY <2>1 DEF Marked
  <2>2. CASE i # 1
    <3>1. i - 1 \in 1..(n - 1) /\ i - 1 \in 1..n /\ (i - 1) + 1 = i
      BY <1>0, <2>2
    <3>2. b[i] = e[i - 1] + Len(d)
      BY <3>1 DEF Marked
    <3>3. b[i] \in Nat /\ e[i] \in Nat /\ b[i] <= e[i] /\ e[i - 1] \in Nat
      BY <1>1, <3>1
    <3> HIDE DEF Marked
    <3> QED BY <1>0, <3>2, <3>3
  <2> QED BY <2>1, <2>2
<1>3. s # <<>>
  <2>1. 1 \in 1..n /\ n \in 1..n
    BY <1>0
  <2>2. e[n] \in Nat \ {0} /\ (e[n] = Len(s) \/ e[n] + Len(d) = Len(s))
    BY <1>1, <1>2, <2>1 DEF Marked
  <2>3. Len(s) # 0
    BY <1>0, <2>2
  <2> QED BY <2>3
<1>4. PICK F : IsSplit(s, d, F)
  BY <1>3, SplitSolved
<1> DEFINE piece(i) == SubSeq(s, b[i] + 1, e[i])
           list(i) == [k \in 1..(n - i + 1) |-> piece(i + k - 1)]
           S == {m \in Nat : m < n => F[b[n - m]] = list(n - m)}
<1>5. \A i \in 1..n : piece(i) \in Text
  <2> TAKE i \in 1..n
  <2>1. b[i] \in Nat /\ e[i] \in Nat /\ e[i] <= Len(s)
    BY DEF Marked
  <2>4. s \in Seq(Nat)
    BY DEF Text
  <2>2. \A k \in (b[i] + 1)..e[i] : s[k] \in Nat
    <3>1. ASSUME NEW k \in (b[i] + 1)..e[i] PROVE k \in 1..Len(s)
      BY ONLY <2>1, <2>4, <3>1
    <3> QED BY ONLY <2>4, <3>1
  <2> QED BY <1>0, <2>1, <2>2 DEF Text
<1>6. 0 \in S
  <2>1. n \in 1..n /\ n - 0 = n /\ 1..(n - n + 1) = 1..1 /\ n + 1 - 1 = n
    BY <1>0
  <2>2. F[b[n]] = <<piece(n)>>
    <3>1. /\ e[n] = Len(s) \/ (Stands(s, d, e[n]) /\ e[n] + Len(d) = Len(s))
          /\ \A p \in Nat : p >= b[n] /\ p < e[n] => ~Stands(s, d, p)
      BY <2>1 DEF Marked
    <3>2. b[n] \in Nat /\ e[n] \in Nat /\ b[n] <= e[n] /\ e[n] # 0
      BY <1>1, <1>2, <2>1
    <3> DEFINE bn == b[n]
               en == e[n]
    <3>3. bn \in Nat /\ en \in Nat /\ bn <= en /\ en # 0
      BY <3>2
    <3>4. en = Len(s) \/ (Stands(s, d, en) /\ en + Len(d) = Len(s))
      BY <3>1
    <3>5. \A p \in Nat : p >= bn /\ p < en => ~Stands(s, d, p)
      BY <3>1
    <3> HIDE DEF bn, en
    <3>6. F[bn] = <<SubSeq(s, bn + 1, en)>>
      BY <1>4, <3>3, <3>4, <3>5, SplitLast
    <3> QED BY <3>6 DEF bn, en
  <2>3. list(n) = <<piece(n)>>
    <3>1. list(n) = [k \in 1..1 |-> piece(n + k - 1)]
      BY <2>1
    <3>2. \A k \in 1..1 : n + k - 1 = n
      OBVIOUS
    <3>3. list(n) = [k \in 1..1 |-> piece(n)]
      BY <3>1, <3>2
    <3> HIDE DEF piece
    <3> QED BY <3>3
  <2> QED BY <2>1, <2>2, <2>3
<1>7. ASSUME NEW m \in Nat, m \in S PROVE m + 1 \in S
  <2> SUFFICES ASSUME m + 1 < n PROVE F[b[n - (m + 1)]] = list(n - (m + 1))
    <3> HIDE DEF list
    <3>1. m + 1 \in Nat
      OBVIOUS
    <3> QED BY <3>1
  <2> DEFINE i == n - (m + 1)
  <2>1. i \in 1..(n - 1) /\ i \in 1..n /\ i + 1 = n - m /\ m < n /\ i + 1 \in 1..n /\ m + 1 = n - i
    BY <1>0
  <2>2. F[b[i + 1]] = list(i + 1)
    BY <1>7, <2>1
  <2>3. b[i + 1] = e[i] + Len(d) /\ b[i + 1] < Len(s) /\ Stands(s, d, e[i])
        /\ \A p \in Nat : p >= b[i] /\ p < e[i] => ~Stands(s, d, p)
    BY <2>1 DEF Marked
  <2> HIDE DEF i, list, piece, S
  <2>4. F[b[i]] = <<piece(i)>> \o F[b[i + 1]]
    <3>1. b[i] \in Nat /\ e[i] \in Nat /\ b[i] <= e[i] /\ e[i] # 0 /\ e[i] + Len(d) < Len(s)
      BY <1>1, <1>2, <2>1, <2>3
    <3>2. F[b[i]] = <<SubSeq(s, b[i] + 1, e[i])>> \o F[e[i] + Len(d)]
      <4> DEFINE bi == b[i]
                 ei == e[i]
      <4>1. bi \in Nat /\ ei \in Nat /\ bi <= ei /\ ei # 0 /\ ei + Len(d) < Len(s) /\ Stands(s, d, ei)
        BY <2>3, <3>1
      <4>2. \A p \in Nat : p >= bi /\ p < ei => ~Stands(s, d, p)
        BY <2>3
      <4> HIDE DEF bi, ei
      <4>3. F[bi] = <<SubSeq(s, bi + 1, ei)>> \o F[ei + Len(d)]
        <5>1. Piece(s, d, bi, ei)
          BY <4>1, <4>2 DEF Piece
        <5> QED BY <1>4, <5>1, SplitOne
      <4> QED BY <4>3 DEF bi, ei
    <3> QED BY <2>3, <3>2 DEF piece
  <2>5. list(i + 1) \in [1..(m + 1) -> Text]
    <3>1. \A k \in 1..(m + 1) : (i + 1) + k - 1 \in 1..n
      BY <1>0, <2>1
    <3>2. n - (i + 1) + 1 = m + 1
      BY <1>0, <2>1
    <3>3. list(i + 1) = [k \in 1..(m + 1) |-> piece((i + 1) + k - 1)]
      BY <3>2 DEF list
    <3> QED BY <1>5, <3>1, <3>3
  <2>6. <<piece(i)>> \o list(i + 1) = [k \in 1..(m + 1 + 1) |-> IF k = 1 THEN piece(i) ELSE list(i + 1)[k - 1]]
    BY <1>5, <2>1, <2>5, ConcatListed
  <2>7. \A k \in 1..(m + 1 + 1) : (IF k = 1 THEN piece(i) ELSE list(i + 1)[k - 1]) = piece(i + k - 1)
    <3> TAKE k \in 1..(m + 1 + 1)
    <3>1. CASE k = 1
      <4>1. i + 1 - 1 = i
        BY <2>1
      <4> QED BY <3>1, <4>1
    <3>2. CASE k # 1
      <4>1. k - 1 \in 1..(n - (i + 1) + 1) /\ (i + 1) + (k - 1) - 1 = i + k - 1
        BY <1>0, <2>1, <3>2
      <4>2. list(i + 1)[k - 1] = piece((i + 1) + (k - 1) - 1)
        BY <4>1 DEF list
      <4> QED BY <3>2, <4>1, <4>2
    <3> QED BY <3>1, <3>2
  <2>8. m + 1 + 1 = n - i + 1
    BY <2>1
  <2>9. list(i) = [k \in 1..(m + 1 + 1) |-> piece(i + k - 1)]
    BY <2>8 DEF list
  <2>10. F[b[i]] = list(i)
    BY <2>2, <2>4, <2>6, <2>7, <2>9
  <2> QED BY <2>10 DEF i
<1>8. n - 1 \in S
  <2> HIDE DEF S
  <2>1. Nat \subseteq S
    BY <1>6, <1>7, Induction
  <2> QED BY <1>0, <2>1
<1>9. F[0] = list(1)
  <2>1. n - 1 < n /\ n - (n - 1) = 1
    BY <1>0
  <2> QED BY <1>8, <2>1 DEF Marked
<1>10. list(1) = [i \in 1..n |-> piece(i)]
  <2>1. n - 1 + 1 = n /\ \A k \in 1..n : 1 + k - 1 = k
    BY <1>0
  <2> HIDE DEF piece
  <2> QED BY <2>1
<1> QED BY <1>4, <1>9, <1>10 DEF IsSplit

-----------------------------------------------------------------------------
(* The form that is served again.                                          *)

\* What a field may hold: nothing, or what was shown under its name.
FieldsShown(fs, sh) ==
  /\ fs \in Seq([name : Names, type : HtmlTypes, value : {<<>>} \cup {r[2] : r \in sh}])
  /\ \A i \in DOMAIN fs : fs[i].value = <<>> \/ <<fs[i].name, fs[i].value>> \in sh

FormInv == FieldsShown(fields, shown) /\ (data = None \/ IsList(data))

\* What a user types is parsed to a list of entries or to nothing.
LEMMA SubmitList ==
  ASSUME FormInv, NEW enc \in Encodings, NEW typed \in [Names -> Contents], Submit(enc, typed)
  PROVE  data' = None \/ IsList(data')
<1> DEFINE es == [i \in DOMAIN fields |-> FieldData(fields[i].name, <<>>, <<>>, typed[fields[i].name])]
<1>1. es \in Seq(FormFieldData)
  <2>1. fields \in Seq([name : Names, type : HtmlTypes, value : {<<>>} \cup {r[2] : r \in shown}])
    BY DEF FormInv, FieldsShown
  <2>2. DOMAIN fields = 1..Len(fields) /\ Len(fields) \in Nat /\ \A i \in DOMAIN fields : fields[i].name \in Names
    <3> DEFINE R == [name : Names, type : HtmlTypes, value : {<<>>} \cup {r[2] : r \in shown}]
    <3>1. \A f \in R : f.name \in Names
      OBVIOUS
    <3>2. fields \in Seq(R)
      BY <2>1
    <3> HIDE DEF R
    <3> QED BY <3>1, <3>2
  <2>3. \A name \in Names : FieldData(name, <<>>, <<>>, typed[name]) \in FormFieldData
    <3>1. \A name \in Names : name \in Text /\ typed[name] \in Text
      BY TextsAssumption
    <3> QED BY <3>1, TextConcat DEF FieldData, FormFieldData
  <2>4. \A i \in 1..Len(fields) : es[i] \in FormFieldData
    BY <2>2, <2>3
  <2> QED BY <2>2, <2>4
<1>2. \E past \in 0..1 : data' = Parse(ContentType(enc), FormBody(enc, es), past)
  BY DEF Submit
<1> HIDE DEF es
<1>3. FormBody(enc, es) \in Text /\ ContentType(enc) \in Text
  BY <1>1, FormBodyType
<1> QED BY <1>2, <1>3, ParseList

\* A populated field shows the content of an entry of its own name.
LEMMA PopulateFieldShown ==
  ASSUME IsList(data), NEW sh, NEW field,
         field \in [name : Names, type : HtmlTypes, value : {<<>>} \cup {r[2] : r \in sh}],
         field.value = <<>> \/ <<field.name, field.value>> \in sh
  PROVE  LET more == sh \cup {<<data[i].name, data[i].content>> : i \in DOMAIN data}
         IN  /\ PopulateField(field) \in [name : Names, type : HtmlTypes, value : {<<>>} \cup {r[2] : r \in more}]
             /\ \/ PopulateField(field).value = <<>>
                \/ <<PopulateField(field).name, PopulateField(field).value>> \in more
<1> DEFINE new == {<<data[i].name, data[i].content>> : i \in DOMAIN data}
           filling == {j \in DOMAIN data : /\ data[j].name = field.name
                                           /\ data[j].type \notin {<<PasswordType>>, <<FileType>>}}
           last == CHOOSE j \in filling : \A k \in filling : k <= j
<1>1. PopulateField(field) = IF filling = {} THEN field ELSE [field EXCEPT !.value = data[last].content]
  BY DEF PopulateField
<1>2. CASE filling = {}
  BY <1>1, <1>2
<1>3. CASE filling # {}
  <2>1. PICK n \in Nat : DOMAIN data = 1..n
    BY DEF IsList
  <2>2. filling \subseteq 1..n
    BY <2>1
  <2>3. \E j \in filling : \A k \in filling : k <= j
    <3> HIDE DEF filling
    <3> QED BY <1>3, <2>2, Greatest
  <2>4. last \in filling
    <3> HIDE DEF filling
    <3> QED BY <2>3
  <2>5. last \in DOMAIN data /\ data[last].name = field.name
    BY <2>4
  <2>6. PopulateField(field) = [field EXCEPT !.value = data[last].content]
    BY <1>1, <1>3
  <2> HIDE DEF last, filling
  <2>7. <<field.name, data[last].content>> \in new
    BY <2>5
  <2> DEFINE p == <<field.name, data[last].content>>
  <2>8. data[last].content \in {r[2] : r \in sh \cup new}
    <3>1. p \in sh \cup new /\ p[2] = data[last].content
      BY <2>7
    <3> QED BY <3>1
  <2>9. PopulateField(field).name = field.name /\ PopulateField(field).value = data[last].content
    BY <2>6
  <2> HIDE DEF new
  <2>10. PopulateField(field) \in [name : Names, type : HtmlTypes, value : {<<>>} \cup {r[2] : r \in sh \cup new}]
    BY <2>6, <2>8
  <2> QED BY <2>7, <2>9, <2>10 DEF new
<1> QED BY <1>2, <1>3

\* What a field may hold is kept by every step.
LEMMA FormStep ==
  ASSUME FormInv, [ContentNext]_contentvars
  PROVE  FormInv'
<1> DEFINE R(sh) == [name : Names, type : HtmlTypes, value : {<<>>} \cup {r[2] : r \in sh}]
<1>0. fields \in Seq(R(shown)) /\ \A i \in DOMAIN fields : fields[i].value = <<>> \/ <<fields[i].name, fields[i].value>> \in shown
  BY DEF FormInv, FieldsShown
<1>00. DOMAIN fields = 1..Len(fields) /\ Len(fields) \in Nat /\ \A i \in DOMAIN fields : fields[i] \in R(shown)
  <2> HIDE DEF R
  <2> QED BY <1>0
<1>1. ASSUME NEW name \in Names, NEW type \in HtmlTypes, AddField(name, type) PROVE FormInv'
  <2> DEFINE f == Field(name, type, <<>>)
  <2>1. f \in R(shown) /\ f.value = <<>>
    BY DEF Field
  <2>2. fields' = Append(fields, f) /\ shown' = shown /\ data' = data
    BY <1>1 DEF AddField
  <2> HIDE DEF f, R
  <2>3. fields' \in Seq(R(shown)) /\ \A i \in DOMAIN fields' : (i \in DOMAIN fields /\ fields'[i] = fields[i]) \/ fields'[i] = f
    BY <1>0, <2>1, <2>2
  <2>4. \A i \in DOMAIN fields' : fields'[i].value = <<>> \/ <<fields'[i].name, fields'[i].value>> \in shown
    BY <1>0, <2>1, <2>3
  <2>5. FieldsShown(fields', shown')
    BY <2>2, <2>3, <2>4 DEF FieldsShown, R
  <2> QED BY <2>2, <2>5 DEF FormInv
<1>2. ASSUME NEW enc \in Encodings, NEW typed \in [Names -> Contents], Submit(enc, typed) PROVE FormInv'
  <2>1. fields' = fields /\ shown' = shown
    BY <1>2 DEF Submit
  <2>2. data' = None \/ IsList(data')
    BY <1>2, SubmitList
  <2>3. FieldsShown(fields', shown')
    BY <2>1 DEF FormInv
  <2> QED BY <2>2, <2>3 DEF FormInv
<1>3. ASSUME Populate PROVE FormInv'
  <2>1. IsList(data) /\ data' = data
    BY <1>3 DEF Populate, FormInv
  <2>2. /\ fields' = [i \in DOMAIN fields |-> PopulateField(fields[i])]
        /\ shown' = shown \cup {<<data[i].name, data[i].content>> : i \in DOMAIN data}
    BY <1>3 DEF Populate
  <2>3. ASSUME NEW i \in DOMAIN fields
        PROVE  /\ PopulateField(fields[i]) \in R(shown')
               /\ \/ PopulateField(fields[i]).value = <<>>
                  \/ <<PopulateField(fields[i]).name, PopulateField(fields[i]).value>> \in shown'
    BY <1>0, <1>00, <2>1, <2>2, PopulateFieldShown
  <2> HIDE DEF R
  <2>4. fields' \in Seq(R(shown'))
    <3>1. fields' = [i \in 1..Len(fields) |-> PopulateField(fields[i])]
      BY <1>00, <2>2
    <3>2. \A i \in 1..Len(fields) : PopulateField(fields[i]) \in R(shown')
      BY <1>00, <2>3
    <3> QED BY <1>00, <3>1, <3>2
  <2>5. FieldsShown(fields', shown')
    BY <2>2, <2>3, <2>4 DEF FieldsShown, R
  <2> QED BY <2>1, <2>5 DEF FormInv
<1>4. ASSUME ClearValues PROVE FormInv'
  <2>1. fields' = [i \in DOMAIN fields |-> [fields[i] EXCEPT !.value = <<>>]] /\ shown' = {} /\ data' = data
    BY <1>4 DEF ClearValues, Cleared
  <2>2. \A f \in R(shown) : [f EXCEPT !.value = <<>>] \in R({}) /\ [f EXCEPT !.value = <<>>].value = <<>>
    OBVIOUS
  <2> HIDE DEF R
  <2>3. fields' \in Seq(R({})) /\ \A i \in DOMAIN fields' : fields'[i].value = <<>>
    <3>1. fields' = [i \in 1..Len(fields) |-> [fields[i] EXCEPT !.value = <<>>]]
      BY <1>00, <2>1
    <3>2. \A i \in 1..Len(fields) : [fields[i] EXCEPT !.value = <<>>] \in R({})
                                   /\ [fields[i] EXCEPT !.value = <<>>].value = <<>>
      BY <1>00, <2>2
    <3>3. DOMAIN fields' = 1..Len(fields)
      BY <3>1
    <3>4. \A i \in 1..Len(fields) : fields'[i] = [fields[i] EXCEPT !.value = <<>>]
      BY <3>1
    <3>5. \A i \in DOMAIN fields' : fields'[i].value = <<>>
      BY <3>2, <3>3, <3>4
    <3>6. \A i \in 1..Len(fields) : fields'[i] \in R({})
      BY <3>2, <3>4
    <3>7. fields' = [i \in 1..Len(fields) |-> fields'[i]]
      BY <3>1, <3>4
    <3>8. fields' \in Seq(R({}))
      BY <1>00, <3>6, <3>7
    <3> QED BY <3>5, <3>8
  <2>4. FieldsShown(fields', shown')
    BY <2>1, <2>3 DEF FieldsShown, R
  <2> QED BY <2>1, <2>4 DEF FormInv
<1>5. ASSUME UNCHANGED <<fields, data, shown>> PROVE FormInv'
  <2>1. fields' = fields /\ data' = data /\ shown' = shown
    BY <1>5
  <2> QED BY <2>1 DEF FormInv
<1>6. CASE Keep
  BY <1>1, <1>2, <1>3, <1>4, <1>6 DEF Keep
<1>7. CASE Question
  BY <1>5, <1>7 DEF Question, ParseForm, ReadCookie, Authorise, Ask
<1>8. CASE NextRequest
  BY <1>5, <1>8 DEF NextRequest
<1>9. CASE UNCHANGED contentvars
  BY <1>5, <1>9 DEF contentvars
<1> QED BY <1>6, <1>7, <1>8, <1>9 DEF ContentNext

\* A form that is served again shows only what was submitted under the name of
\* the field since clear_values().
THEOREM FormShowsSinceCleared == ContentSpec => []ShownSinceCleared
<1>1. ContentInit => FormInv
  BY DEF ContentInit, FormInv, FieldsShown
<1>2. FormInv /\ [ContentNext]_contentvars => FormInv'
  BY FormStep
<1>3. FormInv => ShownSinceCleared
  BY DEF FormInv, FieldsShown, ShownSinceCleared, Rendered
<1> QED BY <1>1, <1>2, <1>3, PTL DEF ContentSpec

-----------------------------------------------------------------------------
(* Pieces that do not contain the delimiter are what split() gives back.   *)

Avoids(s, c) == \A k \in 1..Len(s) : s[k] # c

\* Where a delimiter stands there is its first character.
LEMMA StandsHead ==
  ASSUME NEW s \in Text, NEW d \in Text, d # <<>>, NEW p \in Nat, Stands(s, d, p)
  PROVE  p + 1 \in 1..Len(s) /\ s[p + 1] = d[1]
<1>1. Len(s) \in Nat /\ Len(d) \in Nat \ {0} /\ p + Len(d) <= Len(s)
  BY DEF Text, Stands
<1>2. 1 \in 1..((p + Len(d)) - (p + 1) + 1)
  BY <1>1
<1>3. SubSeq(s, p + 1, p + Len(d))[1] = s[p + 1]
  BY <1>1, <1>2 DEF Text
<1> QED BY <1>1, <1>3 DEF Stands

\* The members of a stretch of a text.
LEMMA Stretch ==
  ASSUME NEW s \in Text, NEW b \in Nat, NEW e \in Nat, e <= Len(s)
  PROVE  /\ SubSeq(s, b + 1, e) \in Text
         /\ Len(SubSeq(s, b + 1, e)) = IF b <= e THEN e - b ELSE 0
         /\ \A k \in 1..(e - b) : SubSeq(s, b + 1, e)[k] = s[b + k]
<1>1. Len(s) \in Nat /\ \A i \in (b + 1)..e : s[i] \in Nat
  BY DEF Text
<1>2. /\ SubSeq(s, b + 1, e) \in Seq(Nat)
      /\ Len(SubSeq(s, b + 1, e)) = IF b + 1 <= e THEN e - (b + 1) + 1 ELSE 0
      /\ \A k \in 1..(e - (b + 1) + 1) : SubSeq(s, b + 1, e)[k] = s[(b + 1) + k - 1]
  <2>1. b + 1 \in Int /\ e \in Int
    OBVIOUS
  <2> QED BY <1>1, <2>1, SubSeqProperties
<1>3. e - (b + 1) + 1 = e - b /\ \A k \in 1..(e - b) : (b + 1) + k - 1 = b + k
  OBVIOUS
<1> DEFINE m == SubSeq(s, b + 1, e)
<1> HIDE DEF m
<1>4. m \in Text
  BY <1>2 DEF Text, m
<1>5. Len(m) = IF b <= e THEN e - b ELSE 0
  <2>1. Len(m) = IF b + 1 <= e THEN e - (b + 1) + 1 ELSE 0
    BY <1>2 DEF m
  <2> QED BY <2>1
<1>6. \A k \in 1..(e - b) : m[k] = s[b + k]
  BY <1>2, <1>3 DEF m
<1> QED BY <1>4, <1>5, <1>6 DEF m

\* The members of a concatenation.
LEMMA ConcatAt ==
  ASSUME NEW u \in Text, NEW v \in Text
  PROVE  /\ u \o v \in Text /\ Len(u \o v) = Len(u) + Len(v) /\ Len(u) \in Nat /\ Len(v) \in Nat
         /\ \A k \in 1..Len(u) : (u \o v)[k] = u[k]
         /\ \A k \in 1..Len(v) : (u \o v)[Len(u) + k] = v[k]
<1>1. u \in Seq(Nat) /\ v \in Seq(Nat)
  BY DEF Text
<1> QED BY <1>1 DEF Text

\* Texts with the same members are the same.
LEMMA TextEqual ==
  ASSUME NEW u \in Text, NEW v \in Text, Len(u) = Len(v), \A k \in 1..Len(u) : u[k] = v[k]
  PROVE  u = v
  BY SeqEqual DEF Text

\* Concatenation is associative, and <<>> its unit.
LEMMA ConcatText ==
  ASSUME NEW u \in Text, NEW v \in Text, NEW w \in Text
  PROVE  (u \o v) \o w = u \o (v \o w) /\ <<>> \o u = u /\ u \o <<>> = u
<1>1. u \in Seq(Nat) /\ v \in Seq(Nat) /\ w \in Seq(Nat)
  BY DEF Text
<1>2. (u \o v) \o w = u \o (v \o w)
  <2> DEFINE x == u \o v
             y == v \o w
             l == x \o w
             r == u \o y
  <2>1. Len(u) \in Nat /\ Len(v) \in Nat /\ Len(w) \in Nat
    BY <1>1
  <2>2. /\ x \in Text /\ Len(x) = Len(u) + Len(v)
        /\ \A k \in 1..Len(u) : x[k] = u[k]
        /\ \A k \in 1..Len(v) : x[Len(u) + k] = v[k]
    BY ConcatAt
  <2>3. /\ y \in Text /\ Len(y) = Len(v) + Len(w)
        /\ \A k \in 1..Len(v) : y[k] = v[k]
        /\ \A k \in 1..Len(w) : y[Len(v) + k] = w[k]
    BY ConcatAt
  <2> HIDE DEF x, y
  <2>4. /\ l \in Text /\ Len(l) = Len(x) + Len(w)
        /\ \A k \in 1..Len(x) : l[k] = x[k]
        /\ \A k \in 1..Len(w) : l[Len(x) + k] = w[k]
    BY <2>2, ConcatAt
  <2>5. /\ r \in Text /\ Len(r) = Len(u) + Len(y)
        /\ \A k \in 1..Len(u) : r[k] = u[k]
        /\ \A k \in 1..Len(y) : r[Len(u) + k] = y[k]
    BY <2>3, ConcatAt
  <2> HIDE DEF l, r
  <2>6. Len(l) = Len(u) + Len(v) + Len(w) /\ Len(r) = Len(l)
    BY <2>1, <2>2, <2>3, <2>4, <2>5
  <2>7. ASSUME NEW k \in 1..Len(l) PROVE l[k] = r[k]
    <3>1. CASE k \in 1..Len(u)
      <4>1. k \in 1..Len(x)
        BY <2>1, <2>2, <3>1
      <4> QED BY <2>2, <2>4, <2>5, <3>1, <4>1
    <3>2. ASSUME NEW h \in 1..Len(v), k = Len(u) + h PROVE l[k] = r[k]
      <4>1. k \in 1..Len(x) /\ h \in 1..Len(y)
        BY <2>1, <2>2, <2>3, <3>2
      <4>2. l[k] = v[h]
        BY <2>2, <2>4, <3>2, <4>1
      <4>3. r[k] = v[h]
        BY <2>3, <2>5, <3>2, <4>1
      <4> QED BY <4>2, <4>3
    <3>3. ASSUME NEW h \in 1..Len(w), k = Len(u) + Len(v) + h PROVE l[k] = r[k]
      <4>1. k = Len(x) + h /\ k = Len(u) + (Len(v) + h) /\ Len(v) + h \in 1..Len(y)
        BY <2>1, <2>2, <2>3, <3>3
      <4>2. l[k] = w[h]
        BY <2>4, <4>1
      <4>3. r[k] = w[h]
        BY <2>3, <2>5, <4>1
      <4> QED BY <4>2, <4>3
    <3>4. CASE k \in 1..Len(u) \/ (\E h \in 1..Len(v) : k = Len(u) + h) \/ \E h \in 1..Len(w) : k = Len(u) + Len(v) + h
      BY <3>1, <3>2, <3>3, <3>4
    <3>5. k \in 1..Len(u) \/ (k - Len(u) \in 1..Len(v) /\ k = Len(u) + (k - Len(u)))
          \/ (k - Len(u) - Len(v) \in 1..Len(w) /\ k = Len(u) + Len(v) + (k - Len(u) - Len(v)))
      BY <2>1, <2>6
    <3> QED BY <3>4, <3>5
  <2>8. l = r
    BY <2>4, <2>5, <2>6, <2>7, TextEqual
  <2> QED BY <2>8 DEF l, r, x, y
<1> QED BY <1>1, <1>2

\* Which two are put together first makes no difference.
Associated(u, v, w) == (u \o v) \o w = u \o (v \o w)

\* Of texts it makes none.
LEMMA TextAssociative ==
  ASSUME NEW u \in Text, NEW v \in Text, NEW w \in Text
  PROVE  Associated(u, v, w)
  BY ConcatText DEF Associated

\* And what is empty adds nothing.
LEMMA TextUnit ==
  ASSUME NEW u \in Text
  PROVE  <<>> \o u = u /\ u \o <<>> = u
  BY ConcatText

\* The middle of three texts.
LEMMA Middle ==
  ASSUME NEW t \in Text, NEW u \in Text, NEW v \in Text
  PROVE  SubSeq(t \o u \o v, Len(t) + 1, Len(t) + Len(u)) = u
<1> DEFINE s == t \o u \o v
           m == SubSeq(s, Len(t) + 1, Len(t) + Len(u))
<1>1. Len(t) \in Nat /\ Len(u) \in Nat /\ Len(v) \in Nat
      /\ t \in Seq(Nat) /\ u \in Seq(Nat) /\ v \in Seq(Nat)
  BY DEF Text
<1>2. s \in Seq(Nat) /\ Len(s) = Len(t) + Len(u) + Len(v)
  BY <1>1
<1>3. m \in Seq(Nat) /\ Len(m) = Len(u)
  <2> HIDE DEF s
  <2>1. \A k \in (Len(t) + 1)..(Len(t) + Len(u)) : s[k] \in Nat
    <3>1. ASSUME NEW k \in (Len(t) + 1)..(Len(t) + Len(u)) PROVE k \in 1..Len(s)
      BY ONLY <1>1, <1>2, <3>1
    <3> QED BY ONLY <1>2, <3>1
  <2> QED BY <1>1, <1>2, <2>1
<1>4. \A k \in 1..Len(u) : m[k] = s[Len(t) + k]
  <2>1. s \in Text /\ Len(t) + Len(u) \in Nat /\ Len(t) + Len(u) <= Len(s) /\ (Len(t) + Len(u)) - Len(t) = Len(u)
    BY <1>1, <1>2 DEF Text
  <2> HIDE DEF s
  <2> QED BY <1>1, <2>1, Stretch
<1>5. \A k \in 1..Len(u) : s[Len(t) + k] = u[k]
  <2> TAKE k \in 1..Len(u)
  <2> DEFINE tu == t \o u
  <2>1. tu \in Seq(Nat) /\ Len(tu) = Len(t) + Len(u) /\ tu[Len(t) + k] = u[k]
    BY <1>1
  <2>2. Len(t) + k \in 1..Len(tu)
    BY <1>1, <2>1
  <2> HIDE DEF tu
  <2>3. (tu \o v)[Len(t) + k] = tu[Len(t) + k]
    BY <1>1, <2>1, <2>2
  <2> QED BY <2>1, <2>3 DEF tu
<1> HIDE DEF m, s
<1>6. \A k \in 1..Len(m) : m[k] = u[k]
  BY <1>3, <1>4, <1>5
<1>7. m = u
  BY <1>1, <1>3, <1>6, SeqEqual
<1> QED BY <1>7 DEF m, s

\* Where the pieces of s are.
Laid(s, d, parts, b) ==
  /\ b \in [1..Len(parts) -> Nat] /\ b[1] = 0
  /\ \A i \in 1..Len(parts) : /\ parts[i] # <<>> /\ Avoids(parts[i], d[1])
                              /\ b[i] + Len(parts[i]) <= Len(s)
                              /\ SubSeq(s, b[i] + 1, b[i] + Len(parts[i])) = parts[i]
  /\ \A i \in 1..(Len(parts) - 1) : /\ b[i + 1] = b[i] + Len(parts[i]) + Len(d)
                                    /\ Stands(s, d, b[i] + Len(parts[i]))
  /\ LET e == b[Len(parts)] + Len(parts[Len(parts)])
     IN  e = Len(s) \/ (Stands(s, d, e) /\ e + Len(d) = Len(s))

\* split() returns pieces that are laid out so.
LEMMA SplitLaid ==
  ASSUME NEW s \in Text, NEW d \in Text, d # <<>>, NEW parts \in Seq(Text), parts # <<>>,
         NEW b, Laid(s, d, parts, b)
  PROVE  Split(s, d) = parts
<1> DEFINE n == Len(parts)
           e == [i \in 1..n |-> b[i] + Len(parts[i])]
<1>1. n \in Nat \ {0} /\ Len(d) \in Nat \ {0} /\ Len(s) \in Nat
  BY DEF Text
<1>2. \A i \in 1..n : /\ b[i] \in Nat /\ Len(parts[i]) \in Nat \ {0} /\ e[i] = b[i] + Len(parts[i])
                      /\ e[i] \in Nat \ {0} /\ b[i] <= e[i] /\ e[i] <= Len(s)
  <2> TAKE i \in 1..n
  <2>1. b[i] \in Nat /\ parts[i] # <<>> /\ b[i] + Len(parts[i]) <= Len(s)
    BY DEF Laid
  <2>x. parts[i] \in Seq(Nat)
    BY DEF Text
  <2>2. Len(parts[i]) \in Nat \ {0}
    BY <2>1, <2>x
  <2> QED BY <2>1, <2>2
<1>3. \A i \in 1..n : \A p \in Nat : p >= b[i] /\ p < e[i] => ~Stands(s, d, p)
  <2> SUFFICES ASSUME NEW i \in 1..n, NEW p \in Nat, p >= b[i], p < e[i], Stands(s, d, p) PROVE FALSE
    OBVIOUS
  <2>1. s[p + 1] = d[1]
    BY StandsHead
  <2> DEFINE bi == b[i]
             ei == e[i]
             k == p + 1 - bi
  <2>2. bi \in Nat /\ ei \in Nat /\ ei <= Len(s) /\ ei = bi + Len(parts[i]) /\ p >= bi /\ p < ei
        /\ Len(parts[i]) \in Nat
    BY <1>2
  <2>3. parts[i] = SubSeq(s, bi + 1, ei)
    BY <2>2 DEF Laid
  <2> HIDE DEF bi, ei
  <2>4. k \in 1..Len(parts[i]) /\ k \in 1..(ei - bi) /\ bi + k = p + 1
    BY <2>2
  <2>5. SubSeq(s, bi + 1, ei)[k] = s[bi + k]
    <3> HIDE DEF k
    <3> QED BY <2>2, <2>4, Stretch
  <2>6. parts[i][k] = d[1]
    BY <2>1, <2>3, <2>4, <2>5
  <2>7. Avoids(parts[i], d[1])
    BY DEF Laid
  <2> HIDE DEF k
  <2> QED BY <2>4, <2>6, <2>7 DEF Avoids
<1>4. Marked(s, d, n, b, e)
  <2>1. b \in [1..n -> Nat] /\ e \in [1..n -> Nat] /\ b[1] = 0 /\ e[1] # 0
    <3>1. 1 \in 1..n
      BY <1>1
    <3> QED BY <1>2, <3>1 DEF Laid
  <2>2. ASSUME NEW i \in 1..(n - 1) PROVE b[i + 1] = e[i] + Len(d) /\ b[i + 1] < Len(s) /\ Stands(s, d, e[i])
    <3>1. i \in 1..n /\ i + 1 \in 1..n
      BY <1>1
    <3>2. b[i + 1] = b[i] + Len(parts[i]) + Len(d) /\ Stands(s, d, b[i] + Len(parts[i]))
      BY DEF Laid
    <3>3. e[i] = b[i] + Len(parts[i]) /\ e[i + 1] = b[i + 1] + Len(parts[i + 1]) /\ e[i + 1] <= Len(s)
          /\ b[i + 1] \in Nat /\ Len(parts[i + 1]) \in Nat \ {0}
      BY <1>2, <3>1
    <3> HIDE DEF e
    <3> QED BY <1>1, <3>2, <3>3
  <2>3. e[n] = Len(s) \/ (Stands(s, d, e[n]) /\ e[n] + Len(d) = Len(s))
    <3>1. n \in 1..n
      BY <1>1
    <3>2. e[n] = b[n] + Len(parts[n])
      BY <1>2, <3>1
    <3> QED BY <3>2 DEF Laid
  <2> HIDE DEF e, n
  <2> QED BY <1>2, <1>3, <2>1, <2>2, <2>3 DEF Marked
<1>5. Split(s, d) = [i \in 1..n |-> SubSeq(s, b[i] + 1, e[i])]
  <2> HIDE DEF e, n
  <2> QED BY <1>1, <1>4, SplitMarked
<1>6. \A i \in 1..n : SubSeq(s, b[i] + 1, e[i]) = parts[i]
  BY <1>2 DEF Laid
<1>7. parts = [i \in 1..n |-> parts[i]]
  OBVIOUS
<1> HIDE DEF e, n
<1> QED BY <1>5, <1>6, <1>7

\* Two pieces and a delimiter.
LEMMA SplitTwo ==
  ASSUME NEW u \in Text, NEW v \in Text, NEW d \in Text, d # <<>>, u # <<>>, v # <<>>,
         Avoids(u, d[1]), Avoids(v, d[1])
  PROVE  Split(u \o d \o v, d) = <<u, v>>
<1> DEFINE s == u \o d \o v
           b == [i \in 1..2 |-> IF i = 1 THEN 0 ELSE Len(u) + Len(d)]
<1>1. Len(u) \in Nat \ {0} /\ Len(v) \in Nat \ {0} /\ Len(d) \in Nat \ {0}
  BY DEF Text
<1>2. s \in Text /\ Len(s) = Len(u) + Len(d) + Len(v)
  BY DEF Text
<1>3. SubSeq(s, 1, Len(u)) = u
  <2>1. s = <<>> \o u \o (d \o v)
    <3>1. Associated(u, d, v) /\ <<>> \o u = u
      BY TextAssociative, TextUnit
    <3> QED BY <3>1 DEF Associated
  <2>2. d \o v \in Text /\ <<>> \in Text /\ Len(<<>>) = 0
    BY TextConcat
  <2>3. SubSeq(<<>> \o u \o (d \o v), 0 + 1, 0 + Len(u)) = u
    BY <2>2, Middle
  <2> HIDE DEF s
  <2> QED BY <1>1, <2>1, <2>3
<1>4. SubSeq(s, Len(u) + 1, Len(u) + Len(d)) = d
  BY Middle
<1>5. SubSeq(s, Len(u) + Len(d) + 1, Len(u) + Len(d) + Len(v)) = v
  <2>1. u \o d \in Text /\ Len(u \o d) = Len(u) + Len(d) /\ (u \o d) \o v \o <<>> = s
    BY DEF Text
  <2>2. SubSeq((u \o d) \o v \o <<>>, Len(u \o d) + 1, Len(u \o d) + Len(v)) = v
    BY <2>1, TextConcat, Middle
  <2> HIDE DEF s
  <2> QED BY <2>1, <2>2
<1> HIDE DEF s
<1>6. b \in [1..2 -> Nat] /\ b[1] = 0 /\ b[2] = Len(u) + Len(d)
  BY <1>1
<1> HIDE DEF b
<1> DEFINE parts == <<u, v>>
<1>7. parts \in Seq(Text) /\ Len(parts) = 2 /\ parts[1] = u /\ parts[2] = v /\ parts # <<>>
  OBVIOUS
<1> HIDE DEF parts
<1>8. Laid(s, d, parts, b)
  <2>1. ASSUME NEW i \in 1..2
        PROVE  /\ parts[i] # <<>> /\ Avoids(parts[i], d[1])
               /\ b[i] + Len(parts[i]) <= Len(s)
               /\ SubSeq(s, b[i] + 1, b[i] + Len(parts[i])) = parts[i]
    <3>1. CASE i = 1
      <4>1. 0 + 1 = 1 /\ 0 + Len(u) = Len(u)
        BY <1>1
      <4> QED BY <1>1, <1>2, <1>3, <1>6, <1>7, <3>1, <4>1
    <3>2. CASE i = 2
      <4>1. parts[i] = v /\ b[i] = Len(u) + Len(d)
        BY <1>6, <1>7, <3>2
      <4>2. v # <<>> /\ Avoids(v, d[1]) /\ Len(u) + Len(d) + Len(v) <= Len(s)
        BY <1>1, <1>2
      <4> QED BY ONLY <1>5, <4>1, <4>2
    <3> QED BY <3>1, <3>2
  <2>2. ASSUME NEW i \in 1..1
        PROVE  b[i + 1] = b[i] + Len(parts[i]) + Len(d) /\ Stands(s, d, b[i] + Len(parts[i]))
    <3>1. i = 1 /\ i + 1 = 2 /\ 0 + Len(u) = Len(u)
      BY <1>1
    <3>2. Stands(s, d, Len(u))
      BY <1>1, <1>2, <1>4 DEF Stands
    <3> QED BY <1>6, <1>7, <3>1, <3>2
  <2>3. b[2] + Len(parts[2]) = Len(s)
    BY <1>2, <1>6, <1>7
  <2>4. 2 - 1 = 1
    OBVIOUS
  <2> QED BY <1>6, <1>7, <2>1, <2>2, <2>3, <2>4 DEF Laid
<1>9. Split(s, d) = parts
  BY <1>2, <1>7, <1>8, SplitLaid
<1> QED BY <1>9 DEF s, parts

-----------------------------------------------------------------------------
(* Texts that a character is not in.                                       *)

\* A text avoids what is not in it.
LEMMA AvoidsRange ==
  ASSUME NEW s \in Text, NEW c, c \notin Range(s)
  PROVE  Avoids(s, c)
<1>1. \A k \in 1..Len(s) : k \in DOMAIN s
  BY DEF Text
<1> QED BY <1>1 DEF Avoids, Range

\* Two texts that avoid a character avoid it together.
LEMMA AvoidsConcat ==
  ASSUME NEW u \in Text, NEW v \in Text, NEW c, Avoids(u, c), Avoids(v, c)
  PROVE  Avoids(u \o v, c)
<1> DEFINE x == u \o v
<1>1. /\ Len(x) = Len(u) + Len(v) /\ Len(u) \in Nat /\ Len(v) \in Nat
      /\ \A k \in 1..Len(u) : x[k] = u[k]
      /\ \A k \in 1..Len(v) : x[Len(u) + k] = v[k]
  BY ConcatAt
<1> HIDE DEF x
<1>2. ASSUME NEW k \in 1..Len(x) PROVE x[k] # c
  <2>1. CASE k \in 1..Len(u)
    BY <1>1, <2>1 DEF Avoids
  <2>2. CASE k \notin 1..Len(u)
    <3>1. k - Len(u) \in 1..Len(v) /\ Len(u) + (k - Len(u)) = k
      BY <1>1, <2>2
    <3>2. x[k] = v[k - Len(u)]
      BY <1>1, <3>1
    <3> QED BY <3>1, <3>2 DEF Avoids
  <2> QED BY <2>1, <2>2
<1> QED BY <1>2 DEF Avoids, x

-----------------------------------------------------------------------------
(* Two texts with a colon between them, and what split() makes of a text:  *)
(* it has to be such a pair with at most one more colon on either side.    *)

Five(a, w, q, c) == a \o w \o <<Colon>> \o q \o c

\* Where the characters of these are.
Laying(t, a, w, q, c) ==
  /\ Len(t) = Len(a) + Len(w) + 1 + Len(q) + Len(c)
  /\ \A k \in 1..Len(a) : t[k] = a[k]
  /\ \A k \in 1..Len(w) : t[Len(a) + k] = w[k]
  /\ t[Len(a) + Len(w) + 1] = Colon
  /\ \A k \in 1..Len(q) : t[Len(a) + Len(w) + 1 + k] = q[k]
  /\ \A k \in 1..Len(c) : t[Len(a) + Len(w) + 1 + Len(q) + k] = c[k]

\* The members of such a text.
LEMMA FiveAt ==
  ASSUME NEW a \in Text, NEW w \in Text, NEW q \in Text, NEW c \in Text
  PROVE  Five(a, w, q, c) \in Text /\ Laying(Five(a, w, q, c), a, w, q, c)
<1> DEFINE d == <<Colon>>
           x == a \o w
           y == x \o d
           z == y \o q
           t == z \o c
<1>1. d \in Text /\ Len(d) = 1 /\ d[1] = Colon
  BY Literals, TextConcat
<1>2. /\ x \in Text /\ Len(x) = Len(a) + Len(w) /\ Len(a) \in Nat /\ Len(w) \in Nat
      /\ (\A k \in 1..Len(a) : x[k] = a[k]) /\ \A k \in 1..Len(w) : x[Len(a) + k] = w[k]
  BY ConcatAt
<1> HIDE DEF x, d
<1>3. /\ y \in Text /\ Len(y) = Len(x) + 1
      /\ (\A k \in 1..Len(x) : y[k] = x[k]) /\ y[Len(x) + 1] = Colon
  <2>1. /\ y \in Text /\ Len(y) = Len(x) + Len(d)
        /\ (\A k \in 1..Len(x) : y[k] = x[k]) /\ \A k \in 1..Len(d) : y[Len(x) + k] = d[k]
    BY <1>1, <1>2, ConcatAt
  <2> QED BY <1>1, <2>1
<1> HIDE DEF y
<1>4. /\ z \in Text /\ Len(z) = Len(y) + Len(q) /\ Len(q) \in Nat
      /\ (\A k \in 1..Len(y) : z[k] = y[k]) /\ \A k \in 1..Len(q) : z[Len(y) + k] = q[k]
  BY <1>3, ConcatAt
<1> HIDE DEF z
<1>5. /\ t \in Text /\ Len(t) = Len(z) + Len(c) /\ Len(c) \in Nat
      /\ (\A k \in 1..Len(z) : t[k] = z[k]) /\ \A k \in 1..Len(c) : t[Len(z) + k] = c[k]
  BY <1>4, ConcatAt
<1> HIDE DEF t
<1>6. Len(x) \in Nat /\ Len(y) \in Nat /\ Len(z) \in Nat
  BY <1>2, <1>3, <1>4
<1>7. \A k \in 1..Len(y) : t[k] = y[k]
  BY <1>4, <1>5, <1>6
<1>8. \A k \in 1..Len(x) : t[k] = x[k]
  BY <1>3, <1>6, <1>7
<1>9. \A k \in 1..Len(a) : t[k] = a[k]
  BY <1>2, <1>8
<1>10. \A k \in 1..Len(w) : t[Len(a) + k] = w[k]
  <2> TAKE k \in 1..Len(w)
  <2>1. Len(a) + k \in 1..Len(x)
    BY <1>2
  <2> QED BY <1>2, <1>8, <2>1
<1>11. t[Len(a) + Len(w) + 1] = Colon
  <2>1. Len(x) + 1 \in 1..Len(y)
    BY <1>3, <1>6
  <2> QED BY <1>2, <1>3, <1>7, <2>1
<1>12. \A k \in 1..Len(q) : t[Len(a) + Len(w) + 1 + k] = q[k]
  <2> TAKE k \in 1..Len(q)
  <2>1. Len(y) + k \in 1..Len(z) /\ Len(y) = Len(a) + Len(w) + 1
    BY <1>2, <1>3, <1>4, <1>6
  <2>2. t[Len(y) + k] = q[k]
    BY <1>4, <1>5, <2>1
  <2> QED BY <2>1, <2>2
<1>13. Len(z) = Len(a) + Len(w) + 1 + Len(q)
  BY <1>2, <1>3, <1>4
<1>14. Laying(t, a, w, q, c)
  BY <1>5, <1>9, <1>10, <1>11, <1>12, <1>13 DEF Laying
<1>15. Five(a, w, q, c) = t
  BY DEF Five, t, z, y, x, d
<1> QED BY <1>5, <1>14, <1>15

\* A text with these members is such a text.
LEMMA FiveIs ==
  ASSUME NEW t \in Text, NEW a \in Text, NEW w \in Text, NEW q \in Text, NEW c \in Text,
         Laying(t, a, w, q, c)
  PROVE  t = Five(a, w, q, c)
<1> DEFINE s == Five(a, w, q, c)
           la == Len(a)
           lw == Len(w)
           lq == Len(q)
           lc == Len(c)
<1>1. s \in Text /\ Laying(s, a, w, q, c)
  BY FiveAt
<1> HIDE DEF s
<1>2. la \in Nat /\ lw \in Nat /\ lq \in Nat /\ lc \in Nat
  BY DEF Text
<1>3. /\ Len(t) = la + lw + 1 + lq + lc /\ Len(s) = la + lw + 1 + lq + lc
      /\ \A k \in 1..la : t[k] = s[k]
      /\ \A k \in 1..lw : t[la + k] = s[la + k]
      /\ t[la + lw + 1] = s[la + lw + 1]
      /\ \A k \in 1..lq : t[la + lw + 1 + k] = s[la + lw + 1 + k]
      /\ \A k \in 1..lc : t[la + lw + 1 + lq + k] = s[la + lw + 1 + lq + k]
  BY <1>1 DEF Laying
<1> HIDE DEF la, lw, lq, lc
<1>4. ASSUME NEW k \in 1..Len(t) PROVE t[k] = s[k]
  <2>1. CASE k <= la
    BY <1>2, <1>3, <2>1
  <2>2. CASE k > la /\ k <= la + lw
    <3>1. k - la \in 1..lw /\ la + (k - la) = k
      BY <1>2, <2>2
    <3>2. t[la + (k - la)] = s[la + (k - la)]
      BY <1>3, <3>1
    <3> QED BY <3>1, <3>2
  <2>3. CASE k = la + lw + 1
    BY <1>3, <2>3
  <2>4. CASE k > la + lw + 1 /\ k <= la + lw + 1 + lq
    <3> DEFINE h == k - (la + lw + 1)
    <3>1. h \in 1..lq /\ la + lw + 1 + h = k
      BY <1>2, <2>4
    <3>2. t[la + lw + 1 + h] = s[la + lw + 1 + h]
      BY <1>3, <3>1
    <3> QED BY <3>1, <3>2
  <2>5. CASE k > la + lw + 1 + lq
    <3> DEFINE h == k - (la + lw + 1 + lq)
    <3>1. h \in 1..lc /\ la + lw + 1 + lq + h = k
      <4>1. k \in 1..(la + lw + 1 + lq + lc)
        BY <1>3
      <4> QED BY ONLY <1>2, <2>5, <4>1
    <3>2. t[la + lw + 1 + lq + h] = s[la + lw + 1 + lq + h]
      BY <1>3, <3>1
    <3> QED BY <3>1, <3>2
  <2> QED BY <1>2, <1>3, <2>1, <2>2, <2>3, <2>4, <2>5
<1>5. t = s
  BY <1>1, <1>3, <1>4, TextEqual
<1> QED BY <1>5 DEF s

\* The first text is from b to e, the second from e + 1 to z.
Parted(t, b, e, z) ==
  /\ b \in {0, 1} /\ e \in Nat \ {0} /\ z \in Nat
  /\ b <= e /\ e + 1 <= z /\ e + 1 < Len(t)
  /\ b = 1 => t[1] = Colon
  /\ \A k \in (b + 1)..e : t[k] # Colon
  /\ t[e + 1] = Colon
  /\ \A k \in (e + 2)..z : t[k] # Colon
  /\ z = Len(t) \/ (z + 1 = Len(t) /\ t[z + 1] = Colon)

TwoParts(t, b, e, z) == <<SubSeq(t, b + 1, e), SubSeq(t, e + 2, z)>>

\* A delimiter of one colon stands where there is a colon.
LEMMA StandsColon ==
  ASSUME NEW t \in Text, NEW p \in Nat
  PROVE  Stands(t, <<Colon>>, p) <=> p + 1 <= Len(t) /\ t[p + 1] = Colon
<1> DEFINE d == <<Colon>>
           m == SubSeq(t, p + 1, p + 1)
<1>1. d \in Text /\ Len(d) = 1 /\ d[1] = Colon /\ Len(t) \in Nat
  BY Literals, TextConcat DEF Text
<1>2. ASSUME p + 1 <= Len(t) PROVE m = <<t[p + 1]>>
  <2>1. m \in Text /\ Len(m) = (p + 1) - p /\ \A k \in 1..((p + 1) - p) : m[k] = t[p + k]
    BY <1>2, Stretch
  <2> HIDE DEF m
  <2>2. m \in Seq(Nat) /\ Len(m) = 1 /\ m[1] = t[p + 1]
    BY <2>1 DEF Text
  <2>3. m = <<m[1]>>
    BY <2>2
  <2> QED BY <2>2, <2>3
<1> HIDE DEF m
<1>3. Stands(t, d, p) <=> p + 1 <= Len(t) /\ m = d
  BY <1>1 DEF Stands, m
<1>4. ASSUME p + 1 <= Len(t) PROVE m = d <=> t[p + 1] = Colon
  BY <1>1, <1>2, <1>4
<1> QED BY <1>3, <1>4

\* split() returns the two parts.
LEMMA SplitParted ==
  ASSUME NEW t \in Text, NEW b, NEW e, NEW z, Parted(t, b, e, z)
  PROVE  Split(t, <<Colon>>) = TwoParts(t, b, e, z)
<1> DEFINE d == <<Colon>>
<1>1. d \in Text /\ Len(d) = 1 /\ d # <<>> /\ Len(t) \in Nat
  BY Literals, TextConcat DEF Text
<1>2. /\ b \in {0, 1} /\ e \in Nat \ {0} /\ z \in Nat /\ b <= e /\ e + 1 <= z /\ e + 1 < Len(t)
      /\ b = 1 => t[1] = Colon
      /\ t[e + 1] = Colon
      /\ z = Len(t) \/ (z + 1 = Len(t) /\ t[z + 1] = Colon)
  BY DEF Parted
<1>3. \A p \in Nat : Stands(t, d, p) <=> p + 1 <= Len(t) /\ t[p + 1] = Colon
  BY StandsColon
<1>4. t # <<>>
  <2>1. Len(t) # 0
    BY <1>1, <1>2
  <2> QED BY <2>1
<1> HIDE DEF d
<1>5. PICK F : IsSplit(t, d, F)
  BY <1>1, <1>4, SplitSolved
<1>6. F[0] = F[b]
  <2>1. CASE b = 0
    BY <2>1
  <2>2. CASE b = 1
    <3>1. 0 \in Nat /\ 0 + 1 = 1 /\ 1 <= Len(t) /\ 0 <= 0 /\ \A p \in Nat : ~(p >= 0 /\ p < 0)
      BY <1>1, <1>2
    <3>2. Stands(t, d, 0)
      BY <1>2, <1>3, <2>2, <3>1
    <3>3. Find(t, d, 0) = 0
      BY <1>1, <3>1, <3>2, FindIs
    <3>4. 0 \in 0..Len(t)
      BY <1>1
    <3>5. F[0] = SplitRest(t, d, F, 0)
      BY <1>5, <3>4 DEF IsSplit
    <3> QED BY <1>1, <2>2, <3>3, <3>5 DEF SplitRest
  <2> QED BY <1>2, <2>1, <2>2
<1>7. Piece(t, d, b, e)
  <2>1. ASSUME NEW p \in Nat, p >= b, p < e PROVE ~Stands(t, d, p)
    <3>1. p + 1 \in (b + 1)..e
      BY <1>2, <2>1
    <3>2. t[p + 1] # Colon
      BY <3>1 DEF Parted
    <3> QED BY <1>3, <3>2
  <2>2. Stands(t, d, e)
    BY <1>1, <1>2, <1>3
  <2> QED BY <1>1, <1>2, <2>1, <2>2 DEF Piece
<1>8. F[b] = <<SubSeq(t, b + 1, e)>> \o F[e + 1]
  <2>1. t \in Text /\ d \in Text /\ d # <<>>
    BY <1>1
  <2>2. F[b] = <<SubSeq(t, b + 1, e)>> \o F[e + Len(d)]
    BY ONLY <1>5, <1>7, <2>1, SplitOne
  <2> QED BY <1>1, <2>2
<1>9. F[e + 1] = <<SubSeq(t, e + 2, z)>>
  <2> DEFINE f == e + 1
  <2>1. f \in Nat /\ f <= z /\ z # 0 /\ f + 1 = e + 2
    BY <1>2
  <2>2. ASSUME NEW p \in Nat, p >= f, p < z PROVE ~Stands(t, d, p)
    <3>1. p + 1 \in (e + 2)..z
      BY <1>2, <2>2
    <3>2. t[p + 1] # Colon
      BY <3>1 DEF Parted
    <3> QED BY <1>3, <3>2
  <2>3. z = Len(t) \/ (Stands(t, d, z) /\ z + Len(d) = Len(t))
    <3>1. z + 1 = Len(t) => z + 1 <= Len(t)
      BY <1>1
    <3> QED BY <1>1, <1>2, <1>3, <3>1
  <2> HIDE DEF f
  <2>4. F[f] = <<SubSeq(t, f + 1, z)>>
    <3>1. t \in Text /\ d \in Text /\ d # <<>> /\ z \in Nat
      BY <1>1, <1>2
    <3>2. \A p \in Nat : p >= f /\ p < z => ~Stands(t, d, p)
      BY <2>2
    <3> QED BY ONLY <1>5, <2>1, <2>3, <3>1, <3>2, SplitLast
  <2> QED BY <2>1, <2>4 DEF f
<1>10. Split(t, d) = F[0]
  BY <1>5 DEF IsSplit
<1> DEFINE u == SubSeq(t, b + 1, e)
           v == SubSeq(t, e + 2, z)
<1>13. u \in Text /\ v \in Text
  <2>1. b \in Nat /\ e \in Nat /\ e <= Len(t) /\ e + 1 \in Nat /\ z <= Len(t) /\ (e + 1) + 1 = e + 2
    BY <1>1, <1>2
  <2>2. SubSeq(t, (e + 1) + 1, z) \in Text
    BY <1>2, <2>1, Stretch
  <2> QED BY <2>1, <2>2, Stretch
<1> HIDE DEF u, v
<1>11. <<u>> \o <<v>> = <<u, v>>
  <2> DEFINE y == <<u>> \o <<v>>
  <2>1. <<u>> \in Seq(Text) /\ <<v>> \in Seq(Text) /\ Len(<<u>>) = 1 /\ Len(<<v>>) = 1 /\ <<u>>[1] = u /\ <<v>>[1] = v
    BY <1>13
  <2>2. y \in Seq(Text) /\ Len(y) = 2 /\ y[1] = u /\ y[2] = v
    BY <2>1
  <2> HIDE DEF y
  <2>3. y = <<y[1], y[2]>>
    BY <2>2
  <2> QED BY <2>2, <2>3 DEF y
<1>12. Split(t, d) = <<u, v>>
  BY <1>6, <1>8, <1>9, <1>10, <1>11 DEF u, v
<1> QED BY <1>12 DEF TwoParts, u, v, d

\* There is something in every rest.
LEMMA SplitSome ==
  ASSUME NEW t \in Text, NEW F, IsSplit(t, <<Colon>>, F), NEW p \in 1..Len(t)
  PROVE  F[p] \in Seq(Text) /\ Len(F[p]) >= 1
<1> DEFINE d == <<Colon>>
           found == Find(t, d, p)
<1>1. d \in Text /\ Len(d) = 1 /\ d # <<>> /\ Len(t) \in Nat /\ p \in 0..Len(t) /\ p >= 1
  <2>1. d \in Text /\ Len(d) = 1 /\ d # <<>>
    BY Literals, TextConcat
  <2>2. Len(t) \in Nat
    BY DEF Text
  <2> HIDE DEF d
  <2> QED BY <2>1, <2>2
<1> HIDE DEF d
<1>2. F \in [0..Len(t) -> Seq(Text)] /\ F[p] = SplitRest(t, d, F, p)
  BY <1>1 DEF IsSplit, d
<1>3. F[p] \in Seq(Text)
  BY <1>1, <1>2
<1>4. \/ found = 0 /\ Len(d) \in (p + 1)..Len(t)
      \/ SplitRest(t, d, F, p) = <<SubSeq(t, p + 1, Len(t))>>
      \/ SplitRest(t, d, F, p) = <<SubSeq(t, p + 1, found)>>
      \/ /\ found + Len(d) \in (p + 1)..(Len(t) - 1)
         /\ SplitRest(t, d, F, p) = <<SubSeq(t, p + 1, found)>> \o F[found + Len(d)]
  BY <1>1, SplitRestCases
<1>5. ~(found = 0 /\ Len(d) \in (p + 1)..Len(t))
  BY <1>1
<1>6. CASE SplitRest(t, d, F, p) = <<SubSeq(t, p + 1, Len(t))>> \/ SplitRest(t, d, F, p) = <<SubSeq(t, p + 1, found)>>
  <2>1. Len(F[p]) = 1
    BY <1>2, <1>6
  <2> QED BY <1>3, <2>1
<1>7. CASE /\ found + Len(d) \in (p + 1)..(Len(t) - 1)
           /\ SplitRest(t, d, F, p) = <<SubSeq(t, p + 1, found)>> \o F[found + Len(d)]
  <2> DEFINE g == F[found + Len(d)]
             u == SubSeq(t, p + 1, found)
  <2>1. found + Len(d) \in 0..Len(t)
    BY <1>1, <1>7
  <2>2. g \in Seq(Text)
    BY <1>2, <2>1
  <2> HIDE DEF g, u
  <2>3. F[p] = <<u>> \o g
    BY <1>2, <1>7 DEF g, u
  <2>4. Len(<<u>> \o g) = 1 + Len(g) /\ Len(g) \in Nat
    BY <2>2
  <2> QED BY <1>3, <2>3, <2>4
<1> QED BY <1>4, <1>5, <1>6, <1>7

\* Behind the first of two there is one.
LEMMA LastOfTwo ==
  ASSUME NEW x, NEW y, NEW rest \in Seq(Text), y = <<x>> \o rest, Len(y) = 2
  PROVE  Len(rest) = 1
<1>1. Len(<<x>> \o rest) = 1 + Len(rest) /\ Len(rest) \in Nat
  <2>1. <<x>> \in Seq(Text \cup {x}) /\ rest \in Seq(Text \cup {x}) /\ Len(<<x>>) = 1
    OBVIOUS
  <2> QED BY <2>1
<1>2. 2 = 1 + Len(rest)
  BY <1>1
<1> QED BY <1>1, <1>2

\* A text that split() makes two of is parted so.
LEMMA PartedOfTwo ==
  ASSUME NEW t \in Text, Len(Split(t, <<Colon>>)) = 2
  PROVE  \E b, e, z : Parted(t, b, e, z)
<1> DEFINE d == <<Colon>>
           n == Len(t)
<1>1. d \in Text /\ Len(d) = 1 /\ d # <<>> /\ n \in Nat
  BY Literals, TextConcat DEF Text
<1>2. t # <<>>
  <2>1. CASE t = <<>>
    <3>1. Split(t, d) = <<>>
      BY <2>1 DEF Split
    <3> QED BY <3>1
  <2> QED BY <2>1
<1>3. n # 0
  BY <1>2 DEF Text
<1>4. \A p \in Nat : Stands(t, d, p) <=> p + 1 <= n /\ t[p + 1] = Colon
  BY StandsColon
<1>5. \E F : IsSplit(t, <<Colon>>, F)
  BY <1>1, <1>2, SplitSolved
<1>6. PICK F : IsSplit(t, <<Colon>>, F)
  BY <1>5
<1>7. \A p \in 1..n : F[p] \in Seq(Text) /\ Len(F[p]) >= 1
  BY <1>6, SplitSome
<1>8. \A p \in 0..n : F[p] = SplitRest(t, d, F, p)
  BY <1>6 DEF IsSplit
<1>9. Len(F[0]) = 2
  BY <1>6 DEF IsSplit
<1> HIDE DEF d, n
\* The rest from b makes two, and b is behind a delimiter at the start.
<1>10. \E b \in {0, 1} : b <= n /\ Len(F[b]) = 2 /\ Find(t, d, b) # 0 /\ (b = 1 => t[1] = Colon)
  <2>1. CASE Find(t, d, 0) = 0
    <3>1. 0 \in Nat /\ Npos # 0
      BY DEF Npos
    <3>2. Stands(t, d, 0)
      BY <1>1, <2>1, <3>1, FindFirst
    <3>3. t[1] = Colon /\ 1 <= n
      BY <1>4, <3>2
    <3>4. F[0] = F[1]
      <4>1. F[0] = SplitRest(t, d, F, 0)
        BY <1>1, <1>8
      <4> QED BY <1>1, <2>1, <4>1 DEF SplitRest
    <3>5. Find(t, d, 1) # 0
      <4>1. Find(t, d, 1) = Npos \/ 1 <= Find(t, d, 1)
        BY <1>1, FindFirst
      <4> QED BY <4>1 DEF Npos
    <3> QED BY <1>9, <3>3, <3>4, <3>5
  <2>2. CASE Find(t, d, 0) # 0
    BY <1>1, <1>9, <2>2
  <2> QED BY <2>1, <2>2
<1>11. PICK b \in {0, 1} : b <= n /\ Len(F[b]) = 2 /\ Find(t, d, b) # 0 /\ (b = 1 => t[1] = Colon)
  BY <1>10
<1> DEFINE e == Find(t, d, b)
           f == e + 1
<1>12. /\ e \in Nat \ {0} /\ b <= e /\ f \in (b + 1)..(n - 1) /\ f \in 1..n
       /\ F[b] = <<SubSeq(t, b + 1, e)>> \o F[f]
  <2>1. b \in 0..Len(t)
    BY <1>1, <1>11 DEF n
  <2>2. F[b] = SplitRest(t, d, F, b)
    BY <1>8, <2>1 DEF n
  <2>3. Len(F[b]) = 2
    BY <1>11
  <2>4. \A x : Len(<<x>>) # 2
    OBVIOUS
  <2>5. /\ e \in Nat \ {0} /\ b <= e /\ e + Len(d) \in (b + 1)..(Len(t) - 1)
        /\ SplitRest(t, d, F, b) = <<SubSeq(t, b + 1, e)>> \o F[e + Len(d)]
    <3> DEFINE R == SplitRest(t, d, F, b)
    <3>1. R = F[b] /\ Len(R) = 2
      BY <2>2, <2>3
    <3>2. e # 0
      BY <1>11
    <3>3. \/ e = 0
          \/ R = <<SubSeq(t, b + 1, Len(t))>>
          \/ R = <<SubSeq(t, b + 1, e)>>
          \/ /\ e \in Nat \ {0} /\ b <= e /\ e + Len(d) \in (b + 1)..(Len(t) - 1)
             /\ R = <<SubSeq(t, b + 1, e)>> \o F[e + Len(d)]
      <4>1. t \in Text /\ d \in Text /\ d # <<>>
        BY <1>1
      <4> QED BY ONLY <2>1, <4>1, SplitRestCases
    <3> HIDE DEF R, e
    <3>4. R # <<SubSeq(t, b + 1, Len(t))>> /\ R # <<SubSeq(t, b + 1, e)>>
      BY ONLY <2>4, <3>1
    <3>5. R = SplitRest(t, d, F, b)
      BY DEF R
    <3> QED BY ONLY <3>2, <3>3, <3>4, <3>5
  <2> QED BY <1>1, <1>11, <2>2, <2>5 DEF n
<1>13. Len(F[f]) = 1
  <2>1. F[f] \in Seq(Text) /\ F[b] = <<SubSeq(t, b + 1, e)>> \o F[f] /\ Len(F[b]) = 2
    BY <1>7, <1>11, <1>12
  <2> QED BY ONLY <2>1, LastOfTwo
<1>14. Stands(t, d, e) /\ \A p \in Nat : p >= b /\ p < e => ~Stands(t, d, p)
  <2>1. b \in Nat /\ Npos \notin Nat
    BY <1>11 DEF Npos
  <2> QED BY <1>1, <1>12, <2>1, FindFirst
<1> HIDE DEF e
<1>15. t[e + 1] = Colon /\ e + 1 < n
  BY <1>1, <1>4, <1>12, <1>14
<1>16. ASSUME NEW k \in (b + 1)..e PROVE t[k] # Colon
  <2>1. k - 1 \in Nat /\ k - 1 >= b /\ k - 1 < e /\ (k - 1) + 1 = k /\ k <= n
    BY <1>1, <1>11, <1>12
  <2>2. ~Stands(t, d, k - 1)
    BY <1>14, <2>1
  <2> QED BY <1>4, <2>1, <2>2
<1> DEFINE g == Find(t, d, f)
           z == IF g = Npos THEN n ELSE g
<1>17. f \in Nat /\ f \in 0..Len(t) /\ f >= 1
  BY <1>1, <1>12 DEF n
<1> HIDE DEF f
<1>18. \/ g = Npos /\ \A p \in Nat : p >= f => ~Stands(t, d, p)
       \/ /\ g \in Nat /\ f <= g /\ Stands(t, d, g)
          /\ \A p \in Nat : p >= f /\ p < g => ~Stands(t, d, p)
  BY <1>1, <1>17, FindFirst
<1>19. g = Npos \/ (g \in Nat /\ g + 1 = n)
  <2>1. F[f] = SplitRest(t, d, F, f)
    BY <1>8, <1>17 DEF n
  <2>2. \/ g = 0
        \/ g = Npos
        \/ g \in Nat \ {0} /\ g + Len(d) = Len(t)
        \/ /\ g + Len(d) \in (f + 1)..(Len(t) - 1)
           /\ SplitRest(t, d, F, f) = <<SubSeq(t, f + 1, g)>> \o F[g + Len(d)]
    BY <1>1, <1>17, SplitRestCases
  <2>3. g # 0
    BY <1>17, <1>18 DEF Npos
  <2>4. CASE /\ g + Len(d) \in (f + 1)..(Len(t) - 1)
             /\ SplitRest(t, d, F, f) = <<SubSeq(t, f + 1, g)>> \o F[g + Len(d)]
    <3> DEFINE r == F[g + Len(d)]
               u == SubSeq(t, f + 1, g)
    <3>1. g + Len(d) \in 1..n
      BY <1>1, <1>17, <2>4 DEF n
    <3>2. r \in Seq(Text) /\ Len(r) >= 1
      BY <1>7, <3>1
    <3> HIDE DEF r, u
    <3>3. F[f] = <<u>> \o r
      BY <2>1, <2>4 DEF r, u
    <3>4. Len(<<u>> \o r) = 1 + Len(r) /\ Len(r) \in Nat
      BY <3>2
    <3> QED BY <1>13, <3>2, <3>3, <3>4
  <2> QED BY <1>1, <2>2, <2>3, <2>4 DEF n
<1> HIDE DEF g
<1>20. /\ z \in Nat /\ f <= z
       /\ \A p \in Nat : p >= f /\ p < z => ~Stands(t, d, p)
       /\ z = n \/ (z + 1 = n /\ t[z + 1] = Colon)
  <2>1. CASE g = Npos
    BY <1>1, <1>17, <1>18, <2>1 DEF Npos, n
  <2>2. CASE g # Npos
    <3>1. z = g
      BY <2>2
    <3> QED BY <1>4, <1>18, <1>19, <2>2, <3>1
  <2> QED BY <2>1, <2>2
<1> HIDE DEF z
<1>21. ASSUME NEW k \in (e + 2)..z PROVE t[k] # Colon
  <2>1. k - 1 \in Nat /\ k - 1 >= f /\ k - 1 < z /\ (k - 1) + 1 = k /\ k <= n
    BY <1>1, <1>12, <1>20 DEF f
  <2>2. ~Stands(t, d, k - 1)
    BY <1>20, <2>1
  <2> QED BY <1>4, <2>1, <2>2
<1>22. Parted(t, b, e, z)
  BY <1>11, <1>12, <1>15, <1>16, <1>20, <1>21 DEF Parted, f, n
<1> QED BY <1>22

-----------------------------------------------------------------------------
(* Basic authentication.                                                   *)

\* What OwnerAdmitted says of a text up to its first 0.
Known(t, w, q) ==
  /\ Colon \notin Range(w) \cup Range(q)
  /\ \E before, after \in {<<>>, <<Colon>>} :
       /\ t = before \o w \o <<Colon>> \o q \o after
       /\ before \o w # <<>> /\ q \o after # <<>>

\* A concatenation is empty only if both of its parts are.
LEMMA ConcatEmpty ==
  ASSUME NEW u \in Text, NEW v \in Text
  PROVE  u \o v = <<>> <=> Len(u) + Len(v) = 0
<1> DEFINE x == u \o v
<1>1. x \in Text /\ Len(x) = Len(u) + Len(v)
  BY ConcatAt
<1> HIDE DEF x
<1>2. x = <<>> <=> Len(x) = 0
  BY <1>1 DEF Text
<1> QED BY <1>1, <1>2 DEF x

\* What a text avoids is not in it.
LEMMA RangeAvoids ==
  ASSUME NEW s \in Text, NEW c, Avoids(s, c)
  PROVE  c \notin Range(s)
<1>1. DOMAIN s = 1..Len(s)
  BY DEF Text
<1> QED BY <1>1 DEF Avoids, Range

\* There may be a colon at either side, or nothing.
LEMMA Sides ==
  ASSUME NEW x \in {<<>>, <<Colon>>}
  PROVE  /\ x \in Text /\ Len(x) \in {0, 1} /\ (Len(x) = 1 => x[1] = Colon)
<1>1. <<Colon>> \in Text /\ <<>> \in Text /\ Len(<<Colon>>) = 1 /\ <<Colon>>[1] = Colon /\ Len(<<>>) = 0
  BY Literals, TextConcat
<1>2. CASE x = <<>>
  BY <1>1, <1>2
<1>3. CASE x = <<Colon>>
  BY <1>1, <1>3
<1> QED BY <1>2, <1>3

\* Such a text is split into the two.
LEMMA KnownSplit ==
  ASSUME NEW t \in Text, NEW w \in Text, NEW q \in Text, Known(t, w, q)
  PROVE  Split(t, <<Colon>>) = <<w, q>>
<1>1. PICK a, c \in {<<>>, <<Colon>>} : /\ t = a \o w \o <<Colon>> \o q \o c
                                        /\ a \o w # <<>> /\ q \o c # <<>>
  BY DEF Known
<1>2. a \in Text /\ Len(a) \in {0, 1} /\ (Len(a) = 1 => a[1] = Colon)
      /\ c \in Text /\ Len(c) \in {0, 1} /\ (Len(c) = 1 => c[1] = Colon)
  BY Sides
<1>3. Laying(t, a, w, q, c)
  <2>1. t = Five(a, w, q, c)
    BY <1>1 DEF Five
  <2> QED BY <1>2, <2>1, FiveAt
<1>4. Avoids(w, Colon) /\ Avoids(q, Colon)
  BY AvoidsRange DEF Known
<1> DEFINE b == Len(a)
           e == Len(a) + Len(w)
           z == Len(a) + Len(w) + 1 + Len(q)
<1>5. Len(w) \in Nat /\ Len(q) \in Nat /\ Len(t) \in Nat
  BY DEF Text
<1>6. Len(a) + Len(w) # 0 /\ Len(q) + Len(c) # 0
  BY <1>1, <1>2, ConcatEmpty
<1>7. /\ Len(t) = z + Len(c)
      /\ \A k \in 1..Len(a) : t[k] = a[k]
      /\ \A k \in 1..Len(w) : t[b + k] = w[k]
      /\ t[e + 1] = Colon
      /\ \A k \in 1..Len(q) : t[e + 1 + k] = q[k]
      /\ \A k \in 1..Len(c) : t[z + k] = c[k]
  BY <1>3 DEF Laying
<1>8. b \in {0, 1} /\ e \in Nat \ {0} /\ z \in Nat /\ b <= e /\ e + 1 <= z /\ e + 1 < Len(t)
      /\ e = b + Len(w) /\ z = e + 1 + Len(q) /\ z <= Len(t)
  BY <1>2, <1>5, <1>6, <1>7
<1>9. b = 1 => t[1] = Colon
  <2>1. ASSUME b = 1 PROVE t[1] = Colon
    <3>1. 1 \in 1..Len(a) /\ a[1] = Colon
      BY <1>2, <2>1
    <3> QED BY <1>7, <3>1
  <2> QED BY <2>1
<1>10. z = Len(t) \/ (z + 1 = Len(t) /\ t[z + 1] = Colon)
  <2>1. CASE Len(c) = 0
    BY <1>7, <1>8, <2>1
  <2>2. CASE Len(c) = 1
    <3>1. 1 \in 1..Len(c) /\ c[1] = Colon
      BY <1>2, <2>2
    <3> QED BY <1>7, <2>2, <3>1
  <2> QED BY <1>2, <2>1, <2>2
<1> HIDE DEF b, e, z
<1>11. ASSUME NEW k \in (b + 1)..e PROVE t[k] # Colon
  <2>1. k - b \in 1..Len(w) /\ b + (k - b) = k
    BY <1>5, <1>8
  <2>2. t[b + (k - b)] = w[k - b] /\ w[k - b] # Colon
    BY <1>4, <1>7, <2>1 DEF Avoids
  <2> QED BY <2>1, <2>2
<1>12. ASSUME NEW k \in (e + 2)..z PROVE t[k] # Colon
  <2>1. k - (e + 1) \in 1..Len(q) /\ e + 1 + (k - (e + 1)) = k
    BY <1>5, <1>8
  <2>2. t[e + 1 + (k - (e + 1))] = q[k - (e + 1)] /\ q[k - (e + 1)] # Colon
    BY <1>4, <1>7, <2>1 DEF Avoids
  <2> QED BY <2>1, <2>2
<1>13. Parted(t, b, e, z)
  BY <1>7, <1>8, <1>9, <1>10, <1>11, <1>12 DEF Parted
<1>14. SubSeq(t, b + 1, e) = w
  <2>1. b \in Nat /\ e \in Nat /\ e <= Len(t) /\ e - b = Len(w) /\ b <= e
    BY <1>5, <1>8
  <2>2. /\ SubSeq(t, b + 1, e) \in Text
        /\ Len(SubSeq(t, b + 1, e)) = e - b
        /\ \A k \in 1..(e - b) : SubSeq(t, b + 1, e)[k] = t[b + k]
    BY <2>1, Stretch
  <2> DEFINE m == SubSeq(t, b + 1, e)
  <2> HIDE DEF m
  <2>3. m \in Text /\ Len(m) = Len(w) /\ \A k \in 1..Len(m) : m[k] = w[k]
    BY <1>7, <2>1, <2>2 DEF m
  <2>4. m = w
    BY <2>3, TextEqual
  <2> QED BY <2>4 DEF m
<1>15. SubSeq(t, e + 2, z) = q
  <2> DEFINE f == e + 1
             m == SubSeq(t, f + 1, z)
  <2>1. f \in Nat /\ z \in Nat /\ z <= Len(t) /\ z - f = Len(q) /\ f <= z /\ f + 1 = e + 2
    BY <1>5, <1>8
  <2>2. \A k \in 1..Len(q) : t[f + k] = q[k]
    BY <1>7
  <2> HIDE DEF f
  <2>3. m \in Text /\ Len(m) = z - f /\ \A k \in 1..(z - f) : m[k] = t[f + k]
    BY <2>1, Stretch
  <2> HIDE DEF m
  <2>4. Len(m) = Len(q) /\ \A k \in 1..Len(m) : m[k] = q[k]
    BY <2>1, <2>2, <2>3
  <2>5. m = q
    BY <2>3, <2>4, TextEqual
  <2> QED BY <2>1, <2>5 DEF m
<1>16. t \in Text /\ Split(t, <<Colon>>) = TwoParts(t, b, e, z)
  BY <1>13, SplitParted
<1> QED BY ONLY <1>14, <1>15, <1>16 DEF TwoParts

\* A text that is split into two is such a text.
LEMMA SplitKnown ==
  ASSUME NEW t \in Text, NEW w, NEW q, Split(t, <<Colon>>) = <<w, q>>
  PROVE  Known(t, w, q)
<1>1. Len(Split(t, <<Colon>>)) = 2
  OBVIOUS
<1>2. PICK b, e, z : Parted(t, b, e, z)
  BY <1>1, PartedOfTwo
<1>3. w = SubSeq(t, b + 1, e) /\ q = SubSeq(t, e + 2, z)
  <2>1. <<w, q>> = TwoParts(t, b, e, z)
    BY <1>2, SplitParted
  <2> QED BY <2>1 DEF TwoParts
<1>4. /\ b \in {0, 1} /\ e \in Nat \ {0} /\ z \in Nat
      /\ b <= e /\ e + 1 <= z /\ e + 1 < Len(t)
      /\ b = 1 => t[1] = Colon
      /\ t[e + 1] = Colon
      /\ z = Len(t) \/ (z + 1 = Len(t) /\ t[z + 1] = Colon)
  BY <1>2 DEF Parted
<1>5. Len(t) \in Nat
  BY DEF Text
<1>6. b \in Nat /\ e <= Len(t) /\ z <= Len(t) /\ e + 1 \in Nat /\ (e + 1) + 1 = e + 2
  BY <1>4, <1>5
<1>7. w \in Text /\ Len(w) = e - b /\ \A k \in 1..(e - b) : w[k] = t[b + k]
  BY <1>3, <1>4, <1>6, Stretch
<1>8. q \in Text /\ Len(q) = z - (e + 1) /\ \A k \in 1..(z - (e + 1)) : q[k] = t[e + 1 + k]
  <2> DEFINE f == e + 1
  <2>1. f \in Nat /\ f <= z /\ z <= Len(t) /\ q = SubSeq(t, f + 1, z)
    BY <1>3, <1>4, <1>6
  <2> HIDE DEF f
  <2>2. q \in Text /\ Len(q) = z - f /\ \A k \in 1..(z - f) : q[k] = t[f + k]
    BY <1>4, <2>1, Stretch
  <2> QED BY <2>2 DEF f
<1>9. Avoids(w, Colon)
  <2>1. ASSUME NEW k \in 1..Len(w) PROVE w[k] # Colon
    <3>1. b + k \in (b + 1)..e /\ k \in 1..(e - b)
      BY <1>4, <1>6, <1>7
    <3>2. t[b + k] # Colon
      BY <1>2, <3>1 DEF Parted
    <3> QED BY <1>7, <3>1, <3>2
  <2> QED BY <2>1 DEF Avoids
<1>10. Avoids(q, Colon)
  <2>1. ASSUME NEW k \in 1..Len(q) PROVE q[k] # Colon
    <3>1. e + 1 + k \in (e + 2)..z /\ k \in 1..(z - (e + 1))
      BY <1>4, <1>8
    <3>2. t[e + 1 + k] # Colon
      BY <1>2, <3>1 DEF Parted
    <3> QED BY <1>8, <3>1, <3>2
  <2> QED BY <2>1 DEF Avoids
<1> DEFINE a == IF b = 0 THEN <<>> ELSE <<Colon>>
           c == IF z = Len(t) THEN <<>> ELSE <<Colon>>
<1>11. a \in {<<>>, <<Colon>>} /\ Len(a) = b /\ (b = 1 => a[1] = Colon)
  BY <1>4
<1>12. c \in {<<>>, <<Colon>>} /\ Len(c) = Len(t) - z /\ (Len(c) = 1 => c[1] = Colon)
  BY <1>4, <1>5
<1>13. a \in Text /\ c \in Text
  BY <1>11, <1>12, Sides
<1> HIDE DEF a, c
<1>14. Laying(t, a, w, q, c)
  <2>1. Len(a) + Len(w) = e /\ e + 1 + Len(q) = z /\ z + Len(c) = Len(t) /\ Len(c) \in {0, 1}
    BY <1>4, <1>5, <1>6, <1>7, <1>8, <1>11, <1>12
  <2>2. \A k \in 1..Len(a) : t[k] = a[k]
    <3> TAKE k \in 1..Len(a)
    <3>1. b = 1 /\ k = 1
      BY <1>4, <1>11
    <3> QED BY <1>4, <1>11, <3>1
  <2>3. \A k \in 1..Len(c) : t[z + k] = c[k]
    <3> TAKE k \in 1..Len(c)
    <3>1. Len(c) = 1 /\ k = 1 /\ z + 1 = Len(t)
      BY <1>4, <1>5, <2>1
    <3>2. t[z + 1] = Colon
      BY <1>4, <1>5, <3>1
    <3> QED BY <1>12, <3>1, <3>2
  <2>4. \A k \in 1..Len(w) : t[Len(a) + k] = w[k]
    BY <1>7, <1>11
  <2>5. \A k \in 1..Len(q) : t[e + 1 + k] = q[k]
    BY <1>8
  <2>6. t[e + 1] = Colon
    BY <1>4
  <2>7. Len(t) = Len(a) + Len(w) + 1 + Len(q) + Len(c)
    BY <2>1
  <2> QED BY <2>1, <2>2, <2>3, <2>4, <2>5, <2>6, <2>7 DEF Laying
<1>15. t = a \o w \o <<Colon>> \o q \o c
  BY <1>7, <1>8, <1>13, <1>14, FiveIs DEF Five
<1>16. a \o w # <<>>
  <2>1. Len(a) + Len(w) # 0
    BY <1>4, <1>6, <1>7, <1>11
  <2> QED BY <1>7, <1>13, <2>1, ConcatEmpty
<1>17. q \o c # <<>>
  <2>1. Len(q) + Len(c) # 0
    BY <1>4, <1>5, <1>8, <1>12
  <2> QED BY <1>8, <1>13, <2>1, ConcatEmpty
<1>18. Colon \notin Range(w) \cup Range(q)
  BY <1>7, <1>8, <1>9, <1>10, RangeAvoids
<1> QED BY <1>11, <1>12, <1>15, <1>16, <1>17, <1>18 DEF Known

\* What is left of a text is a text.
LEMMA UpToZeroType ==
  ASSUME NEW s \in Text
  PROVE  UpToZero(s) \in Text
<1> DEFINE zero == Find(s, <<0>>, 0)
<1>1. <<0>> \in Text /\ Len(<<0>>) = 1 /\ 0 \in Nat /\ Len(s) \in Nat
  BY TextConcat DEF Text
<1>2. zero = Npos \/ (zero \in Nat /\ zero + 1 <= Len(s))
  BY <1>1, FindFirst DEF Stands
<1>3. UpToZero(s) = IF zero = Npos THEN s ELSE SubSeq(s, 1, zero)
  BY DEF UpToZero
<1> HIDE DEF zero
<1>4. CASE zero = Npos
  BY <1>3, <1>4
<1>5. CASE zero # Npos
  <2>1. zero \in Nat /\ zero <= Len(s)
    BY <1>1, <1>2, <1>5
  <2>2. SubSeq(s, 0 + 1, zero) \in Text
    BY <2>1, Stretch
  <2> QED BY <1>3, <1>5, <2>2
<1> QED BY <1>4, <1>5

AdmitsOwner(u, p, w, q) ==
  Admits([method |-> <<BasicMethod>>, decoded |-> u \o <<Colon>> \o p], w, q)
    = Known(UpToZero(u \o <<Colon>> \o p), w, q)

\* basic admits whom it should: exactly such texts.
LEMMA AuthRight ==
  ASSUME NEW u \in Text, NEW p \in Text, NEW w \in Text, NEW q \in Text
  PROVE  AdmitsOwner(u, p, w, q)
<1> DEFINE s == u \o <<Colon>> \o p
           field == [method |-> <<BasicMethod>>, decoded |-> s]
           t == UpToZero(s)
           parts == Split(t, <<Colon>>)
           parsed == [method |-> <<BasicMethod>>, username |-> parts[1], password |-> parts[2]]
<1>1. s \in Text
  BY Literals, TextConcat
<1>2. t \in Text
  BY <1>1, UpToZeroType
<1>3. parts \in Seq(Text)
  <2>1. <<Colon>> \in Text /\ <<Colon>> # <<>>
    BY Literals, TextConcat
  <2> QED BY <1>2, <2>1, SplitType
<1>4. <<BasicMethod>> \in Text
  BY DEF BasicMethod, Text
<1>5. s # None /\ field # None /\ field.decoded = s /\ field.method = <<BasicMethod>>
  <2>1. field \in [method : Text, decoded : Text]
    BY <1>1, <1>4
  <2> HIDE DEF s
  <2>2. field.decoded = s /\ field.method = <<BasicMethod>>
    OBVIOUS
  <2> HIDE DEF field
  <2> QED BY <1>1, <2>1, <2>2, NoneAssumption
<1>6. parts = <<w, q>> <=> Known(t, w, q)
  <2> HIDE DEF t
  <2> QED BY <1>2, KnownSplit, SplitKnown
<1> HIDE DEF s, field
<1>7. ParseAuthField(field) = IF Len(parts) # 2 THEN None ELSE parsed
  BY <1>5 DEF ParseAuthField
<1> HIDE DEF t
<1>8. CASE Len(parts) # 2
  <2>1. ~Admits(field, w, q)
    BY <1>7, <1>8 DEF Admits
  <2>2. parts # <<w, q>>
    BY <1>8
  <2>3. Admits(field, w, q) \in BOOLEAN /\ Known(t, w, q) \in BOOLEAN
    BY DEF Admits, Known
  <2>4. Admits(field, w, q) = Known(t, w, q)
    BY <1>6, <2>1, <2>2, <2>3
  <2> QED BY <2>4 DEF AdmitsOwner, field, s, t
<1>9. CASE Len(parts) = 2
  <2>1. ParseAuthField(field) = parsed
    BY <1>7, <1>9
  <2>2. parts[1] \in Text /\ parts[2] \in Text /\ parts = <<parts[1], parts[2]>>
    BY <1>3, <1>9
  <2> HIDE DEF parts
  <2>3. parsed # None
    <3>1. parsed \in [method : Text, username : Text, password : Text]
      BY <1>4, <2>2
    <3> HIDE DEF parsed
    <3> QED BY <3>1, NoneAssumption
  <2>4. Authorised(parsed, w, q) <=> parts[1] = w /\ parts[2] = q
    BY DEF Authorised
  <2>5. (parts[1] = w /\ parts[2] = q) <=> parts = <<w, q>>
    BY <2>2
  <2> HIDE DEF parsed
  <2>6. Admits(field, w, q) <=> Authorised(parsed, w, q)
    BY <1>5, <2>1, <2>3 DEF Admits
  <2>7. Admits(field, w, q) \in BOOLEAN /\ Known(t, w, q) \in BOOLEAN
    BY DEF Admits, Known
  <2>8. Admits(field, w, q) = Known(t, w, q)
    BY <1>6, <2>4, <2>5, <2>6, <2>7
  <2> QED BY <2>8 DEF AdmitsOwner, field, s, t
<1> QED BY <1>8, <1>9

\* OwnerAdmitted: basic::operator() admits exactly those who give the configured
\* name and password, with at most one more colon before them and one behind, up
\* to the first 0, whatever the texts are; nobody if they hold a colon.
THEOREM OnlyOwnerAdmitted == ContentSpec => []OwnerAdmitted
<1>1. ContentInit => OwnerAdmitted
  BY DEF ContentInit, OwnerAdmitted, Idle
<1>2. OwnerAdmitted /\ [ContentNext]_contentvars => OwnerAdmitted'
  <2> SUFFICES ASSUME OwnerAdmitted, [ContentNext]_contentvars PROVE OwnerAdmitted'
    OBVIOUS
  <2>1. ASSUME UNCHANGED <<asked, answer>> PROVE OwnerAdmitted'
    BY <2>1 DEF OwnerAdmitted
  <2>2. ASSUME asked'.kind # "auth" PROVE OwnerAdmitted'
    BY <2>2 DEF OwnerAdmitted
  <2>3. CASE Keep
    BY <2>1, <2>3 DEF Keep, AddField, Submit, Populate, ClearValues
  <2>4. ASSUME NEW enc \in Encodings, NEW es \in Entries, ParseForm(enc, es) PROVE OwnerAdmitted'
    BY <2>2, <2>4 DEF ParseForm, Ask
  <2>5. ASSUME NEW jar \in Jars, NEW https \in BOOLEAN, NEW name \in Names, ReadCookie(jar, https, name) PROVE OwnerAdmitted'
    BY <2>2, <2>5 DEF ReadCookie, Ask
  <2>6. ASSUME NEW u \in Credentials, NEW p \in Credentials, NEW w \in Credentials, NEW q \in Credentials,
               Authorise(u, p, w, q)
        PROVE  OwnerAdmitted'
    <3>1. asked'.typed = <<u, p>> /\ asked'.configured = <<w, q>>
          /\ answer' = Admits([method |-> <<BasicMethod>>, decoded |-> u \o <<Colon>> \o p], w, q)
      BY <2>6 DEF Authorise, Ask
    <3>2. u \in Text /\ p \in Text /\ w \in Text /\ q \in Text
      BY TextsAssumption
    <3>3. AdmitsOwner(u, p, w, q)
      BY <3>2, AuthRight
    <3>4. answer' = Known(UpToZero(u \o <<Colon>> \o p), w, q)
      BY <3>1, <3>3 DEF AdmitsOwner
    <3>5. /\ asked'.typed[1] = u /\ asked'.typed[2] = p
          /\ asked'.configured[1] = w /\ asked'.configured[2] = q
      BY <3>1
    <3> QED BY <3>4, <3>5 DEF OwnerAdmitted, Known
  <2>7. CASE Question
    BY <2>4, <2>5, <2>6, <2>7 DEF Question
  <2>8. CASE NextRequest
    BY <2>2, <2>8 DEF NextRequest, Idle
  <2>9. CASE UNCHANGED contentvars
    BY <2>1, <2>9 DEF contentvars
  <2> QED BY <2>3, <2>7, <2>8, <2>9 DEF ContentNext
<1> QED BY <1>1, <1>2, PTL DEF ContentSpec

-----------------------------------------------------------------------------
(* Texts that are put together from pieces and delimiters.                 *)

\* Behind the first i texts of a concatenation is the rest of it.
LEMMA FlatRest ==
  ASSUME NEW seqs \in Seq(Text), NEW G, IsFlat(seqs, G), NEW i \in 0..Len(seqs)
  PROVE  /\ G[i] \in Text
         /\ \E r \in Text : FlattenSeq(seqs) = G[i] \o r
<1> DEFINE n == Len(seqs)
           s == FlattenSeq(seqs)
           S == {m \in Nat : m <= n => \E r \in Text : s = G[n - m] \o r}
<1>0. n \in Nat /\ n \in 0..n /\ \A k \in 0..n : G[k] \in Text
  BY DEF IsFlat
<1>1. 0 \in S
  <2>1. n - 0 = n /\ s = G[n]
    BY <1>0 DEF IsFlat
  <2>2. G[n] = G[n] \o <<>> /\ <<>> \in Text
    BY <1>0, TextUnit, TextConcat
  <2> QED BY <2>1, <2>2
<1>2. ASSUME NEW m \in Nat, m \in S PROVE m + 1 \in S
  <2>0. m + 1 \in Nat
    OBVIOUS
  <2> SUFFICES ASSUME m + 1 <= n PROVE \E r \in Text : s = G[n - (m + 1)] \o r
    BY <2>0
  <2> DEFINE k == n - m
  <2>1. k \in 1..n /\ k - 1 = n - (m + 1) /\ k - 1 \in 0..n /\ m <= n
    BY <1>0
  <2>2. PICK r \in Text : s = G[k] \o r
    BY <1>2, <2>1
  <2> HIDE DEF k, s
  <2>3. G[k] = G[k - 1] \o seqs[k] /\ seqs[k] \in Text /\ G[k - 1] \in Text
    BY <1>0, <2>1 DEF IsFlat
  <2> DEFINE x == G[k - 1]
             y == seqs[k]
  <2> HIDE DEF x, y
  <2>5. x \in Text /\ y \in Text /\ r \in Text /\ s = (x \o y) \o r
    BY <2>2, <2>3 DEF x, y
  <2>6. (x \o y) \o r = x \o (y \o r)
    <3>1. x \in Text /\ y \in Text /\ r \in Text
      BY <2>5
    <3>2. Associated(x, y, r)
      BY ONLY <3>1, TextAssociative
    <3> QED BY ONLY <3>2 DEF Associated
  <2>7. y \o r \in Text
    BY <2>5, TextConcat
  <2>4. s = G[k - 1] \o (seqs[k] \o r) /\ seqs[k] \o r \in Text
    BY <2>5, <2>6, <2>7 DEF x, y
  <2> QED BY <2>1, <2>4
<1>3. n - i \in S
  <2> HIDE DEF S
  <2>1. Nat \subseteq S
    BY <1>1, <1>2, Induction
  <2>2. n - i \in Nat
    BY <1>0
  <2> QED BY <2>1, <2>2
<1>4. n - i <= n /\ n - (n - i) = i
  BY <1>0
<1> QED BY <1>0, <1>3, <1>4

\* The i-th text of a concatenation begins behind the ones before it.
LEMMA FlatAt ==
  ASSUME NEW seqs \in Seq(Text), NEW G, IsFlat(seqs, G), NEW i \in 1..Len(seqs)
  PROVE  /\ G[i - 1] \in Text /\ seqs[i] \in Text /\ G[i] = G[i - 1] \o seqs[i]
         /\ Len(G[i]) = Len(G[i - 1]) + Len(seqs[i])
         /\ \E r \in Text : FlattenSeq(seqs) = G[i - 1] \o seqs[i] \o r
<1>1. i \in 0..Len(seqs) /\ i - 1 \in 0..Len(seqs)
  OBVIOUS
<1>2. G[i] = G[i - 1] \o seqs[i] /\ seqs[i] \in Text /\ G[i - 1] \in Text
  BY <1>1 DEF IsFlat
<1>3. PICK r \in Text : FlattenSeq(seqs) = G[i] \o r
  BY <1>1, FlatRest
<1>4. Len(G[i]) = Len(G[i - 1]) + Len(seqs[i])
  BY <1>2, ConcatAt
<1> QED BY <1>2, <1>3, <1>4

\* Each piece but perhaps the last is followed by the delimiter.
Delimited(seqs, parts, d) ==
  /\ Len(seqs) = Len(parts)
  /\ \A i \in 1..Len(parts) : seqs[i] = parts[i] \o d \/ (i = Len(parts) /\ seqs[i] = parts[i])

\* s is the texts t, u, d and r one behind the other.
InPieces(s, t, u, d, r) == s = t \o (u \o d) \o r

\* A piece where it stands, and the delimiter behind it.
LEMMA PieceStands ==
  ASSUME NEW t \in Text, NEW u \in Text, NEW d \in Text, NEW r \in Text, NEW s, InPieces(s, t, u, d, r)
  PROVE  /\ Len(t) + Len(u) + Len(d) <= Len(s)
         /\ SubSeq(s, Len(t) + 1, Len(t) + Len(u)) = u
         /\ Stands(s, d, Len(t) + Len(u))
<1>1. u \o d \in Text /\ d \o r \in Text /\ t \o u \in Text /\ t \o (u \o d) \in Text /\ (t \o u) \o d \in Text
  BY TextConcat
<1>2. (t \o u) \o d = t \o (u \o d)
  <2>1. t \in Text /\ u \in Text /\ d \in Text
    OBVIOUS
  <2>2. Associated(t, u, d)
    BY ONLY <2>1, TextAssociative
  <2> QED BY ONLY <2>2 DEF Associated
<1>3. s = (t \o u) \o d \o r
  BY <1>2 DEF InPieces
<1> DEFINE tu == t \o u
<1>8. tu \in Text
  BY <1>1
<1> HIDE DEF tu
<1>9. tu \o d \o r = tu \o (d \o r)
  <2>1. tu \in Text /\ d \in Text /\ r \in Text
    BY <1>8
  <2>2. Associated(tu, d, r)
    BY ONLY <2>1, TextAssociative
  <2> QED BY ONLY <2>2 DEF Associated
<1>4. (t \o u) \o d \o r = t \o u \o (d \o r)
  BY <1>9 DEF tu
<1>5. SubSeq(s, Len(t) + 1, Len(t) + Len(u)) = u
  BY <1>1, <1>3, <1>4, Middle
<1>6. /\ Len(t \o u) = Len(t) + Len(u) /\ Len((t \o u) \o d) = Len(t) + Len(u) + Len(d)
      /\ Len(s) = Len(t) + Len(u) + Len(d) + Len(r)
      /\ Len(t) \in Nat /\ Len(u) \in Nat /\ Len(d) \in Nat /\ Len(r) \in Nat
  BY <1>1, <1>3, ConcatAt
<1>7. SubSeq(s, Len(t \o u) + 1, Len(t \o u) + Len(d)) = d
  BY <1>1, <1>3, Middle
<1> QED BY <1>5, <1>6, <1>7 DEF Stands

\* split() returns the pieces that were put together with delimiters.
LEMMA SplitFlat ==
  ASSUME NEW d \in Text, d # <<>>, NEW parts \in Seq(Text), parts # <<>>,
         \A i \in 1..Len(parts) : parts[i] # <<>> /\ Avoids(parts[i], d[1]),
         NEW seqs \in Seq(Text), Delimited(seqs, parts, d)
  PROVE  Split(FlattenSeq(seqs), d) = parts
<1> DEFINE n == Len(parts)
           s == FlattenSeq(seqs)
<1>1. PICK G : IsFlat(seqs, G)
  BY FlatSolved
<1> DEFINE b == [i \in 1..n |-> Len(G[i - 1])]
<1>2. n \in Nat \ {0} /\ Len(seqs) = n /\ Len(d) \in Nat \ {0} /\ s \in Text
  <2>1. s \in Text
    BY FlattenType
  <2> QED BY <2>1 DEF Delimited, Text
<1>3. ASSUME NEW i \in 1..n
      PROVE  /\ G[i - 1] \in Text /\ Len(G[i - 1]) \in Nat /\ Len(parts[i]) \in Nat /\ parts[i] \in Text
             /\ Len(G[i - 1]) + Len(parts[i]) <= Len(s)
             /\ SubSeq(s, Len(G[i - 1]) + 1, Len(G[i - 1]) + Len(parts[i])) = parts[i]
             /\ seqs[i] = parts[i] \o d => /\ Len(G[i]) = Len(G[i - 1]) + Len(parts[i]) + Len(d)
                                           /\ Stands(s, d, Len(G[i - 1]) + Len(parts[i]))
             /\ seqs[i] = parts[i] => Len(G[i]) = Len(G[i - 1]) + Len(parts[i])
  <2>1. i \in 1..Len(seqs) /\ parts[i] \in Text
    BY <1>2
  <2>2. /\ G[i - 1] \in Text /\ seqs[i] \in Text /\ Len(G[i]) = Len(G[i - 1]) + Len(seqs[i])
        /\ \E r \in Text : s = G[i - 1] \o seqs[i] \o r
    BY <1>1, <2>1, FlatAt
  <2>3. PICK r \in Text : s = G[i - 1] \o seqs[i] \o r
    BY <2>2
  <2> DEFINE t == G[i - 1]
             u == parts[i]
  <2>9. t \in Text /\ u \in Text /\ s \in Text
    BY <1>2, <2>1, <2>2
  <2> HIDE DEF s
  <2> HIDE DEF t, u
  <2>4. t \in Text /\ u \in Text /\ Len(t) \in Nat /\ Len(u) \in Nat /\ Len(d) \in Nat /\ Len(s) \in Nat
    BY <2>9 DEF Text
  <2>10. s = t \o seqs[i] \o r /\ Len(G[i]) = Len(t) + Len(seqs[i])
    BY <2>2, <2>3 DEF t
  <2>11. /\ Len(u \o d) = Len(u) + Len(d) /\ Len(d) # 0
         /\ u \o d # u
    <3>1. Len(u \o d) = Len(u) + Len(d)
      BY <2>9, ConcatAt
    <3> QED BY <1>2, <2>4, <3>1
  <2>5. CASE seqs[i] = u \o d
    <3>1. InPieces(s, t, u, d, r)
      BY <2>10, <2>5 DEF InPieces
    <3>2. Len(G[i]) = Len(t) + Len(u) + Len(d)
      BY <2>4, <2>5, <2>10, <2>11
    <3>3. /\ Len(t) + Len(u) + Len(d) <= Len(s)
          /\ SubSeq(s, Len(t) + 1, Len(t) + Len(u)) = u
          /\ Stands(s, d, Len(t) + Len(u))
      <4>1. t \in Text /\ u \in Text /\ d \in Text /\ r \in Text
        BY <2>9
      <4> QED BY ONLY <3>1, <4>1, PieceStands
    <3>4. Len(t) + Len(u) <= Len(s)
      BY <2>4, <3>3
    <3>6. seqs[i] # u
      BY <2>5, <2>11
    <3> QED BY <2>9, <2>4, <2>5, <3>2, <3>3, <3>4, <3>6 DEF t, u
  <2>6. CASE seqs[i] = u
    <3>1. s = t \o u \o r
      BY <2>10, <2>6
    <3>2. u = u \o <<>> /\ <<>> \in Text
      BY <2>9, TextUnit, TextConcat
    <3>3. InPieces(s, t, u, <<>>, r)
      BY <3>1, <3>2 DEF InPieces
    <3>8. t \in Text /\ u \in Text /\ <<>> \in Text /\ r \in Text
      BY <2>9, <3>2
    <3>4. /\ Len(t) + Len(u) + Len(<<>>) <= Len(s)
          /\ SubSeq(s, Len(t) + 1, Len(t) + Len(u)) = u
      BY ONLY <3>3, <3>8, PieceStands
    <3>5. Len(t) + Len(u) <= Len(s)
      BY <2>4, <3>4
    <3>6. Len(G[i]) = Len(t) + Len(u)
      BY <2>10, <2>6
    <3>7. seqs[i] # u \o d
      BY <2>6, <2>11
    <3> QED BY <2>9, <2>4, <2>6, <3>4, <3>5, <3>6, <3>7 DEF t, u
  <2>7. seqs[i] = u \o d \/ seqs[i] = u
    BY DEF Delimited, u
  <2> QED BY <2>5, <2>6, <2>7
<1>4. G[0] = <<>> /\ s = G[n]
  BY <1>1, <1>2 DEF IsFlat
<1> HIDE DEF s, n
<1>5. Laid(s, d, parts, b)
  <2>1. b \in [1..n -> Nat] /\ b[1] = 0 /\ \A i \in 1..n : b[i] = Len(G[i - 1])
    <3>1. 1 \in 1..n /\ 1 - 1 = 0 /\ Len(<<>>) = 0
      BY <1>2
    <3> QED BY <1>3, <1>4, <3>1
  <2> HIDE DEF b
  <2>2. \A i \in 1..n : /\ parts[i] # <<>> /\ Avoids(parts[i], d[1])
                        /\ b[i] + Len(parts[i]) <= Len(s)
                        /\ SubSeq(s, b[i] + 1, b[i] + Len(parts[i])) = parts[i]
    BY <1>3, <2>1 DEF n
  <2>3. ASSUME NEW i \in 1..(n - 1)
        PROVE  b[i + 1] = b[i] + Len(parts[i]) + Len(d) /\ Stands(s, d, b[i] + Len(parts[i]))
    <3>1. i \in 1..n /\ i + 1 \in 1..n /\ (i + 1) - 1 = i /\ i # n
      BY <1>2
    <3>2. seqs[i] = parts[i] \o d
      BY <3>1 DEF Delimited, n
    <3> QED BY <1>3, <2>1, <3>1, <3>2
  <2>4. LET e == b[n] + Len(parts[n]) IN e = Len(s) \/ (Stands(s, d, e) /\ e + Len(d) = Len(s))
    <3>1. n \in 1..n
      BY <1>2
    <3>2. seqs[n] = parts[n] \o d \/ seqs[n] = parts[n]
      BY <3>1 DEF Delimited, n
    <3> QED BY <1>3, <1>4, <2>1, <3>1, <3>2
  <2> QED BY <2>1, <2>2, <2>3, <2>4 DEF Laid, n
<1>6. Split(s, d) = parts
  BY <1>2, <1>5, SplitLaid
<1> QED BY <1>6 DEF s

\* What Joined() puts together split() takes apart.
LEMMA SplitJoined ==
  ASSUME NEW d \in Text, d # <<>>, NEW parts \in Seq(Text), parts # <<>>,
         \A i \in 1..Len(parts) : parts[i] # <<>> /\ Avoids(parts[i], d[1])
  PROVE  Split(Joined(parts, d), d) = parts
<1> DEFINE seqs == [i \in DOMAIN parts |-> IF i = Len(parts) THEN parts[i] ELSE parts[i] \o d]
<1>1. DOMAIN parts = 1..Len(parts) /\ Len(parts) \in Nat
  OBVIOUS
<1>2. \A i \in DOMAIN parts : parts[i] \in Text /\ parts[i] \o d \in Text
  BY TextConcat
<1>3. seqs \in Seq(Text) /\ Len(seqs) = Len(parts)
  BY <1>1, <1>2
<1>4. Delimited(seqs, parts, d)
  BY <1>1, <1>3 DEF Delimited
<1>5. Joined(parts, d) = FlattenSeq(seqs)
  BY DEF Joined
<1> HIDE DEF seqs
<1> QED BY <1>3, <1>4, <1>5, SplitFlat

-----------------------------------------------------------------------------
(* Cookies.                                                                *)

\* The text t, the character c and what is behind it.
InTwo(s, t, c, r) == s = t \o <<c>> \o r

\* A text is cut at the first character that it has no earlier one of.
LEMMA CutAt ==
  ASSUME NEW t \in Text, NEW c \in Nat, NEW r \in Text, Avoids(t, c), NEW s, InTwo(s, t, c, r)
  PROVE  /\ s \in Text /\ Find(s, <<c>>, 0) = Len(t)
         /\ SubSeq(s, 1, Len(t)) = t /\ SubSeq(s, Len(t) + 2, Len(s)) = r
<1>1. <<c>> \in Text /\ <<c>> # <<>> /\ <<c>>[1] = c /\ Len(<<c>>) = 1 /\ <<>> \in Text /\ Len(<<>>) = 0
  BY TextConcat
<1> DEFINE d == <<c>>
           td == t \o d
           dr == d \o r
<1>2. td \in Text /\ dr \in Text /\ s \in Text /\ s = td \o r
  BY <1>1, TextConcat DEF InTwo
<1>3. s = t \o dr
  <2>1. (t \o d) \o r = t \o (d \o r)
    <3>1. t \in Text /\ d \in Text /\ r \in Text
      BY <1>1
    <3>2. Associated(t, d, r)
      BY ONLY <3>1, TextAssociative
    <3> QED BY ONLY <3>2 DEF Associated
  <2> QED BY <2>1 DEF InTwo
<1>4. /\ Len(td) = Len(t) + 1 /\ Len(s) = Len(t) + 1 + Len(r)
      /\ Len(t) \in Nat /\ Len(r) \in Nat
  <2>1. Len(td) = Len(t) + Len(d) /\ Len(t) \in Nat
    BY <1>1, ConcatAt
  <2> HIDE DEF d, td
  <2>2. Len(td \o r) = Len(td) + Len(r) /\ Len(r) \in Nat
    BY <1>2, ConcatAt
  <2> QED BY <1>1, <1>2, <2>1, <2>2 DEF d
<1>5. SubSeq(s, Len(t) + 1, Len(t) + 1) = d
  <2>1. SubSeq(t \o d \o r, Len(t) + 1, Len(t) + Len(d)) = d
    BY <1>1, Middle
  <2> HIDE DEF d
  <2> QED BY <1>1, <1>2, <2>1 DEF td, d
<1>6. SubSeq(s, 1, Len(t)) = t
  <2> HIDE DEF d, td, dr
  <2>1. <<>> \o t = t
    BY TextUnit
  <2>2. SubSeq(<<>> \o t \o dr, Len(<<>>) + 1, Len(<<>>) + Len(t)) = t
    BY <1>1, <1>2, Middle
  <2>3. Len(<<>>) + 1 = 1 /\ Len(<<>>) + Len(t) = Len(t)
    BY <1>1, <1>4
  <2> QED BY <1>3, <2>1, <2>2, <2>3
<1>7. SubSeq(s, Len(t) + 2, Len(s)) = r
  <2> HIDE DEF d, td, dr
  <2>1. s \o <<>> = s
    BY <1>2, TextUnit
  <2>2. SubSeq(td \o r \o <<>>, Len(td) + 1, Len(td) + Len(r)) = r
    BY <1>1, <1>2, Middle
  <2>3. Len(td) + 1 = Len(t) + 2 /\ Len(td) + Len(r) = Len(s)
    BY <1>4
  <2> QED BY <1>2, <2>1, <2>2, <2>3
<1>8. Find(s, d, 0) = Len(t)
  <2>1. Stands(s, d, Len(t))
    BY <1>1, <1>4, <1>5 DEF Stands
  <2>2. \A k \in 1..Len(t) : s[k] = t[k]
    <3> HIDE DEF dr
    <3> QED BY <1>2, <1>3, ConcatAt
  <2>3. ASSUME NEW p \in Nat, p < Len(t), Stands(s, d, p) PROVE FALSE
    <3>1. s[p + 1] = c
      <4> HIDE DEF td, dr
      <4> QED BY <1>1, <1>2, <2>3, StandsHead
    <3>2. p + 1 \in 1..Len(t)
      BY <1>4, <2>3
    <3> QED BY <2>2, <3>1, <3>2 DEF Avoids
  <2> HIDE DEF d, td, dr
  <2>4. d \in Text
    BY <1>1 DEF d
  <2>5. \A p \in Nat : p >= 0 /\ p < Len(t) => ~Stands(s, d, p)
    BY <2>3
  <2>6. Len(t) \in Nat /\ 0 <= Len(t)
    BY <1>4
  <2> QED BY <1>2, <2>1, <2>4, <2>5, <2>6, FindIs
<1> QED BY <1>2, <1>6, <1>7, <1>8

\* A concatenation is made of what its texts are made of.
LEMMA RangeConcat ==
  ASSUME NEW u \in Text, NEW v \in Text
  PROVE  Range(u \o v) = Range(u) \cup Range(v)
<1> DEFINE x == u \o v
<1>1. /\ Len(x) = Len(u) + Len(v) /\ Len(u) \in Nat /\ Len(v) \in Nat
      /\ \A k \in 1..Len(u) : x[k] = u[k]
      /\ \A k \in 1..Len(v) : x[Len(u) + k] = v[k]
  BY ConcatAt
<1>2. DOMAIN u = 1..Len(u) /\ DOMAIN v = 1..Len(v) /\ DOMAIN x = 1..Len(x)
  BY ConcatAt DEF Text
<1> HIDE DEF x
<1>3. \A k \in DOMAIN u : k \in DOMAIN x /\ x[k] = u[k]
  BY <1>1, <1>2
<1>4. \A k \in DOMAIN v : Len(u) + k \in DOMAIN x /\ x[Len(u) + k] = v[k]
  BY <1>1, <1>2
<1>5. Range(u) \subseteq Range(x)
  BY <1>3 DEF Range
<1>6. Range(v) \subseteq Range(x)
  BY <1>4 DEF Range
<1>7. ASSUME NEW k \in DOMAIN x PROVE x[k] \in Range(u) \cup Range(v)
  <2>1. CASE k \in 1..Len(u)
    <3>1. k \in DOMAIN u /\ x[k] = u[k]
      BY <1>1, <1>2, <2>1
    <3> QED BY <3>1 DEF Range
  <2>2. CASE k \notin 1..Len(u)
    <3> DEFINE l == k - Len(u)
    <3>1. l \in 1..Len(v) /\ Len(u) + l = k
      BY <1>1, <1>2, <2>2
    <3> HIDE DEF l
    <3>2. l \in DOMAIN v /\ x[k] = v[l]
      BY <1>1, <1>2, <3>1
    <3> QED BY <3>2 DEF Range
  <2> QED BY <2>1, <2>2
<1>8. Range(x) \subseteq Range(u) \cup Range(v)
  BY <1>7 DEF Range
<1> QED BY <1>5, <1>6, <1>8 DEF x

NameValue(c) == c.name \o <<Equals>> \o c.value

\* A pair begins with the name, and after the first = is the value.
LEMMA NameValueType ==
  ASSUME NEW c \in Cookie, WellFormed(c)
  PROVE  /\ c.name \in Text /\ c.value \in Text /\ c.name # <<>>
         /\ Avoids(c.name, Equals) /\ Avoids(c.name, Semicolon) /\ Avoids(c.value, Semicolon)
         /\ <<Equals>> \in Text /\ <<Equals>> # <<>> /\ <<Equals>>[1] = Equals
         /\ NameValue(c) \in Text /\ NameValue(c) # <<>> /\ Avoids(NameValue(c), Semicolon)
         /\ Find(NameValue(c), <<Equals>>, 0) = Len(c.name)
         /\ SubSeq(NameValue(c), 1, Len(c.name)) = c.name
         /\ SubSeq(NameValue(c), Len(c.name) + 2, Len(NameValue(c))) = c.value
         /\ Len(NameValue(c)) = Len(c.name) + 1 + Len(c.value)
<1> DEFINE n == c.name
           v == c.value
           e == <<Equals>>
<1>1. n \in Text /\ v \in Text /\ n # <<>> /\ {Equals, Semicolon} \cap Range(n) = {} /\ Semicolon \notin Range(v)
  BY DEF Cookie, WellFormed
<1>2. Avoids(n, Equals) /\ Avoids(n, Semicolon) /\ Avoids(v, Semicolon)
  <2>1. Equals \notin Range(n) /\ Semicolon \notin Range(n)
    BY <1>1
  <2> HIDE DEF n, v
  <2> QED BY <1>1, <2>1, AvoidsRange
<1>3. e \in Text /\ e # <<>> /\ e[1] = Equals /\ Len(e) = 1 /\ Equals \in Nat /\ Avoids(e, Semicolon)
  <2>1. Equals \in Nat /\ Equals # Semicolon
    BY DEF Equals, Semicolon
  <2>2. e \in Text /\ e # <<>> /\ e[1] = Equals /\ Len(e) = 1
    BY <2>1, TextConcat
  <2>3. Avoids(e, Semicolon)
    BY <2>1, <2>2 DEF Avoids
  <2> QED BY <2>1, <2>2, <2>3
<1>4. NameValue(c) = n \o e \o v
  BY DEF NameValue
<1> DEFINE s == NameValue(c)
<1> HIDE DEF n, v, s
<1>5. /\ s \in Text /\ Find(s, <<Equals>>, 0) = Len(n) /\ SubSeq(s, 1, Len(n)) = n
      /\ SubSeq(s, Len(n) + 2, Len(s)) = v
  <2>1. InTwo(s, n, Equals, v) /\ n \in Text /\ v \in Text /\ Avoids(n, Equals) /\ Equals \in Nat
    BY <1>1, <1>2, <1>3, <1>4 DEF s, InTwo
  <2> QED BY ONLY <2>1, CutAt
<1> HIDE DEF e
<1> DEFINE ne == n \o e
<1>6. ne \in Text /\ Len(ne) = Len(n) + 1 /\ Avoids(ne, Semicolon)
  <2>1. ne \in Text /\ Len(ne) = Len(n) + Len(e)
    BY <1>1, <1>3, ConcatAt
  <2>2. Avoids(ne, Semicolon)
    BY <1>1, <1>2, <1>3, AvoidsConcat
  <2> QED BY <1>3, <2>1, <2>2
<1> HIDE DEF ne
<1>9. Len(ne \o v) = Len(ne) + Len(v) /\ Len(n) \in Nat /\ Len(v) \in Nat
  <2>1. Len(ne \o v) = Len(ne) + Len(v) /\ Len(v) \in Nat
    BY <1>1, <1>6, ConcatAt
  <2> QED BY <1>1, <2>1 DEF Text
<1>10. Avoids(ne \o v, Semicolon)
  BY <1>1, <1>2, <1>6, AvoidsConcat
<1>7. Len(n \o e \o v) = Len(n) + 1 + Len(v) /\ Avoids(n \o e \o v, Semicolon) /\ Len(n) \in Nat /\ Len(v) \in Nat
  BY <1>6, <1>9, <1>10 DEF ne
<1>8. s # <<>>
  BY <1>4, <1>7 DEF s
<1> QED BY <1>1, <1>2, <1>3, <1>4, <1>5, <1>7, <1>8 DEF n, v, s, e

\* x begins with h.
Begins(x, h) == x \in Text /\ \E r \in Text : x = h \o r

\* What x and then v are, if x begins with h.
Grows(x, v, h) ==
  Begins(x, h) => Begins(x \o v, h) /\ Range(x \o v) = Range(x) \cup Range(v)

\* It still does with something behind it, and is made of both.
LEMMA BeginsMore ==
  ASSUME NEW h \in Text, NEW v \in Text, NEW x
  PROVE  Grows(x, v, h)
<1> SUFFICES ASSUME Begins(x, h)
             PROVE  Begins(x \o v, h) /\ Range(x \o v) = Range(x) \cup Range(v)
  BY DEF Grows
<1>1. x \in Text
  BY DEF Begins
<1>2. PICK r \in Text : x = h \o r
  BY DEF Begins
<1>3. (h \o r) \o v = h \o (r \o v) /\ r \o v \in Text /\ x \o v \in Text
  <2>1. (h \o r) \o v = h \o (r \o v)
    <3>1. h \in Text /\ r \in Text /\ v \in Text
      OBVIOUS
    <3>2. Associated(h, r, v)
      BY ONLY <3>1, TextAssociative
    <3> QED BY ONLY <3>2 DEF Associated
  <2> QED BY <1>1, <2>1, TextConcat
<1>4. Range(x \o v) = Range(x) \cup Range(v)
  BY <1>1, RangeConcat
<1> QED BY <1>2, <1>3, <1>4 DEF Begins

\* A Set-Cookie text begins with the pair, and has exactly the attributes that
\* were set, and that of a cookie for other sites.
SetCookie(c) ==
  LET text == CookieToString(c)
  IN  /\ SubSeq(text, 1, Find(text, <<Semicolon>>, 0)) = NameValue(c)
      /\ ExpiresKey \in Range(text) <=> c.expires # ""
      /\ MaxAgeKey \in Range(text) <=> c.max_age # 0
      /\ DomainKey \in Range(text) <=> c.domain
      /\ PathKey \in Range(text) <=> c.path
      /\ SecureFlag \in Range(text) <=> IsSecure(c)

\* to_string() writes such a text.
LEMMA SetCookieText ==
  ASSUME NEW c \in Cookie, WellFormed(c)
  PROVE  SetCookie(c)
<1> DEFINE nv == NameValue(c)
           h == nv \o <<Semicolon>>
           A(given, lit) == IF given THEN Append(<<lit>>, Semicolon) ELSE <<>>
           a1 == A(c.expires # "", ExpiresKey)
           a2 == A(c.max_age # 0, MaxAgeKey)
           a3 == A(c.domain, DomainKey)
           a4 == A(c.path, PathKey)
           a5 == A(TRUE, SameSiteKey)
           a6 == A(IsSecure(c), SecureFlag)
           a7 == A(c.http_only, HttpOnlyFlag)
           x1 == h \o a1
           x2 == x1 \o a2
           x3 == x2 \o a3
           x4 == x3 \o a4
           x5 == x4 \o a5
           x6 == x5 \o a6
           x7 == x6 \o a7
<1>1. CookieToString(c) = x7
  BY DEF CookieToString, NameValue
<1>2. ASSUME NEW given \in BOOLEAN, NEW lit \in Nat
      PROVE  A(given, lit) \in Text /\ \A k : k # Semicolon => (k \in Range(A(given, lit)) <=> k = lit /\ given)
  <2>1. Semicolon \in Nat
    BY DEF Semicolon
  <2> DEFINE t == Append(<<lit>>, Semicolon)
  <2>2. <<lit>> \in Seq(Nat) /\ Len(<<lit>>) = 1 /\ <<lit>>[1] = lit
    OBVIOUS
  <2>3. t \in Text /\ <<>> \in Text /\ DOMAIN t = 1..2 /\ t[1] = lit /\ t[2] = Semicolon
    BY <2>1, <2>2, TextConcat DEF Text
  <2> HIDE DEF t
  <2>4. Range(t) = {lit, Semicolon}
    <3>1. 1 \in 1..2 /\ 2 \in 1..2 /\ \A k \in 1..2 : k = 1 \/ k = 2
      OBVIOUS
    <3> QED BY <2>3, <3>1 DEF Range
  <2>5. Range(<<>>) = {}
    BY DEF Range
  <2>6. CASE given
    <3>1. A(given, lit) = t
      BY <2>6 DEF t
    <3> HIDE DEF A
    <3> QED BY <2>3, <2>4, <2>6, <3>1
  <2>7. CASE ~given
    <3>1. A(given, lit) = <<>>
      BY <2>7
    <3> HIDE DEF A
    <3> QED BY <2>3, <2>5, <2>7, <3>1
  <2> QED BY <2>6, <2>7
<1>3. /\ ExpiresKey \in Nat /\ MaxAgeKey \in Nat /\ DomainKey \in Nat /\ PathKey \in Nat /\ SameSiteKey \in Nat
      /\ SecureFlag \in Nat /\ HttpOnlyFlag \in Nat
  BY DEF ExpiresKey, MaxAgeKey, DomainKey, PathKey, SameSiteKey, SecureFlag, HttpOnlyFlag
<1>4. /\ (c.expires # "") \in BOOLEAN /\ (c.max_age # 0) \in BOOLEAN /\ c.domain \in BOOLEAN /\ c.path \in BOOLEAN
      /\ IsSecure(c) \in BOOLEAN /\ c.http_only \in BOOLEAN /\ TRUE \in BOOLEAN
  BY DEF Cookie, IsSecure
<1> HIDE DEF A
<1> DEFINE R(a, given, lit) == a \in Text /\ \A k : k # Semicolon => (k \in Range(a) <=> k = lit /\ given)
<1>5. /\ R(a1, c.expires # "", ExpiresKey)
      /\ R(a2, c.max_age # 0, MaxAgeKey)
      /\ R(a3, c.domain, DomainKey)
      /\ R(a4, c.path, PathKey)
      /\ R(a5, TRUE, SameSiteKey)
      /\ R(a6, IsSecure(c), SecureFlag)
      /\ R(a7, c.http_only, HttpOnlyFlag)
  <2>1. R(a1, c.expires # "", ExpiresKey)
    BY <1>2, <1>3, <1>4
  <2>2. R(a2, c.max_age # 0, MaxAgeKey)
    BY <1>2, <1>3, <1>4
  <2>3. R(a3, c.domain, DomainKey)
    BY <1>2, <1>3, <1>4
  <2>4. R(a4, c.path, PathKey)
    BY <1>2, <1>3, <1>4
  <2>5. R(a5, TRUE, SameSiteKey)
    BY <1>2, <1>3, <1>4
  <2>6. R(a6, IsSecure(c), SecureFlag)
    BY <1>2, <1>3, <1>4
  <2>7. R(a7, c.http_only, HttpOnlyFlag)
    BY <1>2, <1>3, <1>4
  <2> HIDE DEF R, a1, a2, a3, a4, a5, a6, a7
  <2> QED BY <2>1, <2>2, <2>3, <2>4, <2>5, <2>6, <2>7
<1> HIDE DEF a1, a2, a3, a4, a5, a6, a7
<1>6. a1 \in Text /\ a2 \in Text /\ a3 \in Text /\ a4 \in Text /\ a5 \in Text /\ a6 \in Text /\ a7 \in Text
  BY ONLY <1>5
<1>7. ASSUME NEW k, k # Semicolon
       PROVE  /\ k \in Range(a1) <=> (k = ExpiresKey /\ c.expires # "")
              /\ k \in Range(a2) <=> (k = MaxAgeKey /\ c.max_age # 0)
              /\ k \in Range(a3) <=> (k = DomainKey /\ c.domain)
              /\ k \in Range(a4) <=> (k = PathKey /\ c.path)
              /\ k \in Range(a5) <=> (k = SameSiteKey /\ TRUE)
              /\ k \in Range(a6) <=> (k = SecureFlag /\ IsSecure(c))
              /\ k \in Range(a7) <=> (k = HttpOnlyFlag /\ c.http_only)
  BY ONLY <1>5, <1>7
<1> HIDE DEF R
<1>8. nv \in Text /\ Avoids(nv, Semicolon) /\ <<Semicolon>> \in Text /\ Semicolon \in Nat
  BY NameValueType, Literals, TextConcat
<1>9. Range(nv) \subseteq 0..255
  <2>1. c.name \in Text /\ c.value \in Text /\ <<Equals>> \in Text
    BY NameValueType
  <2>2. c.name \o <<Equals>> \in Text
    BY <2>1, TextConcat
  <2>3. Range(c.name \o <<Equals>>) = Range(c.name) \cup Range(<<Equals>>)
    BY <2>1, RangeConcat
  <2>4. Range(nv) = Range(c.name \o <<Equals>>) \cup Range(c.value)
    BY <2>1, <2>2, RangeConcat DEF NameValue
  <2>5. Range(c.name \o c.value) = Range(c.name) \cup Range(c.value)
    BY <2>1, RangeConcat
  <2>6. Range(<<Equals>>) = {Equals}
    BY DEF Range
  <2>7. Equals \in 0..255
    BY DEF Equals
  <2>8. Range(c.name \o c.value) \subseteq 0..255
    BY DEF WellFormed
  <2> HIDE DEF nv
  <2> QED BY <2>3, <2>4, <2>5, <2>6, <2>7, <2>8
<1> HIDE DEF nv
<1>10. h \in Text /\ Begins(h, h) /\ Range(h) \subseteq 0..255
  <2>1. h \in Text /\ Range(h) = Range(nv) \cup Range(<<Semicolon>>)
    BY <1>8, TextConcat, RangeConcat
  <2>2. Range(<<Semicolon>>) = {Semicolon}
    BY DEF Range
  <2>3. Semicolon \in 0..255
    BY DEF Semicolon
  <2> HIDE DEF h
  <2>4. h \o <<>> = h /\ <<>> \in Text
    BY <2>1, TextUnit, TextConcat
  <2>5. Begins(h, h)
    BY <2>1, <2>4 DEF Begins
  <2> QED BY <1>9, <2>1, <2>2, <2>3, <2>5
<1> HIDE DEF h
<1>11. Begins(x1, h) /\ Range(x1) = Range(h) \cup Range(a1)
  <2>1. a1 \in Text /\ h \in Text
    BY ONLY <1>6, <1>10
  <2>2. Grows(h, a1, h)
    BY ONLY <2>1, BeginsMore
  <2> QED BY ONLY <2>2, <1>10 DEF Grows
<1> HIDE DEF x1
<1>12. Begins(x2, h) /\ Range(x2) = Range(x1) \cup Range(a2)
  <2>1. a2 \in Text /\ h \in Text
    BY ONLY <1>6, <1>10
  <2>2. Grows(x1, a2, h)
    BY ONLY <2>1, BeginsMore
  <2> QED BY ONLY <2>2, <1>11 DEF Grows
<1> HIDE DEF x2
<1>13. Begins(x3, h) /\ Range(x3) = Range(x2) \cup Range(a3)
  <2>1. a3 \in Text /\ h \in Text
    BY ONLY <1>6, <1>10
  <2>2. Grows(x2, a3, h)
    BY ONLY <2>1, BeginsMore
  <2> QED BY ONLY <2>2, <1>12 DEF Grows
<1> HIDE DEF x3
<1>14. Begins(x4, h) /\ Range(x4) = Range(x3) \cup Range(a4)
  <2>1. a4 \in Text /\ h \in Text
    BY ONLY <1>6, <1>10
  <2>2. Grows(x3, a4, h)
    BY ONLY <2>1, BeginsMore
  <2> QED BY ONLY <2>2, <1>13 DEF Grows
<1> HIDE DEF x4
<1>15. Begins(x5, h) /\ Range(x5) = Range(x4) \cup Range(a5)
  <2>1. a5 \in Text /\ h \in Text
    BY ONLY <1>6, <1>10
  <2>2. Grows(x4, a5, h)
    BY ONLY <2>1, BeginsMore
  <2> QED BY ONLY <2>2, <1>14 DEF Grows
<1> HIDE DEF x5
<1>16. Begins(x6, h) /\ Range(x6) = Range(x5) \cup Range(a6)
  <2>1. a6 \in Text /\ h \in Text
    BY ONLY <1>6, <1>10
  <2>2. Grows(x5, a6, h)
    BY ONLY <2>1, BeginsMore
  <2> QED BY ONLY <2>2, <1>15 DEF Grows
<1> HIDE DEF x6
<1>17. Begins(x7, h) /\ Range(x7) = Range(x6) \cup Range(a7)
  <2>1. a7 \in Text /\ h \in Text
    BY ONLY <1>6, <1>10
  <2>2. Grows(x6, a7, h)
    BY ONLY <2>1, BeginsMore
  <2> QED BY ONLY <2>2, <1>16 DEF Grows
<1> HIDE DEF x7
<1>18. Find(x7, <<Semicolon>>, 0) = Len(nv) /\ SubSeq(x7, 1, Len(nv)) = nv
  <2>1. PICK r \in Text : x7 = h \o r
    BY <1>17 DEF Begins
  <2>2. InTwo(x7, nv, Semicolon, r)
    BY <2>1 DEF InTwo, h
  <2> QED BY <1>8, <2>2, CutAt
<1>19. Range(x7) = Range(h) \cup Range(a1) \cup Range(a2) \cup Range(a3) \cup Range(a4) \cup Range(a5)
                   \cup Range(a6) \cup Range(a7)
  BY ONLY <1>11, <1>12, <1>13, <1>14, <1>15, <1>16, <1>17
<1>20. ASSUME NEW k \in Nat, k > 255
       PROVE  k \in Range(x7) <=> \/ k = ExpiresKey /\ c.expires # ""
                                  \/ k = MaxAgeKey /\ c.max_age # 0
                                  \/ k = DomainKey /\ c.domain
                                  \/ k = PathKey /\ c.path
                                  \/ k = SameSiteKey
                                  \/ k = SecureFlag /\ IsSecure(c)
                                  \/ k \in Range(a7)
  <2>1. k \notin Range(h) /\ k # Semicolon
    <3>1. k \notin 0..255
      BY <1>20
    <3>2. k # Semicolon
      BY <1>20 DEF Semicolon
    <3> QED BY <1>10, <3>1, <3>2
  <2>2. k \in Range(x7) <=> \/ k \in Range(a1) \/ k \in Range(a2) \/ k \in Range(a3) \/ k \in Range(a4)
                            \/ k \in Range(a5) \/ k \in Range(a6) \/ k \in Range(a7)
    BY ONLY <1>19, <2>1
  <2> QED BY ONLY <1>7, <2>1, <2>2
<1>21. /\ \A k \in {ExpiresKey, MaxAgeKey, DomainKey, PathKey, SecureFlag} : k \in Nat /\ k > 255 /\ k \notin Range(a7) /\ k # SameSiteKey
       /\ ExpiresKey \notin {MaxAgeKey, DomainKey, PathKey, SecureFlag} /\ MaxAgeKey \notin {DomainKey, PathKey, SecureFlag}
       /\ DomainKey \notin {PathKey, SecureFlag} /\ PathKey # SecureFlag
  <2>1. ASSUME NEW k \in Range(a7) PROVE k = HttpOnlyFlag \/ k = Semicolon
    BY ONLY <1>7
  <2> QED BY <2>1 DEF ExpiresKey, MaxAgeKey, DomainKey, PathKey, SameSiteKey, SecureFlag, HttpOnlyFlag, Semicolon
<1>22. /\ ExpiresKey \in Range(x7) <=> c.expires # ""
       /\ MaxAgeKey \in Range(x7) <=> c.max_age # 0
       /\ DomainKey \in Range(x7) <=> c.domain
       /\ PathKey \in Range(x7) <=> c.path
       /\ SecureFlag \in Range(x7) <=> IsSecure(c)
  <2>1. ExpiresKey \in Range(x7) <=> c.expires # ""
    BY ONLY <1>20, <1>21
  <2>2. MaxAgeKey \in Range(x7) <=> c.max_age # 0
    BY ONLY <1>20, <1>21
  <2>3. DomainKey \in Range(x7) <=> c.domain
    BY ONLY <1>20, <1>21
  <2>4. PathKey \in Range(x7) <=> c.path
    BY ONLY <1>20, <1>21
  <2>5. SecureFlag \in Range(x7) <=> IsSecure(c)
    BY ONLY <1>20, <1>21
  <2> QED BY <2>1, <2>2, <2>3, <2>4, <2>5
<1> QED BY <1>1, <1>18, <1>22 DEF SetCookie, nv

\* What the two functions that split a pair make of one.
PairRead(n, v) ==
  LET pair == Pair(n \o <<Equals>> \o v)
  IN  /\ v = <<>> => pair = <<>>
      /\ pair # <<>> => pair[1] = n
      /\ v # <<>> /\ Avoids(v, Equals) => pair = <<n, v>>

\* A pair is read so.
LEMMA PairOfTexts ==
  ASSUME NEW n \in Text, NEW v \in Text, n # <<>>, Avoids(n, Equals)
  PROVE  PairRead(n, v)
<1> DEFINE s == n \o <<Equals>> \o v
           d == <<Equals>>
<1>a. Equals \in Nat /\ d \in Text /\ d # <<>> /\ d[1] = Equals /\ Len(d) = 1
  BY Literals, TextConcat
<1>b. InTwo(s, n, Equals, v)
  BY DEF InTwo
<1>c. s \in Text /\ Find(s, d, 0) = Len(n) /\ SubSeq(s, 1, Len(n)) = n
  BY <1>a, <1>b, CutAt
<1>3. s = n \o d \o v
  OBVIOUS
<1> HIDE DEF s, d
<1>d. Len(n \o d) = Len(n) + 1 /\ n \o d \in Text /\ Len(s) = Len(n \o d) + Len(v)
  <2>1. n \o d \in Text /\ Len(n \o d) = Len(n) + Len(d)
    BY <1>a, ConcatAt
  <2> DEFINE t == n \o d
  <2> HIDE DEF t
  <2>2. t \in Text => Len(t \o v) = Len(t) + Len(v)
    BY ConcatAt
  <2> QED BY <1>a, <1>3, <2>1, <2>2 DEF t
<1>1. /\ s \in Text /\ s # <<>> /\ Find(s, d, 0) = Len(n)
      /\ SubSeq(s, 1, Len(n)) = n
      /\ Len(s) = Len(n) + 1 + Len(v)
  <2>1. Len(n) \in Nat /\ Len(v) \in Nat
    BY DEF Text
  <2>2. Len(s) # 0
    BY <1>d, <2>1
  <2> QED BY <1>c, <1>d, <2>2
<1>2. Len(n) \in Nat \ {0} /\ Len(v) \in Nat
  BY DEF Text
<1>4. PICK F : IsSplit(s, d, F)
  BY <1>a, <1>1, SplitSolved
<1>5. Stands(s, d, Len(n)) /\ \A p \in Nat : p >= 0 /\ p < Len(n) => ~Stands(s, d, p)
  <2>1. 0 \in Nat /\ Npos \notin Nat
    BY DEF Npos
  <2> QED BY <1>a, <1>1, <1>2, <2>1, FindFirst
<1>6. CASE v = <<>>
  <2>1. Len(n) + Len(d) = Len(s) /\ 0 <= Len(n) /\ 0 \in Nat
    BY <1>a, <1>1, <1>2, <1>6
  <2> DEFINE e == Len(n)
  <2>5. e \in Nat /\ 0 <= e /\ e # 0 /\ Stands(s, d, e) /\ e + Len(d) = Len(s)
        /\ \A p \in Nat : p >= 0 /\ p < e => ~Stands(s, d, p)
    BY <1>2, <1>5, <2>1
  <2> HIDE DEF e
  <2>2. F[0] = <<SubSeq(s, 0 + 1, e)>>
    <3>1. s \in Text /\ d \in Text /\ d # <<>>
      BY <1>a, <1>1
    <3> QED BY ONLY <1>4, <2>1, <2>5, <3>1, SplitLast
  <2>6. SubSeq(s, 0 + 1, e) = n
    BY <1>1 DEF e
  <2>3. Split(s, d) = <<n>>
    BY <1>4, <2>2, <2>6 DEF IsSplit
  <2>4. Pair(s) = <<>>
    BY <2>3 DEF Pair, d
  <2> QED BY <1>6, <2>4 DEF PairRead, s
<1>7. CASE v # <<>>
  <2>1. Len(v) # 0
    BY <1>7 DEF Text
  <2>2. Piece(s, d, 0, Len(n))
    BY <1>a, <1>1, <1>2, <1>5, <2>1 DEF Piece
  <2>3. F[0] = <<SubSeq(s, 0 + 1, Len(n))>> \o F[Len(n) + Len(d)] /\ F[Len(n) + Len(d)] \in Seq(Text)
    BY <1>a, <1>1, <1>4, <2>2, SplitOne
  <2>8. SubSeq(s, 0 + 1, Len(n)) = n
    BY <1>1
  <2>9. Split(s, d) = F[0]
    BY <1>4 DEF IsSplit
  <2>4. Split(s, d) = <<n>> \o F[Len(n) + Len(d)]
    BY <2>3, <2>8, <2>9
  <2>5. Split(s, d)[1] = n
    BY <2>3, <2>4
  <2>6. Pair(s) # <<>> => Pair(s)[1] = n
    BY <2>5 DEF Pair, d
  <2>7. Avoids(v, Equals) => Pair(s) = <<n, v>>
    <3> SUFFICES ASSUME Avoids(v, Equals) PROVE Pair(s) = <<n, v>>
      OBVIOUS
    <3>2. Split(s, d) = <<n, v>>
      BY <1>a, <1>3, <1>7, SplitTwo
    <3> QED BY <3>2 DEF Pair, d
  <2> QED BY <1>7, <2>6, <2>7 DEF PairRead, s
<1> QED BY <1>6, <1>7


\* What cookie_value() makes of such a pair: nothing of one without a value,
\* and else the name, if anything.
PairRight(c) ==
  /\ c.value = <<>> => Pair(NameValue(c)) = <<>>
  /\ Pair(NameValue(c)) # <<>> => Pair(NameValue(c))[1] = c.name
  /\ c.value # <<>> /\ Equals \notin Range(c.value) => Pair(NameValue(c)) = <<c.name, c.value>>

\* The pairs of the cookies that are well formed are read so.
LEMMA PairOfCookie ==
  ASSUME NEW c \in Cookie, WellFormed(c)
  PROVE  PairRight(c)
<1>1. c.name \in Text /\ c.value \in Text /\ c.name # <<>> /\ Avoids(c.name, Equals)
  BY NameValueType
<1>2. PairRead(c.name, c.value)
  BY <1>1, PairOfTexts
<1>3. Equals \notin Range(c.value) => Avoids(c.value, Equals)
  BY <1>1, AvoidsRange
<1> QED BY <1>2, <1>3 DEF PairRead, PairRight, NameValue

AllWellFormed(jar) == \A i \in DOMAIN jar : WellFormed(jar[i])

\* What a browser keeps by what the Set-Cookie texts say is in force.
LEMMA KeptInForce ==
  ASSUME NEW jar \in Seq(Cookie), AllWellFormed(jar), NEW https \in BOOLEAN
  PROVE  Kept(jar, https) = InForce(jar, https)
<1> DEFINE Past(c) == IF c.max_age = 0 THEN c.expires = "past" ELSE c.max_age < 0
           Place3(c) == <<c.name, c.domain, c.path>>
           Sendable(c) == c.secure \/ c.same_site = "none" => https
<1>1. ASSUME NEW i \in DOMAIN jar
      PROVE  /\ jar[i] \in Cookie
             /\ ExpiresKey \in Attributes(jar[i]) <=> jar[i].expires # ""
             /\ MaxAgeKey \in Attributes(jar[i]) <=> jar[i].max_age # 0
             /\ DomainKey \in Attributes(jar[i]) <=> jar[i].domain
             /\ PathKey \in Attributes(jar[i]) <=> jar[i].path
             /\ SecureFlag \in Attributes(jar[i]) <=> IsSecure(jar[i])
  <2>1. jar[i] \in Cookie /\ WellFormed(jar[i])
    BY DEF AllWellFormed
  <2>2. SetCookie(jar[i])
    BY <2>1, SetCookieText
  <2> QED BY <2>1, <2>2 DEF SetCookie, Attributes
<1>2. ASSUME NEW i \in DOMAIN jar PROVE Taken(jar[i], https) <=> Sendable(jar[i])
  <2>1. SecureFlag \in Attributes(jar[i]) <=> IsSecure(jar[i])
    BY <1>1
  <2>2. CASE IsSecure(jar[i])
    <3>1. Taken(jar[i], https) <=> https
      BY <2>1, <2>2 DEF Taken
    <3> QED BY <2>2, <3>1 DEF IsSecure
  <2>3. CASE ~IsSecure(jar[i])
    <3>1. Taken(jar[i], https) <=> jar[i].same_site # "none"
      BY <2>1, <2>3 DEF Taken
    <3> QED BY <2>3, <3>1 DEF IsSecure
  <2> QED BY <2>2, <2>3
<1>3. ASSUME NEW i \in DOMAIN jar PROVE Expired(jar[i]) <=> Past(jar[i])
  <2>1. CASE jar[i].max_age = 0
    BY <1>1, <2>1 DEF Expired
  <2>2. CASE jar[i].max_age # 0
    BY <1>1, <2>2 DEF Expired
  <2> QED BY <2>1, <2>2
<1>4. ASSUME NEW i \in DOMAIN jar, NEW j \in DOMAIN jar
      PROVE  Replaces(jar[j], jar[i]) <=> Place3(jar[j]) = Place3(jar[i])
  <2>1. jar[i].domain \in BOOLEAN /\ jar[i].path \in BOOLEAN /\ jar[j].domain \in BOOLEAN /\ jar[j].path \in BOOLEAN
    BY <1>1 DEF Cookie
  <2>2. Replaces(jar[j], jar[i]) <=> (/\ jar[j].name = jar[i].name
                                      /\ (jar[j].domain <=> jar[i].domain)
                                      /\ (jar[j].path <=> jar[i].path))
    <3>1. \A key : key \in {DomainKey, PathKey} <=> key = DomainKey \/ key = PathKey
      OBVIOUS
    <3> QED BY <1>1, <3>1 DEF Replaces
  <2>3. (jar[j].domain <=> jar[i].domain) <=> jar[j].domain = jar[i].domain
    BY <2>1
  <2>4. (jar[j].path <=> jar[i].path) <=> jar[j].path = jar[i].path
    BY <2>1
  <2> QED BY <2>2, <2>3, <2>4
<1> DEFINE taken == {i \in DOMAIN jar : Taken(jar[i], https)}
           sent == {i \in DOMAIN jar : Sendable(jar[i])}
<1>5. Kept(jar, https) = {i \in taken : ~Expired(jar[i]) /\ \A j \in taken : Replaces(jar[j], jar[i]) => j <= i}
  BY DEF Kept
<1>6. InForce(jar, https) = {i \in sent : ~Past(jar[i]) /\ \A j \in sent : Place3(jar[j]) = Place3(jar[i]) => j <= i}
  BY DEF InForce
<1>7. taken = sent /\ taken \subseteq DOMAIN jar
  <2> HIDE DEF Sendable
  <2> QED BY <1>2
<1> HIDE DEF taken, sent, Past, Place3
<1> QED BY <1>3, <1>4, <1>5, <1>6, <1>7

\* The cookies of a jar in an order of the browser.
InThatOrder(jar, order) == [k \in DOMAIN order |-> jar[order[k]]]

Sends(jar, https, K) ==
  /\ K \in Seq(Cookie) /\ Len(K) = Cardinality(InForce(jar, https))
  /\ \A k \in DOMAIN K : \E i \in InForce(jar, https) : K[k] = jar[i]
  /\ \A i \in InForce(jar, https) : \E k \in DOMAIN K : K[k] = jar[i]

\* A browser sends exactly the cookies that are in force.
LEMMA SentInForce ==
  ASSUME NEW jar \in Seq(Cookie), AllWellFormed(jar), NEW https \in BOOLEAN,
         NEW order \in Orders(Kept(jar, https))
  PROVE  Sends(jar, https, InThatOrder(jar, order)) /\ InForce(jar, https) \subseteq DOMAIN jar
<1> DEFINE P == InForce(jar, https)
           m == Cardinality(P)
           K == InThatOrder(jar, order)
<1>1. P \subseteq 1..Len(jar) /\ Len(jar) \in Nat /\ DOMAIN jar = 1..Len(jar)
  BY DEF InForce
<1>2. m \in Nat
  <2> HIDE DEF P
  <2>1. IsFiniteSet(1..Len(jar))
    BY <1>1, FS_Interval
  <2>2. IsFiniteSet(P)
    BY <1>1, <2>1, FS_Subset
  <2> QED BY <2>2, FS_CardinalityType
<1>3. order \in [1..m -> P] /\ Range(order) = P
  <2>1. Kept(jar, https) = P
    BY KeptInForce
  <2> QED BY <2>1 DEF Orders
<1> HIDE DEF P, m
<1>4. DOMAIN order = 1..m /\ \A k \in 1..m : order[k] \in P
  BY <1>3
<1>5. \A i \in P : \E k \in 1..m : order[k] = i
  BY <1>3, <1>4 DEF Range
<1>6. K = [k \in 1..m |-> jar[order[k]]]
  BY <1>4 DEF InThatOrder
<1> HIDE DEF K
<1>7. \A k \in 1..m : jar[order[k]] \in Cookie
  <2>1. \A i \in P : i \in 1..Len(jar) /\ jar[i] \in Cookie
    BY <1>1
  <2> QED BY ONLY <1>4, <2>1
<1>8. K \in Seq(Cookie) /\ Len(K) = m /\ DOMAIN K = 1..m
  BY <1>2, <1>6, <1>7
<1>9. \A k \in 1..m : K[k] = jar[order[k]]
  BY <1>6
<1>10. \A k \in DOMAIN K : \E i \in P : K[k] = jar[i]
  BY <1>4, <1>8, <1>9
<1>11. \A i \in P : \E k \in DOMAIN K : K[k] = jar[i]
  BY <1>5, <1>8, <1>9
<1> QED BY <1>1, <1>8, <1>10, <1>11 DEF Sends, P, m, K

\* The pairs that the browser sends, and what it makes of them.
Pairs(K) == [k \in DOMAIN K |-> NameValue(K[k])]
PairText(pairs) == Joined(pairs, <<Semicolon, Space>>)

\* The browser sends the pairs of what is in force.
LEMMA PairsSent ==
  ASSUME NEW jar \in Seq(Cookie), AllWellFormed(jar), NEW https \in BOOLEAN,
         NEW order \in Orders(Kept(jar, https)), NEW K, K = InThatOrder(jar, order)
  PROVE  /\ K \in Seq(Cookie) /\ \A k \in DOMAIN K : WellFormed(K[k])
         /\ CookieHeader(jar, order) = IF Pairs(K) = <<>> THEN <<>> ELSE <<PairText(Pairs(K))>>
<1>1. Sends(jar, https, K) /\ InForce(jar, https) \subseteq DOMAIN jar
  BY SentInForce
<1>2. K \in Seq(Cookie) /\ \A k \in DOMAIN K : WellFormed(K[k])
  BY <1>1 DEF Sends, AllWellFormed
<1>3. ASSUME NEW k \in DOMAIN K
      PROVE  SubSeq(CookieToString(K[k]), 1, Find(CookieToString(K[k]), <<Semicolon>>, 0)) = NameValue(K[k])
  <2>1. K[k] \in Cookie /\ WellFormed(K[k])
    BY <1>2
  <2>2. SetCookie(K[k])
    BY <2>1, SetCookieText
  <2> QED BY <2>2 DEF SetCookie
<1> DEFINE ps == [i \in DOMAIN order |-> LET text == CookieToString(jar[order[i]])
                                         IN  SubSeq(text, 1, Find(text, <<Semicolon>>, 0))]
<1>4. CookieHeader(jar, order) = IF ps = <<>> THEN <<>> ELSE <<Joined(ps, <<Semicolon, Space>>)>>
  BY DEF CookieHeader
<1>5. ps = Pairs(K)
  <2>1. DOMAIN K = DOMAIN order /\ \A i \in DOMAIN order : K[i] = jar[order[i]]
    BY DEF InThatOrder
  <2> QED BY <1>3, <2>1 DEF Pairs
<1> HIDE DEF ps
<1> QED BY <1>2, <1>4, <1>5 DEF PairText

\* split() returns these pairs.
LEMMA PairsSplit ==
  ASSUME NEW K \in Seq(Cookie), \A k \in DOMAIN K : WellFormed(K[k])
  PROVE  /\ Pairs(K) \in Seq(Text) /\ Len(Pairs(K)) = Len(K)
         /\ \A k \in DOMAIN K : Pairs(K)[k] = NameValue(K[k])
         /\ Pairs(K) # <<>> => SplitHeaderValue(PairText(Pairs(K))) = Pairs(K)
<1> DEFINE pairs == Pairs(K)
           d == <<Semicolon, Space>>
<1>1. DOMAIN K = 1..Len(K) /\ Len(K) \in Nat
  OBVIOUS
<1>2. ASSUME NEW k \in DOMAIN K
      PROVE  NameValue(K[k]) \in Text /\ NameValue(K[k]) # <<>> /\ Avoids(NameValue(K[k]), Semicolon)
  <2>1. K[k] \in Cookie /\ WellFormed(K[k])
    OBVIOUS
  <2> QED BY <2>1, NameValueType
<1>3. /\ pairs \in Seq(Text) /\ Len(pairs) = Len(K)
      /\ \A k \in DOMAIN K : pairs[k] = NameValue(K[k])
  BY <1>1, <1>2 DEF Pairs
<1> HIDE DEF pairs
<1>4. d \in Text /\ d # <<>> /\ d[1] = Semicolon
  BY Literals, TextConcat
<1> HIDE DEF d
<1>5. \A i \in 1..Len(pairs) : pairs[i] # <<>> /\ Avoids(pairs[i], d[1])
  BY <1>1, <1>2, <1>3, <1>4
<1>6. pairs # <<>> => Split(Joined(pairs, d), d) = pairs
  BY <1>3, <1>4, <1>5, SplitJoined
<1> QED BY <1>3, <1>6 DEF SplitHeaderValue, PairText, d, pairs

\* The value is that of the first of the cookies K whose pair has the name.
ValueInPairs(jar, order, name, K) ==
  CookieValue(CookieHeader(jar, order), name) =
    LET hits == {k \in DOMAIN K : Pair(NameValue(K[k])) # <<>> /\ Pair(NameValue(K[k]))[1] = name}
    IN  IF hits = {} THEN None ELSE Pair(NameValue(K[CHOOSE k \in hits : \A l \in hits : k <= l]))[2]

\* cookie_value() looks through the pairs.
LEMMA ValueOfPairs ==
  ASSUME NEW jar \in Seq(Cookie), AllWellFormed(jar), NEW https \in BOOLEAN,
         NEW order \in Orders(Kept(jar, https)), NEW name, NEW K, K = InThatOrder(jar, order)
  PROVE  ValueInPairs(jar, order, name, K)
<1> DEFINE h == CookieHeader(jar, order)
           pairs == IF h = <<>> THEN <<>> ELSE SplitHeaderValue(h[1])
<1>1. /\ K \in Seq(Cookie) /\ \A k \in DOMAIN K : WellFormed(K[k])
      /\ h = IF Pairs(K) = <<>> THEN <<>> ELSE <<PairText(Pairs(K))>>
  BY PairsSent
<1>2. /\ Pairs(K) \in Seq(Text) /\ Len(Pairs(K)) = Len(K)
      /\ \A k \in DOMAIN K : Pairs(K)[k] = NameValue(K[k])
      /\ Pairs(K) # <<>> => SplitHeaderValue(PairText(Pairs(K))) = Pairs(K)
  BY <1>1, PairsSplit
<1>3. CookieValue(h, name) =
        LET hits == {k \in DOMAIN pairs : Pair(pairs[k]) # <<>> /\ Pair(pairs[k])[1] = name}
        IN  IF hits = {} THEN None ELSE Pair(pairs[CHOOSE k \in hits : \A l \in hits : k <= l])[2]
  BY DEF CookieValue
<1> HIDE DEF h
<1>4. pairs = Pairs(K)
  BY <1>1, <1>2
<1> HIDE DEF pairs
<1>5. DOMAIN pairs = DOMAIN K /\ \A k \in DOMAIN K : pairs[k] = NameValue(K[k])
  BY <1>1, <1>2, <1>4
<1> DEFINE hp == {k \in DOMAIN pairs : Pair(pairs[k]) # <<>> /\ Pair(pairs[k])[1] = name}
           hk == {k \in DOMAIN K : Pair(NameValue(K[k])) # <<>> /\ Pair(NameValue(K[k]))[1] = name}
           c == CHOOSE k \in hk : \A l \in hk : k <= l
<1>6. hp = hk
  BY <1>5
<1>7. CookieValue(h, name) = IF hp = {} THEN None ELSE Pair(pairs[CHOOSE k \in hp : \A l \in hp : k <= l])[2]
  BY <1>3
<1>8. hk # {} => c \in hk
  <2>1. hk \subseteq Nat
    BY <1>1
  <2> HIDE DEF hk
  <2>2. hk # {} => \E k \in hk : \A l \in hk : k <= l
    BY <2>1, Least
  <2> QED BY <2>2
<1>9. hk # {} => c \in DOMAIN K
  BY <1>8
<1>10. hk # {} => pairs[c] = NameValue(K[c])
  <2> HIDE DEF hk, c
  <2> QED BY <1>5, <1>9
<1> HIDE DEF hp, hk
<1>11. CookieValue(h, name) = IF hk = {} THEN None ELSE Pair(NameValue(K[c]))[2]
  BY <1>6, <1>7, <1>10
<1> QED BY <1>11 DEF h, hk, ValueInPairs

\* The text of one pair is that pair.
LEMMA JoinedOne ==
  ASSUME NEW u \in Text, NEW d
  PROVE  Joined(<<u>>, d) = u
<1> DEFINE seqs == [i \in DOMAIN <<u>> |-> IF i = Len(<<u>>) THEN <<u>>[i] ELSE <<u>>[i] \o d]
<1>1. Joined(<<u>>, d) = FlattenSeq(seqs)
  BY DEF Joined
<1>2. seqs = <<u>>
  OBVIOUS
<1> HIDE DEF seqs
<1>3. seqs \in Seq(Text) /\ Len(seqs) = 1 /\ seqs[1] = u
  BY <1>2
<1>4. PICK G : IsFlat(seqs, G)
  BY <1>3, FlatSolved
<1>5. FlattenSeq(seqs) = G[1] /\ G[0] = <<>> /\ G[1] = G[1 - 1] \o seqs[1]
  BY <1>3, <1>4 DEF IsFlat
<1>6. <<>> \o u = u
  BY TextUnit
<1>7. 1 - 1 = 0
  OBVIOUS
<1>8. G[1] = <<>> \o seqs[1]
  BY <1>5, <1>7
<1>9. seqs[1] = u
  BY <1>2
<1> QED BY <1>1, <1>5, <1>6, <1>8, <1>9

\* The values in force of a name.
ValuesOf(jar, https, name) == {jar[k].value : k \in {l \in InForce(jar, https) : jar[l].name = name}}

\* cookie_value() of what the browser sends.
ValueRight(jar, https, order, name) ==
  LET value == CookieValue(CookieHeader(jar, order), name)
      values == ValuesOf(jar, https, name)
  IN  (\A v \in values : Equals \notin Range(v)) =>
        IF values \subseteq {<<>>} THEN value = None ELSE value \in values \ {<<>>}

\* That is a value in force, and one that is not empty.
LEMMA ValueFound ==
  ASSUME NEW jar \in Seq(Cookie), AllWellFormed(jar), NEW https \in BOOLEAN,
         NEW order \in Orders(Kept(jar, https)), NEW name
  PROVE  ValueRight(jar, https, order, name)
<1> DEFINE K == InThatOrder(jar, order)
           P(k) == Pair(NameValue(K[k]))
           hits == {k \in DOMAIN K : P(k) # <<>> /\ P(k)[1] = name}
           c == CHOOSE k \in hits : \A l \in hits : k <= l
           value == CookieValue(CookieHeader(jar, order), name)
           values == ValuesOf(jar, https, name)
<1> SUFFICES ASSUME \A v \in values : Equals \notin Range(v)
             PROVE  IF values \subseteq {<<>>} THEN value = None ELSE value \in values \ {<<>>}
  BY DEF ValueRight
<1>1. K \in Seq(Cookie) /\ \A k \in DOMAIN K : WellFormed(K[k])
  BY PairsSent
<1>2. value = IF hits = {} THEN None ELSE P(c)[2]
  <2>1. ValueInPairs(jar, order, name, K)
    <3>1. jar \in Seq(Cookie) /\ AllWellFormed(jar) /\ https \in BOOLEAN /\ order \in Orders(Kept(jar, https))
          /\ K = InThatOrder(jar, order)
      OBVIOUS
    <3> HIDE DEF K
    <3> QED BY ONLY <3>1, ValueOfPairs
  <2> QED BY ONLY <2>1 DEF ValueInPairs
<1>3. Sends(jar, https, K)
  BY SentInForce
<1>4. ASSUME NEW k \in DOMAIN K PROVE PairRight(K[k])
  <2>1. K[k] \in Cookie /\ WellFormed(K[k])
    BY <1>1
  <2> QED BY <2>1, PairOfCookie
<1> HIDE DEF K, value
<1>5. ASSUME NEW k \in DOMAIN K, K[k].name = name PROVE K[k].value \in values
  <2>1. PICK i \in InForce(jar, https) : K[k] = jar[i]
    BY <1>3 DEF Sends
  <2>2. i \in {l \in InForce(jar, https) : jar[l].name = name} /\ jar[i].value = K[k].value
    BY <1>5, <2>1
  <2> QED BY <2>2 DEF ValuesOf
<1>6. ASSUME NEW v \in values PROVE \E k \in DOMAIN K : K[k].name = name /\ K[k].value = v
  <2>1. PICK i \in InForce(jar, https) : jar[i].name = name /\ jar[i].value = v
    BY <1>6 DEF ValuesOf
  <2>2. PICK k \in DOMAIN K : K[k] = jar[i]
    BY <1>3, <2>1 DEF Sends
  <2> QED BY <2>1, <2>2
<1> HIDE DEF values
<1>7. ASSUME NEW k \in DOMAIN K, K[k].name = name, K[k].value # <<>>
      PROVE  P(k) = <<name, K[k].value>>
  <2>1. Equals \notin Range(K[k].value)
    BY <1>5, <1>7
  <2> QED BY <1>4, <1>7, <2>1 DEF PairRight
<1>8. ASSUME NEW k \in hits
      PROVE  K[k].value \in values \ {<<>>} /\ P(k)[2] = K[k].value
  <2>1. k \in DOMAIN K /\ P(k) # <<>> /\ P(k)[1] = name
    OBVIOUS
  <2>2. K[k].name = name /\ K[k].value # <<>>
    BY <1>4, <2>1 DEF PairRight
  <2>3. P(k) = <<name, K[k].value>>
    BY <1>7, <2>1, <2>2
  <2>4. P(k)[2] = K[k].value
    <3> HIDE DEF P
    <3> QED BY ONLY <2>3
  <2> QED BY <1>5, <2>1, <2>2, <2>4
<1>9. CASE values \subseteq {<<>>}
  <2>1. hits = {}
    <3> HIDE DEF hits
    <3> QED BY <1>8, <1>9
  <2> QED BY <1>2, <1>9, <2>1
<1>10. CASE ~(values \subseteq {<<>>})
  <2>1. PICK v \in values : v # <<>>
    BY <1>10
  <2>2. PICK k \in DOMAIN K : K[k].name = name /\ K[k].value = v
    BY <1>6
  <2>3. P(k) = <<name, v>>
    BY <1>7, <2>1, <2>2
  <2>4. P(k) # <<>> /\ P(k)[1] = name
    <3> HIDE DEF P
    <3> QED BY ONLY <2>3
  <2>5. k \in hits
    <3> HIDE DEF P
    <3> QED BY <2>4
  <2>6. c \in hits
    <3>1. hits \subseteq Nat
      BY <1>1
    <3> HIDE DEF hits
    <3>2. hits # {}
      BY <2>5
    <3>3. \E m \in hits : \A l \in hits : m <= l
      BY <3>1, <3>2, Least
    <3> QED BY <3>3
  <2> HIDE DEF hits, c
  <2>7. P(c)[2] \in values \ {<<>>}
    <3> HIDE DEF P
    <3> QED BY <1>8, <2>6
  <2>8. value = P(c)[2]
    BY <1>2, <2>5
  <2> QED BY <1>10, <2>7, <2>8
<1> QED BY <1>9, <1>10

\* request::cookie() of it, as long as one cookie is in force.
RequestRight(jar, https, order, name) ==
  Cardinality(InForce(jar, https)) = 1 /\ ValuesOf(jar, https, name) # {} =>
    RequestCookie(CookieHeader(jar, order), name) \in ValuesOf(jar, https, name)

\* It is a value in force, too.
LEMMA RequestFound ==
  ASSUME NEW jar \in Seq(Cookie), AllWellFormed(jar), NEW https \in BOOLEAN,
         NEW order \in Orders(Kept(jar, https)), NEW name
  PROVE  RequestRight(jar, https, order, name)
<1> DEFINE K == InThatOrder(jar, order)
           last == K[1]
           h == CookieHeader(jar, order)
           d == <<Equals>>
           nv == NameValue(last)
           values == ValuesOf(jar, https, name)
<1> SUFFICES ASSUME Cardinality(InForce(jar, https)) = 1, values # {}
             PROVE  RequestCookie(h, name) \in values
  BY DEF RequestRight
<1>1. /\ K \in Seq(Cookie) /\ \A k \in DOMAIN K : WellFormed(K[k])
      /\ h = IF Pairs(K) = <<>> THEN <<>> ELSE <<PairText(Pairs(K))>>
  BY PairsSent
<1>2. Sends(jar, https, K)
  BY SentInForce
<1> HIDE DEF K, h
<1>3. DOMAIN K = {1} /\ Len(K) = 1
  BY <1>1, <1>2 DEF Sends
<1>4. last \in Cookie /\ last.name = name /\ last.value \in values
  <2>1. PICK v \in values : TRUE
    OBVIOUS
  <2>2. PICK i \in InForce(jar, https) : jar[i].name = name /\ jar[i].value = v
    BY <2>1 DEF ValuesOf
  <2>3. PICK k \in DOMAIN K : K[k] = jar[i]
    BY <1>2, <2>2 DEF Sends
  <2>4. k = 1
    BY <1>3, <2>3
  <2>5. last = jar[i]
    BY <2>3, <2>4
  <2>6. last \in Cookie
    <3>1. \A l \in DOMAIN K : K[l] \in Cookie
      BY <1>1
    <3> QED BY <1>3, <3>1
  <2> HIDE DEF last
  <2> QED BY <2>1, <2>2, <2>5, <2>6
<1> HIDE DEF values
<1>5. WellFormed(last)
  BY <1>1, <1>3
<1> HIDE DEF last
<1>6. /\ nv \in Text /\ Find(nv, d, 0) = Len(name) /\ Len(name) \in Nat
      /\ SubSeq(nv, 1, Len(name)) = name
      /\ SubSeq(nv, Len(name) + 2, Len(nv)) = last.value
  <2> HIDE DEF nv
  <2>1. nv = NameValue(last)
    BY DEF nv
  <2>2. /\ nv \in Text /\ Find(nv, d, 0) = Len(last.name) /\ last.name \in Text
        /\ SubSeq(nv, 1, Len(last.name)) = last.name
        /\ SubSeq(nv, Len(last.name) + 2, Len(nv)) = last.value
    BY <1>4, <1>5, <2>1, NameValueType
  <2>3. last.name = name
    BY <1>4
  <2>4. name \in Text
    BY <2>2, <2>3
  <2>5. Len(name) \in Nat
    BY <2>4 DEF Text
  <2> HIDE DEF d
  <2> QED BY <2>2, <2>3, <2>5
<1> HIDE DEF nv
<1>7. h = <<nv>>
  <2>6. 1 \in DOMAIN K /\ K[1] = last
    BY <1>3 DEF last
  <2>7. Pairs(K) \in Seq(Text) /\ Len(Pairs(K)) = Len(K) /\ \A k \in DOMAIN K : Pairs(K)[k] = NameValue(K[k])
    BY <1>1, PairsSplit
  <2>1. Pairs(K) \in Seq(Text) /\ Len(Pairs(K)) = 1 /\ Pairs(K)[1] = nv
    BY <1>3, <2>6, <2>7 DEF nv
  <2> DEFINE p == Pairs(K)
  <2> HIDE DEF p
  <2>4. p \in Seq(Text) /\ Len(p) = 1 /\ p[1] = nv
    BY <2>1 DEF p
  <2>5. p = <<p[1]>>
    BY <2>4
  <2>2. Pairs(K) = <<nv>> /\ Pairs(K) # <<>>
    <3>1. p = <<nv>>
      BY <2>4, <2>5
    <3> QED BY <3>1 DEF p
  <2>3. PairText(Pairs(K)) = nv
    BY <1>6, <2>2, JoinedOne DEF PairText
  <2> QED BY <1>1, <2>2, <2>3
<1> DEFINE hits == {k \in DOMAIN h : /\ Find(h[k], <<Equals>>, 0) # Npos
                                     /\ SubSeq(h[k], 1, Find(h[k], <<Equals>>, 0)) = name}
           c == CHOOSE k \in hits : \A l \in hits : l <= k
<1>8. DOMAIN h = {1} /\ h[1] = nv
  BY <1>7
<1>9. hits = {1}
  <2>1. Find(h[1], d, 0) = Len(name) /\ Len(name) # Npos /\ SubSeq(h[1], 1, Len(name)) = name
    BY <1>6, <1>8 DEF Npos
  <2>2. 1 \in hits
    BY <1>8, <2>1
  <2> QED BY <1>8, <2>2
<1>10. c = 1
  BY <1>9
<1>11. RequestCookie(h, name) = IF hits = {} THEN <<>>
                                ELSE SubSeq(h[c], Find(h[c], <<Equals>>, 0) + 2, Len(h[c]))
  BY DEF RequestCookie
<1> HIDE DEF hits, c
<1>12. RequestCookie(h, name) = last.value
  <2>1. hits # {} /\ h[c] = nv
    BY <1>8, <1>9, <1>10
  <2>2. Find(nv, <<Equals>>, 0) = Len(name)
    BY <1>6
  <2> HIDE DEF d
  <2>3. RequestCookie(h, name) = SubSeq(nv, Len(name) + 2, Len(nv))
    BY ONLY <1>11, <2>1, <2>2
  <2> QED BY ONLY <1>6, <2>3
<1> QED BY <1>4, <1>12

\* What a handler reads of a cookie is in force for its name: set last for its name,
\* domain and path, not over, and sent over this kind of connection.
THEOREM LastCookieFound == ContentSpec => []CookieFound
<1>1. ContentInit => CookieFound
  BY DEF ContentInit, CookieFound, Idle
<1>2. CookieFound /\ [ContentNext]_contentvars => CookieFound'
  <2> SUFFICES ASSUME CookieFound, [ContentNext]_contentvars PROVE CookieFound'
    OBVIOUS
  <2>1. ASSUME UNCHANGED <<asked, answer>> PROVE CookieFound'
    BY <2>1 DEF CookieFound
  <2>2. ASSUME asked'.kind # "cookie" PROVE CookieFound'
    BY <2>2 DEF CookieFound
  <2>3. CASE Keep
    BY <2>1, <2>3 DEF Keep, AddField, Submit, Populate, ClearValues
  <2>4. ASSUME NEW enc \in Encodings, NEW es \in Entries, ParseForm(enc, es) PROVE CookieFound'
    BY <2>2, <2>4 DEF ParseForm, Ask
  <2>5. ASSUME NEW jar \in Jars, NEW https \in BOOLEAN, NEW name \in Names, ReadCookie(jar, https, name)
        PROVE  CookieFound'
    <3>1. PICK order \in Orders(Kept(jar, https)) :
            /\ asked'.jar = jar /\ asked'.https = https /\ asked'.name = name
            /\ answer'.value = CookieValue(CookieHeader(jar, order), name)
            /\ answer'.request = RequestCookie(CookieHeader(jar, order), name)
      BY <2>5 DEF ReadCookie, Ask
    <3>2. jar \in Seq(Cookie)
      BY TextsAssumption
    <3>3. ASSUME AllWellFormed(jar) PROVE ValueRight(jar, https, order, name) /\ RequestRight(jar, https, order, name)
      BY <3>2, <3>3, ValueFound, RequestFound
    <3>4. (\A i \in DOMAIN asked'.jar : WellFormed(asked'.jar[i])) <=> AllWellFormed(jar)
      BY <3>1 DEF AllWellFormed
    <3>5. InForce(asked'.jar, asked'.https) = InForce(jar, https)
      BY <3>1
    <3>6. {asked'.jar[k].value : k \in {l \in InForce(jar, https) : asked'.jar[l].name = asked'.name}}
            = ValuesOf(jar, https, name)
      BY <3>1 DEF ValuesOf
    <3> DEFINE values == ValuesOf(jar, https, name)
    <3>7. ASSUME AllWellFormed(jar)
          PROVE  /\ (\A v \in values : Equals \notin Range(v)) =>
                      IF values \subseteq {<<>>} THEN answer'.value = None ELSE answer'.value \in values \ {<<>>}
                 /\ Cardinality(InForce(jar, https)) = 1 /\ values # {} => answer'.request \in values
      <4>1. ValueRight(jar, https, order, name) /\ RequestRight(jar, https, order, name)
        BY <3>3, <3>7
      <4>2. (\A v \in values : Equals \notin Range(v)) =>
              IF values \subseteq {<<>>} THEN answer'.value = None ELSE answer'.value \in values \ {<<>>}
        BY ONLY <3>1, <4>1 DEF ValueRight
      <4>3. Cardinality(InForce(jar, https)) = 1 /\ values # {} => answer'.request \in values
        BY ONLY <3>1, <4>1 DEF RequestRight
      <4> QED BY <4>2, <4>3
    <3> HIDE DEF values
    <3> QED BY ONLY <3>4, <3>5, <3>6, <3>7 DEF CookieFound, values
  <2>6. ASSUME NEW u \in Credentials, NEW p \in Credentials, NEW w \in Credentials, NEW q \in Credentials,
               Authorise(u, p, w, q)
        PROVE  CookieFound'
    BY <2>2, <2>6 DEF Authorise, Ask
  <2>7. CASE Question
    BY <2>4, <2>5, <2>6, <2>7 DEF Question
  <2>8. CASE NextRequest
    BY <2>2, <2>8 DEF NextRequest, Idle
  <2>9. CASE UNCHANGED contentvars
    BY <2>1, <2>9 DEF contentvars
  <2> QED BY <2>3, <2>7, <2>8, <2>9 DEF ContentNext
<1> QED BY <1>1, <1>2, PTL DEF ContentSpec

-----------------------------------------------------------------------------
(* Percent-encoding.                                                       *)

\* The digit of a number up to 15 is a character that counts as that number.
LEMMA HexDigit ==
  ASSUME NEW n \in 0..15
  PROVE  Hex(n) \in 48..57 \cup 65..70 /\ Hex2Dec(Hex(n)) = n
<1>1. CASE n < 10
  <2>1. Hex(n) = 48 + n
    BY <1>1 DEF Hex
  <2>2. 48 + n \in 48..57
    BY <1>1
  <2> DEFINE c == 48 + n
  <2> HIDE DEF c
  <2>3. c \in 48..57 => Hex2Dec(c) = c - 48
    BY DEF Hex2Dec
  <2> QED BY <2>1, <2>2, <2>3 DEF c
<1>2. CASE ~(n < 10)
  <2>1. Hex(n) = 65 + n - 10
    BY <1>2 DEF Hex
  <2>2. 65 + n - 10 \in 65..70
    BY <1>2
  <2> DEFINE c == 65 + n - 10
  <2> HIDE DEF c
  <2>3. c \in 65..70 => Hex2Dec(c) = c - 65 + 10
    <3>1. c \in 65..70 => c \notin 48..57 /\ c \notin 97..102
      OBVIOUS
    <3> QED BY <3>1 DEF Hex2Dec
  <2> QED BY <2>1, <2>2, <2>3 DEF c
<1> QED BY <1>1, <1>2

\* The two halves of a byte.
LEMMA BitOrHalves ==
  ASSUME NEW h \in 0..15, NEW l \in 0..15
  PROVE  BitOr((h * 16) % 256, l) = 16 * h + l
<1> DEFINE x == 16 * h
           Bit(w) == IF (x \div w) % 2 = 1 \/ (l \div w) % 2 = 1 THEN w ELSE 0
<1>1. (h * 16) % 256 = x
  OBVIOUS
<1>2. Bit(1) + Bit(2) + Bit(4) + Bit(8) = l
  <2>1. (x \div 1) % 2 = 0 /\ (x \div 2) % 2 = 0 /\ (x \div 4) % 2 = 0 /\ (x \div 8) % 2 = 0
    OBVIOUS
  <2> DEFINE B(w) == IF (l \div w) % 2 = 1 THEN w ELSE 0
  <2>2. Bit(1) = B(1) /\ Bit(2) = B(2) /\ Bit(4) = B(4) /\ Bit(8) = B(8)
    BY <2>1
  <2>3. B(1) + B(2) + B(4) + B(8) = l
    OBVIOUS
  <2> HIDE DEF B, Bit
  <2> QED BY <2>2, <2>3
<1>3. Bit(16) + Bit(32) + Bit(64) + Bit(128) = x
  <2>1. (l \div 16) % 2 = 0 /\ (l \div 32) % 2 = 0 /\ (l \div 64) % 2 = 0 /\ (l \div 128) % 2 = 0
    OBVIOUS
  <2> DEFINE B(w) == IF (x \div w) % 2 = 1 THEN w ELSE 0
  <2>2. Bit(16) = B(16) /\ Bit(32) = B(32) /\ Bit(64) = B(64) /\ Bit(128) = B(128)
    BY <2>1
  <2>3. B(16) + B(32) + B(64) + B(128) = x
    OBVIOUS
  <2> HIDE DEF B, Bit
  <2> QED BY <2>2, <2>3
<1>4. BitOr(x, l) = Bit(1) + Bit(2) + Bit(4) + Bit(8) + Bit(16) + Bit(32) + Bit(64) + Bit(128)
  BY DEF BitOr
<1>5. \A w \in {1, 2, 4, 8, 16, 32, 64, 128} : Bit(w) \in Nat
  OBVIOUS
<1> HIDE DEF Bit
<1>6. BitOr(x, l) = x + l
  <2>1. x \in Int /\ l \in Int
    OBVIOUS
  <2> HIDE DEF x
  <2> QED BY <1>2, <1>3, <1>4, <1>5, <2>1
<1> QED BY <1>1, <1>6

\* One step of url_decode(), from position r.
DecodeRest(s, past, F, r) ==
  LET At(q) == IF q < Len(s) THEN s[q + 1] ELSE IF q = Len(s) THEN 0 ELSE past
  IN  IF r >= Len(s) THEN <<>>
      ELSE IF At(r) # Percent THEN <<At(r)>> \o F[r + 1]
      ELSE <<BitOr((Hex2Dec(At(r + 1)) * 16) % 256, Hex2Dec(At(r + 2)))>> \o F[r + 3]

\* Hex digits and bytes are numbers.
LEMMA BytesType ==
  ASSUME NEW x \in Nat, NEW y \in Nat
  PROVE  Hex2Dec(x) \in Nat /\ BitOr(x, y) \in Nat
<1>1. Hex2Dec(x) \in Nat
  <2>1. CASE x \in 48..57
    BY <2>1 DEF Hex2Dec
  <2>2. CASE x \in 97..102
    BY <2>2 DEF Hex2Dec
  <2>3. CASE x \in 65..70
    BY <2>3 DEF Hex2Dec
  <2>4. CASE x \notin 48..57 \cup 97..102 \cup 65..70
    BY <2>4 DEF Hex2Dec
  <2> QED BY <2>1, <2>2, <2>3, <2>4
<1>2. BitOr(x, y) \in Nat
  <2> DEFINE Bit(w) == IF (x \div w) % 2 = 1 \/ (y \div w) % 2 = 1 THEN w ELSE 0
  <2>1. BitOr(x, y) = Bit(1) + Bit(2) + Bit(4) + Bit(8) + Bit(16) + Bit(32) + Bit(64) + Bit(128)
    BY DEF BitOr
  <2>2. \A w \in {1, 2, 4, 8, 16, 32, 64, 128} : Bit(w) \in Nat
    OBVIOUS
  <2> HIDE DEF Bit
  <2> QED BY <2>1, <2>2
<1> QED BY <1>1, <1>2

\* It returns a text, and depends on what is behind r only.
LEMMA DecodeRestType ==
  ASSUME NEW s \in Text, NEW past \in Nat, NEW F, NEW r \in 0..(Len(s) + 2),
         \A q \in 0..(Len(s) + 2) : q > r => F[q] \in Text
  PROVE  DecodeRest(s, past, F, r) \in Text
<1> DEFINE At(q) == IF q < Len(s) THEN s[q + 1] ELSE IF q = Len(s) THEN 0 ELSE past
           byte == BitOr((Hex2Dec(At(r + 1)) * 16) % 256, Hex2Dec(At(r + 2)))
<1>1. Len(s) \in Nat /\ \A q \in Nat : At(q) \in Nat
  BY DEF Text
<1>2. CASE r >= Len(s)
  BY <1>2, TextConcat DEF DecodeRest
<1>3. CASE r < Len(s) /\ At(r) # Percent
  <2>1. F[r + 1] \in Text /\ At(r) \in Nat
    BY <1>1, <1>3
  <2>2. DecodeRest(s, past, F, r) = <<At(r)>> \o F[r + 1]
    BY <1>1, <1>3 DEF DecodeRest
  <2> HIDE DEF At
  <2> QED BY <2>1, <2>2, TextConcat
<1>4. CASE r < Len(s) /\ At(r) = Percent
  <2>1. F[r + 3] \in Text /\ At(r + 1) \in Nat /\ At(r + 2) \in Nat
    BY <1>1, <1>4
  <2>2. DecodeRest(s, past, F, r) = <<byte>> \o F[r + 3]
    <3>1. DecodeRest(s, past, F, r) = IF r >= Len(s) THEN <<>>
                                      ELSE IF At(r) # Percent THEN <<At(r)>> \o F[r + 1]
                                      ELSE <<byte>> \o F[r + 3]
      BY Zenon DEF DecodeRest
    <3>2. ~(r >= Len(s)) /\ At(r) = Percent
      BY <1>1, <1>4
    <3> HIDE DEF At, byte
    <3> QED BY ONLY <3>1, <3>2
  <2>3. byte \in Nat
    <3> HIDE DEF At
    <3>1. Hex2Dec(At(r + 1)) \in Nat /\ Hex2Dec(At(r + 2)) \in Nat
      BY <2>1, BytesType
    <3>2. (Hex2Dec(At(r + 1)) * 16) % 256 \in Nat
      BY <3>1
    <3> QED BY <3>1, <3>2, BytesType
  <2> HIDE DEF At, byte
  <2> QED BY <2>1, <2>2, <2>3, TextConcat
<1> QED BY <1>1, <1>2, <1>3, <1>4

\* It depends on what is behind r only.
LEMMA DecodeRestLocal ==
  ASSUME NEW s \in Text, NEW past \in Nat, NEW F, NEW G, NEW r \in 0..(Len(s) + 2),
         \A q \in 0..(Len(s) + 2) : q > r => F[q] = G[q]
  PROVE  DecodeRest(s, past, F, r) = DecodeRest(s, past, G, r)
<1>1. Len(s) \in Nat
  BY DEF Text
<1>2. CASE r >= Len(s)
  BY <1>2 DEF DecodeRest
<1>3. CASE r < Len(s)
  <2>1. F[r + 1] = G[r + 1] /\ F[r + 3] = G[r + 3]
    BY <1>1, <1>3
  <2> QED BY <2>1 DEF DecodeRest
<1> QED BY <1>1, <1>2, <1>3

IsDecode(s, past, F) == /\ F \in [0..(Len(s) + 2) -> Text]
                        /\ \A r \in 0..(Len(s) + 2) : F[r] = DecodeRest(s, past, F, r)
                        /\ UrlDecode(s, past) = F[0]

\* url_decode() solves its recursion.
LEMMA DecodeSolved ==
  ASSUME NEW s \in Text, NEW past \in Nat
  PROVE  \E F : IsDecode(s, past, F)
<1> DEFINE n == Len(s) + 2
           D == 0..(Len(s) + 2)
           Solved(F) == F = [r \in D |-> DecodeRest(s, past, F, r)]
           Step == [F \in [D -> Text] |-> [r \in D |-> DecodeRest(s, past, F, r)]]
           rank == [r \in D |-> n - r]
           C == CHOOSE F : Solved(F)
<1>0. n \in Nat /\ D \subseteq Nat /\ 0 \in D /\ D = 0..n
  BY DEF Text
<1>1. UrlDecode(s, past) = C[0]
  BY Zenon DEF UrlDecode, DecodeRest
<1>2. rank \in [D -> 0..n] /\ \A p, q \in D : rank[p] < rank[q] <=> q < p
  BY <1>0
<1> HIDE DEF n
<1>4. \E F : Solved(F)
  <2>1. Step \in [[D -> Text] -> [D -> Text]]
    <3>1. ASSUME NEW F \in [D -> Text], NEW r \in D PROVE DecodeRest(s, past, F, r) \in Text
      BY DecodeRestType
    <3> QED BY <3>1
  <2>2. ASSUME NEW F \in [D -> Text], NEW G \in [D -> Text], NEW r \in D,
               \A q \in D : rank[q] < rank[r] => F[q] = G[q]
        PROVE  Step[F][r] = Step[G][r]
    <3>1. \A q \in 0..(Len(s) + 2) : q > r => F[q] = G[q]
      BY <1>0, <1>2, <2>2
    <3>2. DecodeRest(s, past, F, r) = DecodeRest(s, past, G, r)
      BY <3>1, DecodeRestLocal
    <3> QED BY <3>2
  <2>3. Text # {}
    BY TextConcat
  <2>4. \A F \in [D -> Text] : Step[F] = [r \in D |-> DecodeRest(s, past, F, r)]
    OBVIOUS
  <2>6. \A F, G \in [D -> Text] : \A r \in D :
          (\A q \in D : rank[q] < rank[r] => F[q] = G[q]) => Step[F][r] = Step[G][r]
    BY <2>2
  <2> HIDE DEF Step, rank, D
  <2>7. Causal(Step, D, Text, rank)
    BY <2>1, <2>6 DEF Causal
  <2>5. Solvable(Step, D, Text)
    BY <1>0, <1>2, <2>3, <2>7, Recursion
  <2>8. PICK F \in [D -> Text] : F = Step[F]
    BY ONLY <2>5 DEF Solvable
  <2>9. Solved(F)
    BY ONLY <2>4, <2>8
  <2> HIDE DEF Solved
  <2> QED BY ONLY <2>9
<1>5. Solved(C)
  <2> HIDE DEF Solved
  <2> QED BY ONLY <1>4
<1> HIDE DEF C
<1>6. \A r \in D : C[r] = DecodeRest(s, past, C, r)
  BY <1>5
<1>7. C \in [D -> Text]
  <2> DEFINE S == {r \in D : C[r] \in Text}
  <2>1. ASSUME NEW r \in D, \A q \in D : rank[q] < rank[r] => q \in S PROVE r \in S
    <3>1. \A q \in 0..(Len(s) + 2) : q > r => C[q] \in Text
      BY <1>0, <1>2, <2>1
    <3>2. DecodeRest(s, past, C, r) \in Text
      BY <3>1, DecodeRestType
    <3> QED BY <1>6, <3>2
  <2>2. rank \in [D -> Nat]
    BY <1>0, <1>2
  <2> HIDE DEF rank, S, D
  <2>3. D \subseteq S
    BY <2>1, <2>2, RankInduction
  <2>4. DOMAIN C = D /\ C = [r \in DOMAIN C |-> C[r]]
    BY <1>5
  <2> QED BY <2>3, <2>4 DEF S
<1>8. IsDecode(s, past, C)
  BY <1>1, <1>6, <1>7 DEF IsDecode
<1> QED BY <1>8

\* A text with another one in its middle.
Within(s, t, u, r) == s = t \o u \o r

\* The members of a text in another.
LEMMA WithinAt ==
  ASSUME NEW t \in Text, NEW u \in Text, NEW r \in Text, NEW s, Within(s, t, u, r)
  PROVE  /\ s \in Text /\ Len(s) = Len(t) + Len(u) + Len(r)
         /\ Len(t) \in Nat /\ Len(u) \in Nat /\ Len(r) \in Nat
         /\ \A k \in 1..Len(t) : s[k] = t[k]
         /\ \A k \in 1..Len(u) : s[Len(t) + k] = u[k]
         /\ \A k \in 1..Len(r) : s[Len(t) + Len(u) + k] = r[k]
<1> DEFINE v == t \o u
<1>1. v \in Text /\ Len(v) = Len(t) + Len(u) /\ Len(t) \in Nat /\ Len(u) \in Nat
      /\ (\A k \in 1..Len(t) : v[k] = t[k]) /\ \A k \in 1..Len(u) : v[Len(t) + k] = u[k]
  BY ConcatAt
<1>2. s = v \o r
  BY DEF Within
<1> HIDE DEF v
<1>7. v \in Text /\ r \in Text
  BY <1>1
<1>3. s \in Text /\ Len(s) = Len(v) + Len(r) /\ Len(r) \in Nat
      /\ (\A k \in 1..Len(v) : s[k] = v[k]) /\ \A k \in 1..Len(r) : s[Len(v) + k] = r[k]
  BY ONLY <1>2, <1>7, ConcatAt
<1>4. ASSUME NEW k \in 1..Len(t) PROVE s[k] = t[k]
  <2>1. k \in 1..Len(v)
    BY <1>1
  <2> QED BY <1>1, <1>3, <2>1
<1>5. ASSUME NEW k \in 1..Len(u) PROVE s[Len(t) + k] = u[k]
  <2>1. Len(t) + k \in 1..Len(v)
    BY <1>1
  <2> QED BY <1>1, <1>3, <2>1
<1>6. ASSUME NEW k \in 1..Len(r) PROVE s[Len(t) + Len(u) + k] = r[k]
  BY <1>1, <1>3
<1> QED BY <1>1, <1>3, <1>4, <1>5, <1>6

\* What a byte is encoded as.
Escaped(c) == CASE c = Space -> <<Plus>>
                [] c \in Plain -> <<c>>
                [] OTHER -> <<Percent, Hex(c \div 16), Hex(c % 16)>>

\* What comes back of it.
Back(c) == IF c = Space THEN Plus ELSE c

\* What comes back of a text is as long.
LEMMA ReturnedType ==
  ASSUME NEW enc, NEW s \in Text
  PROVE  /\ Returned(enc, s) \in Text /\ Len(Returned(enc, s)) = Len(s)
         /\ Returned(enc, s) = <<>> <=> s = <<>>
         /\ \A i \in 1..Len(s) : Returned("url", s)[i] = Back(s[i])
<1> DEFINE w == [k \in DOMAIN s |-> IF s[k] = Space THEN Plus ELSE s[k]]
<1>1. DOMAIN s = 1..Len(s) /\ Len(s) \in Nat /\ \A k \in 1..Len(s) : s[k] \in Nat
  BY DEF Text
<1>2. Plus \in Nat
  BY DEF Plus
<1>3. w \in Text /\ Len(w) = Len(s) /\ \A k \in 1..Len(s) : w[k] = Back(s[k])
  BY <1>1, <1>2 DEF Text, Back
<1>4. \A t \in Text : t = <<>> <=> Len(t) = 0
  BY DEF Text
<1>5. Returned("url", s) = w
  BY DEF Returned
<1>6. Returned(enc, s) = s \/ Returned(enc, s) = w
  BY DEF Returned
<1> HIDE DEF w
<1> QED BY <1>3, <1>4, <1>5, <1>6

\* It is one character or three.
LEMMA EscapedType ==
  ASSUME NEW c \in 0..255
  PROVE  Escaped(c) \in Text /\ Len(Escaped(c)) \in Nat \ {0}
<1>1. c \div 16 \in 0..15 /\ c % 16 \in 0..15
  OBVIOUS
<1>2. Hex(c \div 16) \in Nat /\ Hex(c % 16) \in Nat /\ Percent \in Nat
  BY <1>1, HexDigit DEF Percent
<1> DEFINE h == Hex(c \div 16)
           l == Hex(c % 16)
<1> HIDE DEF h, l
<1>3. <<c>> \in Seq(Nat) /\ Len(<<c>>) = 1
  OBVIOUS
<1>4. <<Percent, h, l>> \in Seq(Nat) /\ Len(<<Percent, h, l>>) = 3
  BY <1>2 DEF h, l
<1>5. <<Plus>> \in Seq(Nat) /\ Len(<<Plus>>) = 1
  BY DEF Plus
<1>6. Escaped(c) = <<Plus>> \/ Escaped(c) = <<c>> \/ Escaped(c) = <<Percent, h, l>>
  BY DEF Escaped, h, l
<1> DEFINE x == Escaped(c)
<1> HIDE DEF x
<1>7. x \in Seq(Nat) /\ (Len(x) = 1 \/ Len(x) = 3)
  <2>1. CASE x = <<Plus>>
    BY ONLY <1>5, <2>1
  <2>2. CASE x = <<c>>
    BY ONLY <1>3, <2>2
  <2>3. CASE x = <<Percent, h, l>>
    BY ONLY <1>4, <2>3
  <2> QED BY <1>6, <2>1, <2>2, <2>3 DEF x
<1>8. x \in Text /\ Len(x) \in Nat \ {0}
  BY ONLY <1>7 DEF Text
<1> QED BY ONLY <1>8 DEF x

\* url_decode() takes it back, but for the + of a space.
LEMMA DecodeByte ==
  ASSUME NEW c \in 0..255, NEW t \in Text, NEW r \in Text, NEW s, Within(s, t, Escaped(c), r),
         NEW past \in Nat, NEW F, IsDecode(s, past, F)
  PROVE  F[Len(t)] = <<Back(c)>> \o F[Len(t) + Len(Escaped(c))]
<1>1. Escaped(c) \in Text /\ Len(Escaped(c)) \in Nat \ {0}
  BY EscapedType
<1>2. /\ s \in Text /\ Len(s) = Len(t) + Len(Escaped(c)) + Len(r)
      /\ Len(t) \in Nat /\ Len(r) \in Nat
      /\ \A k \in 1..Len(Escaped(c)) : s[Len(t) + k] = Escaped(c)[k]
  BY <1>1, WithinAt
<1>3. Len(t) \in 0..(Len(s) + 2) /\ Len(t) < Len(s)
  BY <1>1, <1>2
<1>4. F[Len(t)] = DecodeRest(s, past, F, Len(t))
  BY <1>3 DEF IsDecode
<1> DEFINE p == Len(t)
<1> HIDE DEF p
<1>5. CASE c = Space \/ c \in Plain
  <2> DEFINE b == Back(c)
  <2>1. Escaped(c) = <<b>> /\ b # Percent
    <3>1. CASE c = Space
      BY <3>1 DEF Escaped, Back, Plus, Percent, Plain, Space
    <3>2. CASE c # Space /\ c \in Plain
      BY <3>2 DEF Escaped, Back, Plain, Percent
    <3> QED BY <1>5, <3>1, <3>2
  <2> HIDE DEF b
  <2>2. s[p + 1] = b /\ Len(Escaped(c)) = 1
    BY <1>2, <2>1 DEF p
  <2>3. F[p] = <<b>> \o F[p + 1]
    BY <1>3, <1>4, <2>1, <2>2 DEF DecodeRest, p
  <2> QED BY <2>2, <2>3 DEF b, p
<1>6. CASE c # Space /\ c \notin Plain
  <2> DEFINE h == Hex(c \div 16)
             l == Hex(c % 16)
  <2>1. Escaped(c) = <<Percent, h, l>>
    BY <1>6 DEF Escaped
  <2> HIDE DEF h, l
  <2>2. Len(Escaped(c)) = 3 /\ s[p + 1] = Percent /\ s[p + 2] = h /\ s[p + 3] = l
    BY <1>2, <2>1 DEF p
  <2>3. p + 1 < Len(s) /\ p + 2 < Len(s) /\ p + 3 <= Len(s) /\ p \in Nat
    BY <1>2, <2>2 DEF p
  <2>4. F[p] = <<BitOr((Hex2Dec(h) * 16) % 256, Hex2Dec(l))>> \o F[p + 3]
    <3>1. F[p] = <<BitOr((Hex2Dec(s[(p + 1) + 1]) * 16) % 256, Hex2Dec(s[(p + 2) + 1]))>> \o F[p + 3]
      <4>1. F[p] = DecodeRest(s, past, F, p)
        BY <1>4 DEF p
      <4>2. s[p + 1] = Percent /\ p \in Nat /\ p < Len(s) /\ p + 1 < Len(s) /\ p + 2 < Len(s) /\ Len(s) \in Nat
        BY <1>2, <2>2, <2>3
      <4> QED BY ONLY <4>1, <4>2 DEF DecodeRest
    <3>2. (p + 1) + 1 = p + 2 /\ (p + 2) + 1 = p + 3
      BY <2>3
    <3> QED BY <2>2, <3>1, <3>2
  <2>5. c \div 16 \in 0..15 /\ c % 16 \in 0..15 /\ 16 * (c \div 16) + (c % 16) = c
    OBVIOUS
  <2>6. Hex2Dec(h) = c \div 16 /\ Hex2Dec(l) = c % 16
    BY <2>5, HexDigit DEF h, l
  <2>7. BitOr(((c \div 16) * 16) % 256, c % 16) = c
    BY <2>5, BitOrHalves
  <2>8. Back(c) = c
    BY <1>6 DEF Back
  <2> QED BY <2>2, <2>4, <2>6, <2>7, <2>8 DEF p
<1> QED BY <1>5, <1>6

\* percent-encoding writes the bytes one after the other.
LEMMA EscapedEach ==
  ASSUME NEW s \in Text, Range(s) \subseteq 0..255, NEW seqs, seqs = [i \in DOMAIN s |-> Escaped(s[i])]
  PROVE  /\ seqs \in Seq(Text) /\ Len(seqs) = Len(s)
         /\ \A i \in 1..Len(s) : s[i] \in 0..255 /\ seqs[i] = Escaped(s[i])
         /\ PercentEncode(s) = FlattenSeq(seqs)
<1>1. DOMAIN s = 1..Len(s) /\ Len(s) \in Nat
  BY DEF Text
<1>2. \A i \in 1..Len(s) : s[i] \in 0..255
  BY <1>1 DEF Range
<1>3. \A i \in 1..Len(s) : Escaped(s[i]) \in Text
  BY <1>2, EscapedType
<1>4. seqs \in Seq(Text) /\ Len(seqs) = Len(s)
  BY <1>1, <1>3
<1>5. PercentEncode(s) = FlattenSeq(seqs)
  BY DEF PercentEncode, Escaped
<1> QED BY <1>1, <1>2, <1>4, <1>5

\* url_decode() takes percent-encoding back, whatever lies behind the text, but
\* for the + of a space.
LEMMA DecodeEncoded ==
  ASSUME NEW s \in Text, Range(s) \subseteq 0..255, NEW past \in Nat
  PROVE  UrlDecode(PercentEncode(s), past) = Returned("url", s)
<1> DEFINE seqs == [i \in DOMAIN s |-> Escaped(s[i])]
           w == Returned("url", s)
           n == Len(s)
           t == PercentEncode(s)
<1>1. /\ seqs \in Seq(Text) /\ Len(seqs) = n
      /\ \A i \in 1..n : s[i] \in 0..255 /\ seqs[i] = Escaped(s[i])
      /\ t = FlattenSeq(seqs)
  BY EscapedEach
<1>2. n \in Nat /\ t \in Text
  BY PercentEncodeType DEF Text
<1>13. w \in Text /\ Len(w) = n /\ \A i \in 1..n : w[i] = Back(s[i])
  BY ReturnedType
<1> HIDE DEF seqs, t, w
<1>3. PICK G : IsFlat(seqs, G)
  BY <1>1, FlatSolved
<1>4. PICK F : IsDecode(t, past, F)
  BY <1>2, DecodeSolved
<1>5. G[0] = <<>> /\ t = G[n] /\ G \in [0..n -> Text]
  BY <1>1, <1>3 DEF IsFlat
<1>6. F[Len(G[n])] = SubSeq(w, n + 1, n)
  <2>1. Len(t) \in Nat
    BY <1>2 DEF Text
  <2>2. F[Len(t)] = DecodeRest(t, past, F, Len(t))
    BY <1>4, <2>1 DEF IsDecode
  <2>3. F[Len(t)] = <<>>
    BY <2>1, <2>2 DEF DecodeRest
  <2> QED BY <1>2, <1>5, <1>13, <2>3 DEF Text
<1>7. ASSUME NEW i \in 1..n, F[Len(G[i])] = SubSeq(w, i + 1, n)
      PROVE  F[Len(G[i - 1])] = SubSeq(w, i, n)
  <2>a. seqs \in Seq(Text) /\ IsFlat(seqs, G) /\ i \in 1..Len(seqs)
    BY <1>1, <1>3
  <2>1. /\ G[i - 1] \in Text /\ Len(G[i]) = Len(G[i - 1]) + Len(seqs[i])
        /\ \E r \in Text : FlattenSeq(seqs) = G[i - 1] \o seqs[i] \o r
    BY ONLY <2>a, FlatAt
  <2>2. PICK r \in Text : Within(t, G[i - 1], Escaped(s[i]), r)
    BY <1>1, <2>1 DEF Within
  <2>3. s[i] \in 0..255
    BY <1>1
  <2>4. F[Len(G[i - 1])] = <<Back(s[i])>> \o F[Len(G[i - 1]) + Len(Escaped(s[i]))]
    <3> DEFINE g == G[i - 1]
               c == s[i]
    <3>1. g \in Text /\ c \in 0..255 /\ Within(t, g, Escaped(c), r)
      BY <2>1, <2>2, <2>3
    <3> HIDE DEF g, c
    <3>2. F[Len(g)] = <<Back(c)>> \o F[Len(g) + Len(Escaped(c))]
      BY <1>4, <3>1, DecodeByte
    <3> QED BY <3>2 DEF g, c
  <2>5. F[Len(G[i - 1])] = <<w[i]>> \o SubSeq(w, i + 1, n)
    BY <1>1, <1>7, <1>13, <2>1, <2>4
  <2>6. <<w[i]>> \o SubSeq(w, i + 1, n) = SubSeq(w, i, n)
    BY <1>2, <1>13 DEF Text
  <2> QED BY <2>5, <2>6
<1> DEFINE S == {k \in Nat : k <= n => F[Len(G[n - k])] = SubSeq(w, n - k + 1, n)}
<1>8. 0 \in S
  BY <1>2, <1>6
<1>9. ASSUME NEW k \in Nat, k \in S PROVE k + 1 \in S
  <2>1. CASE k + 1 <= n
    <3>1. n - k \in 1..n /\ (n - k) - 1 = n - (k + 1) /\ n - (k + 1) + 1 = n - k
      BY <1>2, <2>1
    <3>2. F[Len(G[n - k])] = SubSeq(w, n - k + 1, n)
      BY <1>2, <1>9, <2>1
    <3>3. F[Len(G[n - (k + 1)])] = SubSeq(w, n - k, n)
      BY <1>7, <3>1, <3>2
    <3> QED BY <3>1, <3>3
  <2>2. CASE ~(k + 1 <= n)
    BY <2>2
  <2> QED BY <2>1, <2>2
<1> HIDE DEF S
<1>10. n \in S
  BY <1>2, <1>8, <1>9, Induction
<1>11. F[Len(G[0])] = SubSeq(w, 1, n)
  <2>1. n - n = 0 /\ 0 + 1 = 1 /\ n <= n
    BY <1>2
  <2> QED BY <1>10, <2>1 DEF S
<1>12. F[0] = w
  <2>1. SubSeq(w, 1, n) = w
    BY <1>13 DEF Text
  <2>2. Len(G[0]) = 0
    BY <1>5
  <2> QED BY <1>11, <2>1, <2>2
<1> QED BY <1>4, <1>12 DEF IsDecode, t, w

-----------------------------------------------------------------------------
(* What the two encodings of pairs carry.                                  *)

\* A concatenation avoids what its texts avoid.
LEMMA FlatAvoids ==
  ASSUME NEW seqs \in Seq(Text), NEW c, \A i \in 1..Len(seqs) : Avoids(seqs[i], c)
  PROVE  Avoids(FlattenSeq(seqs), c)
<1> DEFINE n == Len(seqs)
<1>1. PICK G : IsFlat(seqs, G)
  BY FlatSolved
<1>2. n \in Nat /\ G[0] = <<>> /\ G \in [0..n -> Text] /\ FlattenSeq(seqs) = G[n]
      /\ (\A i \in 1..n : G[i] = G[i - 1] \o seqs[i] /\ seqs[i] \in Text)
  BY <1>1 DEF IsFlat
<1> HIDE DEF n
<1> DEFINE S == {k \in Nat : k <= n => Avoids(G[k], c)}
<1>3. 0 \in S
  BY <1>2 DEF Avoids
<1>4. ASSUME NEW k \in Nat, k \in S PROVE k + 1 \in S
  <2>1. CASE k + 1 <= n
    <3>1. k + 1 \in 1..n /\ (k + 1) - 1 = k /\ k \in 0..n
      BY <1>2, <2>1
    <3>2. Avoids(G[k], c) /\ Avoids(seqs[k + 1], c) /\ G[k] \in Text /\ seqs[k + 1] \in Text
      BY <1>2, <1>4, <3>1 DEF n
    <3>3. G[k + 1] = G[k] \o seqs[k + 1]
      BY <1>2, <3>1
    <3>4. Avoids(G[k] \o seqs[k + 1], c)
      BY <3>2, AvoidsConcat
    <3>5. Avoids(G[k + 1], c) /\ k + 1 \in Nat
      BY <3>3, <3>4
    <3> QED BY <3>5
  <2>2. CASE ~(k + 1 <= n)
    BY <2>2
  <2> QED BY <2>1, <2>2
<1> HIDE DEF S
<1>5. n \in S
  BY <1>2, <1>3, <1>4, Induction
<1>6. n <= n
  BY <1>2
<1> QED BY <1>2, <1>5, <1>6 DEF S

\* Percent-encoding leaves no character but letters, digits, * - . _ + and %, and
\* nothing of nothing only.
LEMMA Encoded ==
  ASSUME NEW s \in Text, Range(s) \subseteq 0..255
  PROVE  /\ PercentEncode(s) \in Text
         /\ \A c \in Nat : c \notin Plain \cup {Percent, Plus} => Avoids(PercentEncode(s), c)
         /\ PercentEncode(s) = <<>> <=> s = <<>>
<1> DEFINE seqs == [i \in DOMAIN s |-> Escaped(s[i])]
<1>1. /\ seqs \in Seq(Text) /\ Len(seqs) = Len(s)
      /\ \A i \in 1..Len(s) : s[i] \in 0..255 /\ seqs[i] = Escaped(s[i])
      /\ PercentEncode(s) = FlattenSeq(seqs)
  BY EscapedEach
<1> HIDE DEF seqs
<1>2. PercentEncode(s) \in Text
  BY PercentEncodeType
<1>3. ASSUME NEW c \in Nat, c \notin Plain \cup {Percent, Plus} PROVE Avoids(PercentEncode(s), c)
  <2>1. ASSUME NEW b \in 0..255 PROVE Avoids(Escaped(b), c)
    <3>1. b \div 16 \in 0..15 /\ b % 16 \in 0..15
      OBVIOUS
    <3>2. Hex(b \div 16) \in Plain /\ Hex(b % 16) \in Plain
      BY <3>1, HexDigit DEF Plain
    <3> DEFINE h == Hex(b \div 16)
               l == Hex(b % 16)
    <3>5. CASE b = Space
      <4>1. Escaped(b) = <<Plus>>
        BY <3>5 DEF Escaped, Space, Plain
      <4> QED BY <1>3, <4>1 DEF Avoids
    <3>3. CASE b # Space /\ b \in Plain
      <4>1. Escaped(b) = <<b>>
        BY <3>3 DEF Escaped
      <4> QED BY <1>3, <3>3, <4>1 DEF Avoids
    <3>4. CASE b # Space /\ b \notin Plain
      <4>1. Escaped(b) = <<Percent, h, l>>
        BY <3>4 DEF Escaped
      <4>2. h # c /\ l # c /\ Percent # c
        BY <1>3, <3>2
      <4> HIDE DEF h, l
      <4>3. \A k \in 1..3 : <<Percent, h, l>>[k] # c
        BY <4>2
      <4> QED BY <4>1, <4>3 DEF Avoids
    <3> QED BY <3>3, <3>4, <3>5
  <2>2. \A i \in 1..Len(seqs) : Avoids(seqs[i], c)
    BY <1>1, <2>1
  <2> QED BY <1>1, <2>2, FlatAvoids
<1>4. PercentEncode(s) = <<>> <=> s = <<>>
  <2>1. CASE s = <<>>
    <3>1. PICK G : IsFlat(seqs, G)
      BY <1>1, FlatSolved
    <3>2. Len(seqs) = 0
      BY <1>1, <2>1
    <3> QED BY <1>1, <2>1, <3>1, <3>2 DEF IsFlat
  <2>2. CASE PercentEncode(s) = <<>>
    <3>1. 0 \in Nat /\ <<>> \in Text
      BY TextConcat
    <3>2. UrlDecode(<<>>, 0) = Returned("url", s)
      BY <2>2, <3>1, DecodeEncoded
    <3>3. PICK F : IsDecode(<<>>, 0, F)
      BY <3>1, DecodeSolved
    <3>4. F[0] = DecodeRest(<<>>, 0, F, 0) /\ F[0] = Returned("url", s)
      BY <3>2, <3>3 DEF IsDecode
    <3>5. Returned("url", s) = <<>>
      BY <3>4 DEF DecodeRest
    <3> QED BY <2>2, <3>5, ReturnedType
  <2> QED BY <2>1, <2>2
<1> QED BY <1>2, <1>3, <1>4

\* What comes back of the entries with a content, without what a pair does not carry.
Told(enc, es) == Subsequence([i \in DOMAIN es |-> FieldData(es[i].name, <<>>, <<>>, Returned(enc, es[i].content))],
                             {i \in DOMAIN es : es[i].content # <<>>})

\* Names and values of pairs, as the encodings write them.
PairPiece(e, v, piece) ==
  /\ piece = e.name \o <<Equals>> \o v
  /\ e.name \in Text /\ e.name # <<>> /\ Avoids(e.name, Equals)
  /\ v \in Text /\ Avoids(v, Equals)
  /\ v = <<>> <=> e.content = <<>>

ToldIn(enc, es, vs, pairs) ==
  /\ DOMAIN pairs = DOMAIN Told(enc, es)
  /\ \A i \in DOMAIN pairs : \E k \in DOMAIN es :
       /\ Pair(pairs[i]) = <<es[k].name, vs[k]>>
       /\ Told(enc, es)[i] = FieldData(es[k].name, <<>>, <<>>, Returned(enc, es[k].content))

\* Of such pieces the pairs are what is told of the entries.
LEMMA PairsRead ==
  ASSUME NEW enc, NEW es \in Seq(FormFieldData), NEW vs, NEW pieces \in Seq(Text), Len(pieces) = Len(es),
         \A i \in DOMAIN es : PairPiece(es[i], vs[i], pieces[i])
  PROVE  ToldIn(enc, es, vs, PairsOf(pieces))
<1> DEFINE P == {i \in DOMAIN es : es[i].content # <<>>}
           n == Len(es)
           whole == [i \in DOMAIN es |-> FieldData(es[i].name, <<>>, <<>>, Returned(enc, es[i].content))]
<1>1. n \in Nat /\ DOMAIN es = 1..n /\ DOMAIN pieces = 1..n /\ P \subseteq 1..n
  OBVIOUS
<1>2. ASSUME NEW i \in 1..n
      PROVE  /\ Pair(pieces[i]) # <<>> <=> i \in P
             /\ i \in P => Pair(pieces[i]) = <<es[i].name, vs[i]>>
  <2>1. PairPiece(es[i], vs[i], pieces[i])
    BY <1>1
  <2> DEFINE u == es[i].name
             v == vs[i]
  <2>2. u \in Text /\ v \in Text /\ u # <<>> /\ Avoids(u, Equals) /\ Avoids(v, Equals)
        /\ pieces[i] = u \o <<Equals>> \o v /\ (v = <<>> <=> es[i].content = <<>>)
    BY <2>1 DEF PairPiece
  <2> HIDE DEF u, v
  <2>3. PairRead(u, v)
    BY <2>2, PairOfTexts
  <2>4. i \in P <=> v # <<>>
    BY <1>1, <2>2
  <2>5. v = <<>> => Pair(pieces[i]) = <<>>
    BY <2>2, <2>3 DEF PairRead
  <2>6. v # <<>> => Pair(pieces[i]) = <<u, v>>
    BY <2>2, <2>3 DEF PairRead
  <2>7. <<u, v>> # <<>>
    OBVIOUS
  <2> HIDE DEF P
  <2> QED BY <2>4, <2>5, <2>6, <2>7 DEF u, v
<1>3. {i \in DOMAIN pieces : Pair(pieces[i]) # <<>>} = P
  <2> HIDE DEF P, n
  <2> QED BY <1>1, <1>2
<1>4. PairsOf(pieces) = Subsequence(pieces, P)
  BY <1>3 DEF PairsOf
<1>5. Told(enc, es) = Subsequence(whole, P)
  BY DEF Told
<1>6. \A i \in 1..n : whole[i] = FieldData(es[i].name, <<>>, <<>>, Returned(enc, es[i].content))
  BY <1>1
<1> HIDE DEF P, whole
<1>7. \E nth : Numbers(P, nth)
  BY <1>1, SubsequenceOrder
<1>8. PICK nth : Numbers(P, nth)
  BY <1>7
<1> DEFINE m == Cardinality(P)
<1>9. Subsequence(pieces, P) = [k \in 1..m |-> pieces[nth[k]]]
  BY <1>8 DEF Numbers
<1>10. Subsequence(whole, P) = [k \in 1..m |-> whole[nth[k]]]
  BY <1>8 DEF Numbers
<1>11. \A k \in 1..m : nth[k] \in P
  BY <1>8 DEF Numbers, Order
<1> HIDE DEF m
<1> DEFINE pairs == PairsOf(pieces)
<1>12. DOMAIN pairs = 1..m /\ DOMAIN Told(enc, es) = 1..m
  BY <1>4, <1>5, <1>9, <1>10
<1>13. \A i \in 1..m : pairs[i] = pieces[nth[i]] /\ Told(enc, es)[i] = whole[nth[i]]
  BY <1>4, <1>5, <1>9, <1>10
<1> HIDE DEF pairs
<1>14. ASSUME NEW i \in 1..m
       PROVE  \E k \in DOMAIN es : /\ Pair(pairs[i]) = <<es[k].name, vs[k]>>
                                   /\ Told(enc, es)[i] = FieldData(es[k].name, <<>>, <<>>, Returned(enc, es[k].content))
  <2> DEFINE k == nth[i]
  <2>1. k \in P /\ k \in 1..n
    BY <1>1, <1>11
  <2>2. pairs[i] = pieces[k] /\ Told(enc, es)[i] = whole[k]
    BY <1>13
  <2> HIDE DEF k
  <2>3. Pair(pieces[k]) = <<es[k].name, vs[k]>>
    BY <1>2, <2>1
  <2> QED BY <1>1, <1>6, <2>1, <2>2, <2>3
<1> QED BY <1>12, <1>14 DEF ToldIn, pairs

\* What an entry of a submittable form may be.
Entry(e) ==
  /\ e \in FormFieldData
  /\ e.name \in Text /\ e.filename \in Text /\ e.type \in Text /\ e.content \in Text
  /\ e.name # <<>> /\ Range(e.content) \subseteq 0..255
  /\ Avoids(e.name, Equals) /\ Avoids(e.name, Ampersand) /\ Avoids(e.name, Semicolon) /\ Avoids(e.name, CR)
  /\ Avoids(e.filename, Semicolon) /\ Avoids(e.filename, CR) /\ Avoids(e.type, CR)
  /\ Find(Enclosed(e), <<Dash, Dash>> \o Boundary, 0) = Npos

\* Each entry of a submittable form is such.
LEMMA SubmittableEntry ==
  ASSUME NEW es \in Seq(FormFieldData), Submittable(es)
  PROVE  \A i \in DOMAIN es : Entry(es[i])
<1> SUFFICES ASSUME NEW i \in DOMAIN es PROVE Entry(es[i])
  OBVIOUS
<1> DEFINE e == es[i]
<1>1. e \in FormFieldData
  OBVIOUS
<1>2. /\ e.name # <<>> /\ {Equals, Ampersand, Semicolon, CR} \cap Range(e.name) = {}
      /\ {Semicolon, CR} \cap Range(e.filename) = {} /\ CR \notin Range(e.type)
      /\ Range(e.content) \subseteq 0..255
      /\ Find(Enclosed(e), <<Dash, Dash>> \o Boundary, 0) = Npos
  BY DEF Submittable
<1> HIDE DEF e
<1>3. e.name \in Text /\ e.filename \in Text /\ e.type \in Text /\ e.content \in Text
  BY <1>1 DEF FormFieldData
<1>4. Equals \notin Range(e.name) /\ Ampersand \notin Range(e.name) /\ Semicolon \notin Range(e.name) /\ CR \notin Range(e.name)
  BY <1>2
<1>5. Semicolon \notin Range(e.filename) /\ CR \notin Range(e.filename)
  BY <1>2
<1>6. Avoids(e.name, Equals) /\ Avoids(e.name, Ampersand) /\ Avoids(e.name, Semicolon) /\ Avoids(e.name, CR)
  BY <1>3, <1>4, AvoidsRange
<1>7. Avoids(e.filename, Semicolon) /\ Avoids(e.filename, CR) /\ Avoids(e.type, CR)
  BY <1>2, <1>3, <1>5, AvoidsRange
<1>8. Entry(e)
  BY <1>1, <1>2, <1>3, <1>6, <1>7 DEF Entry
<1> QED BY <1>8 DEF e

Entered(es) == es \in Seq(FormFieldData) /\ \A i \in DOMAIN es : Entry(es[i])

\* A written pair is a text, and avoids what its halves avoid.
LEMMA PairWritten ==
  ASSUME NEW n \in Text, NEW v \in Text, NEW c \in Nat, c # Equals, Avoids(n, c), Avoids(v, c)
  PROVE  /\ n \o <<Equals>> \o v \in Text /\ n \o <<Equals>> \o v # <<>>
         /\ Avoids(n \o <<Equals>> \o v, c)
<1>1. <<Equals>> \in Text /\ Len(<<Equals>>) = 1 /\ Avoids(<<Equals>>, c)
  BY Literals, TextConcat DEF Avoids
<1> DEFINE t == n \o <<Equals>>
<1>2. t \in Text /\ Avoids(t, c) /\ Len(t) = Len(n) + 1 /\ Len(n) \in Nat
  BY <1>1, ConcatAt, AvoidsConcat
<1> HIDE DEF t
<1>3. t \o v \in Text /\ Len(t \o v) = Len(t) + Len(v) /\ Len(v) \in Nat
  BY <1>2, ConcatAt
<1>4. Len(t \o v) # 0
  BY <1>2, <1>3
<1>5. Avoids(t \o v, c)
  BY <1>2, AvoidsConcat
<1> QED BY <1>3, <1>4, <1>5 DEF t

\* A urlencoded form comes back, if its names are encoded as themselves.
LEMMA UrlencodedRead ==
  ASSUME NEW es, Entered(es), ~Unwritable("url", es), NEW past \in Nat
  PROVE  ParseUrlencoded(FormBody("url", es), past) = Told("url", es)
<1> DEFINE n == Len(es)
           vs == [i \in DOMAIN es |-> PercentEncode(es[i].content)]
           pieces == [i \in DOMAIN es |-> PercentEncode(es[i].name) \o <<Equals>> \o PercentEncode(es[i].content)]
           d == <<Ampersand>>
           body == FormBody("url", es)
<1>1. n \in Nat /\ DOMAIN es = 1..n /\ es \in Seq(FormFieldData) /\ \A i \in 1..n : Entry(es[i])
  BY DEF Entered
<1>2. body = Joined(pieces, d)
  BY DEF FormBody
<1>3. d \in Text /\ d # <<>> /\ d[1] = Ampersand /\ Equals \in Nat /\ Ampersand \in Nat /\ <<Equals>> \in Text
  BY Literals, TextConcat
<1>4. Equals \notin Plain \cup {Percent, Plus} /\ Ampersand \notin Plain \cup {Percent, Plus} /\ Equals # Ampersand
  BY DEF Equals, Ampersand, Plain, Percent, Plus
<1>5. ASSUME NEW i \in 1..n
      PROVE  /\ PairPiece(es[i], vs[i], pieces[i])
             /\ pieces[i] \in Text /\ pieces[i] # <<>> /\ Avoids(pieces[i], Ampersand)
  <2> DEFINE e == es[i]
             v == PercentEncode(e.content)
  <2>7. PercentEncode(e.name) = e.name
    BY <1>1 DEF Unwritable
  <2>1. vs[i] = v /\ pieces[i] = e.name \o <<Equals>> \o v
    BY <1>1, <2>7
  <2>2. Entry(e)
    BY <1>1
  <2> HIDE DEF e
  <2>3. /\ e.name \in Text /\ e.content \in Text /\ e.name # <<>> /\ Range(e.content) \subseteq 0..255
        /\ Avoids(e.name, Equals) /\ Avoids(e.name, Ampersand)
    BY <2>2 DEF Entry
  <2>4. v \in Text /\ Avoids(v, Equals) /\ Avoids(v, Ampersand) /\ (v = <<>> <=> e.content = <<>>)
    BY <1>3, <1>4, <2>3, Encoded
  <2> HIDE DEF v, pieces, vs
  <2>5. PairPiece(e, v, pieces[i])
    BY <2>1, <2>3, <2>4 DEF PairPiece
  <2>6. pieces[i] \in Text /\ pieces[i] # <<>> /\ Avoids(pieces[i], Ampersand)
    BY <1>3, <1>4, <2>1, <2>3, <2>4, PairWritten
  <2> QED BY <2>1, <2>5, <2>6 DEF e
<1>6. pieces \in Seq(Text) /\ Len(pieces) = n
  <2>1. pieces = [i \in 1..n |-> pieces[i]]
    BY <1>1
  <2> HIDE DEF pieces
  <2> QED BY <1>1, <1>5, <2>1
<1> HIDE DEF pieces, vs
<1>7. Split(body, d) = pieces
  <2>1. CASE pieces = <<>>
    <3>1. Joined(<<>>, d) = FlattenSeq(<<>>)
      BY DEF Joined
    <3>2. <<>> \in Seq(Text) /\ Len(<<>>) = 0
      OBVIOUS
    <3>3. PICK G : IsFlat(<<>>, G)
      BY <3>2, FlatSolved
    <3>4. FlattenSeq(<<>>) = <<>>
      BY <3>2, <3>3 DEF IsFlat
    <3>5. body = <<>>
      BY <1>2, <2>1, <3>1, <3>4
    <3> QED BY <2>1, <3>5 DEF Split
  <2>2. CASE pieces # <<>>
    <3>1. \A i \in 1..Len(pieces) : pieces[i] # <<>> /\ Avoids(pieces[i], d[1])
      BY <1>3, <1>5, <1>6
    <3> HIDE DEF d
    <3> QED BY <1>2, <1>3, <1>6, <2>2, <3>1, SplitJoined
  <2> QED BY <2>1, <2>2
<1> DEFINE pairs == PairsOf(pieces)
<1>8. ToldIn("url", es, vs, pairs)
  BY <1>1, <1>5, <1>6, PairsRead
<1>9. ParseUrlencoded(body, past)
        = [i \in DOMAIN pairs |-> FieldData(Pair(pairs[i])[1], <<>>, <<>>, UrlDecode(Pair(pairs[i])[2], past))]
  BY <1>7 DEF ParseUrlencoded
<1> HIDE DEF pairs, d, body
<1>10. ASSUME NEW i \in DOMAIN pairs
       PROVE  FieldData(Pair(pairs[i])[1], <<>>, <<>>, UrlDecode(Pair(pairs[i])[2], past)) = Told("url", es)[i]
  <2>1. PICK k \in DOMAIN es : /\ Pair(pairs[i]) = <<es[k].name, vs[k]>>
                               /\ Told("url", es)[i] = FieldData(es[k].name, <<>>, <<>>, Returned("url", es[k].content))
    BY <1>8 DEF ToldIn
  <2>2. vs[k] = PercentEncode(es[k].content)
    BY DEF vs
  <2>3. es[k].content \in Text /\ Range(es[k].content) \subseteq 0..255
    BY <1>1 DEF Entry
  <2>4. UrlDecode(vs[k], past) = Returned("url", es[k].content)
    BY <2>2, <2>3, DecodeEncoded
  <2>5. Pair(pairs[i])[1] = es[k].name /\ Pair(pairs[i])[2] = vs[k]
    BY <2>1
  <2> QED BY <2>1, <2>4, <2>5
<1>11. DOMAIN Told("url", es) = DOMAIN pairs /\ Told("url", es) = [i \in DOMAIN Told("url", es) |-> Told("url", es)[i]]
  BY <1>8 DEF ToldIn, Told, Subsequence
<1>12. ParseUrlencoded(body, past) = [i \in DOMAIN pairs |-> Told("url", es)[i]]
  BY <1>9, <1>10
<1> QED BY <1>11, <1>12 DEF body

\* So does one in plain text, if its contents can be written so.
LEMMA PlainRead ==
  ASSUME NEW es, Entered(es), ~Unwritable("plain", es)
  PROVE  ParsePlain(FormBody("plain", es)) = Told("plain", es)
<1> DEFINE n == Len(es)
           vs == [i \in DOMAIN es |-> es[i].content]
           pieces == [i \in DOMAIN es |-> es[i].name \o <<Equals>> \o es[i].content]
           seqs == [i \in DOMAIN es |-> es[i].name \o <<Equals>> \o es[i].content \o <<CR, LF>>]
           d == <<CR, LF>>
           body == FormBody("plain", es)
<1>1. n \in Nat /\ DOMAIN es = 1..n /\ es \in Seq(FormFieldData) /\ \A i \in 1..n : Entry(es[i])
  BY DEF Entered
<1>2. body = FlattenSeq(seqs)
  BY DEF FormBody
<1>3. d \in Text /\ d # <<>> /\ d[1] = CR /\ CR \in Nat /\ CR # Equals
  BY Literals, TextConcat DEF CR, Equals
<1>5. ASSUME NEW i \in 1..n
      PROVE  /\ PairPiece(es[i], vs[i], pieces[i])
             /\ pieces[i] \in Text /\ pieces[i] # <<>> /\ Avoids(pieces[i], CR)
             /\ seqs[i] = pieces[i] \o d /\ seqs[i] \in Text
  <2> DEFINE e == es[i]
             v == e.content
  <2>1. vs[i] = v /\ pieces[i] = e.name \o <<Equals>> \o v /\ seqs[i] = pieces[i] \o d
    BY <1>1
  <2>2. Entry(e)
    BY <1>1
  <2>x. {Equals, CR, LF} \cap Range(v) = {}
    BY <1>1 DEF Unwritable
  <2> HIDE DEF e
  <2>3. /\ e.name \in Text /\ v \in Text /\ e.name # <<>>
        /\ Avoids(e.name, Equals) /\ Avoids(e.name, CR)
    BY <2>2 DEF Entry
  <2>y. Equals \notin Range(v) /\ CR \notin Range(v)
    BY <2>x
  <2>4. Avoids(v, Equals) /\ Avoids(v, CR)
    BY <2>3, <2>y, AvoidsRange
  <2> HIDE DEF v, pieces, vs, seqs, d
  <2>5. PairPiece(e, v, pieces[i])
    BY <2>1, <2>3, <2>4 DEF PairPiece, v
  <2>6. pieces[i] \in Text /\ pieces[i] # <<>> /\ Avoids(pieces[i], CR)
    BY <1>3, <2>1, <2>3, <2>4, PairWritten
  <2>7. seqs[i] \in Text
    BY <1>3, <2>1, <2>6, TextConcat
  <2> QED BY <2>1, <2>5, <2>6, <2>7 DEF e
<1>6. pieces \in Seq(Text) /\ Len(pieces) = n /\ seqs \in Seq(Text) /\ Len(seqs) = n
  <2>1. pieces = [i \in 1..n |-> pieces[i]] /\ seqs = [i \in 1..n |-> seqs[i]]
    BY <1>1
  <2> HIDE DEF pieces, seqs
  <2>2. pieces \in Seq(Text) /\ Len(pieces) = n
    BY <1>1, <1>5, <2>1
  <2>3. seqs \in Seq(Text) /\ Len(seqs) = n
    BY <1>1, <1>5, <2>1
  <2> QED BY <2>2, <2>3
<1> HIDE DEF pieces, vs, seqs
<1>7. Split(body, d) = pieces
  <2>1. CASE pieces = <<>>
    <3>1. Len(seqs) = 0
      BY <1>6, <2>1
    <3>3. PICK G : IsFlat(seqs, G)
      BY <1>6, FlatSolved
    <3>4. FlattenSeq(seqs) = <<>>
      BY <3>1, <3>3 DEF IsFlat
    <3>5. body = <<>>
      BY <1>2, <3>4
    <3> QED BY <2>1, <3>5 DEF Split
  <2>2. CASE pieces # <<>>
    <3>1. \A i \in 1..Len(pieces) : pieces[i] # <<>> /\ Avoids(pieces[i], d[1])
      BY <1>3, <1>5, <1>6
    <3>2. Delimited(seqs, pieces, d)
      BY <1>5, <1>6 DEF Delimited
    <3> HIDE DEF d
    <3> QED BY <1>2, <1>3, <1>6, <2>2, <3>1, <3>2, SplitFlat
  <2> QED BY <2>1, <2>2
<1> DEFINE pairs == PairsOf(pieces)
<1>8. ToldIn("plain", es, vs, pairs)
  BY <1>1, <1>5, <1>6, PairsRead
<1>9. ParsePlain(body) = [i \in DOMAIN pairs |-> FieldData(Pair(pairs[i])[1], <<>>, <<>>, Pair(pairs[i])[2])]
  BY <1>7 DEF ParsePlain
<1> HIDE DEF pairs, d, body
<1>10. ASSUME NEW i \in DOMAIN pairs
       PROVE  FieldData(Pair(pairs[i])[1], <<>>, <<>>, Pair(pairs[i])[2]) = Told("plain", es)[i]
  <2>1. PICK k \in DOMAIN es : /\ Pair(pairs[i]) = <<es[k].name, vs[k]>>
                               /\ Told("plain", es)[i] = FieldData(es[k].name, <<>>, <<>>, Returned("plain", es[k].content))
    BY <1>8 DEF ToldIn
  <2>2. vs[k] = Returned("plain", es[k].content)
    BY DEF vs, Returned
  <2>5. Pair(pairs[i])[1] = es[k].name /\ Pair(pairs[i])[2] = vs[k]
    BY <2>1
  <2> QED BY <2>1, <2>2, <2>5
<1>11. DOMAIN Told("plain", es) = DOMAIN pairs /\ Told("plain", es) = [i \in DOMAIN Told("plain", es) |-> Told("plain", es)[i]]
  BY <1>8 DEF ToldIn, Told, Subsequence
<1>12. ParsePlain(body) = [i \in DOMAIN pairs |-> Told("plain", es)[i]]
  BY <1>9, <1>10
<1> QED BY <1>11, <1>12 DEF body

-----------------------------------------------------------------------------
(* What multipart/form-data carries.                                       *)

\* A text begins with a character, or does not.
LEMMA PrefixOne ==
  ASSUME NEW s \in Text, NEW c
  PROVE  IsPrefix(<<c>>, s) <=> s # <<>> /\ s[1] = c
<1>1. Len(<<c>>) = 1 /\ SubSeq(<<c>>, 1, 1) = <<c>>
  <2>1. <<c>> \in Seq({c}) /\ Len(<<c>>) = 1
    OBVIOUS
  <2> DEFINE t == <<c>>
  <2> HIDE DEF t
  <2>2. t \in Seq({c}) => SubSeq(t, 1, Len(t)) = t
    OBVIOUS
  <2> QED BY <2>1, <2>2 DEF t
<1>2. Len(s) \in Nat /\ (s = <<>> <=> Len(s) = 0)
  BY DEF Text
<1>3. CASE s = <<>>
  <2>1. ~(Len(<<c>>) <= Len(s))
    BY <1>1, <1>2, <1>3
  <2> QED BY <1>3, <2>1 DEF IsPrefix
<1>4. CASE s # <<>>
  <2>0. Len(s) >= 1
    BY <1>2, <1>4
  <2>4. SubSeq(s, 1, 1) = <<s[1]>>
    <3>1. 0 + 1 = 1 /\ 1 - 0 = 1 /\ 1 \in Nat /\ 0 \in Nat
      OBVIOUS
    <3>2. SubSeq(s, 0 + 1, 1) \in Text /\ Len(SubSeq(s, 0 + 1, 1)) = 1
          /\ \A k \in 1..(1 - 0) : SubSeq(s, 0 + 1, 1)[k] = s[0 + k]
      BY <1>2, <2>0, <3>1, Stretch
    <3> DEFINE t == SubSeq(s, 0 + 1, 1)
    <3>3. t \in Seq(Nat) /\ Len(t) = 1 /\ t[1] = s[1]
      BY <3>2 DEF Text
    <3> HIDE DEF t
    <3>4. t = <<s[1]>>
      BY <3>3
    <3> QED BY <3>1, <3>4 DEF t
  <2>1. Len(<<c>>) <= Len(s) /\ SubSeq(s, 1, 1) = <<s[1]>>
    BY <1>1, <2>0, <2>4
  <2>2. IsPrefix(<<c>>, s) <=> <<c>> = <<s[1]>>
    BY <1>1, <2>1 DEF IsPrefix
  <2>3. <<c>> = <<s[1]>> <=> c = s[1]
    OBVIOUS
  <2> QED BY <1>4, <2>2, <2>3
<1> QED BY <1>3, <1>4

\* Concatenations of two and of three texts.
LEMMA FlattenFew ==
  ASSUME NEW u \in Text, NEW v \in Text
  PROVE  /\ FlattenSeq(<<u, v>>) = u \o v
         /\ \A w \in Text : FlattenSeq(<<u, v, w>>) = u \o v \o w
<1>1. FlattenSeq(<<u, v>>) = u \o v
  <2> DEFINE q == <<u, v>>
  <2>1. q \in Seq(Text) /\ Len(q) = 2 /\ q[1] = u /\ q[2] = v
    OBVIOUS
  <2> HIDE DEF q
  <2>2. PICK G : IsFlat(q, G)
    BY <2>1, FlatSolved
  <2>3. G[0] = <<>> /\ G[1] = G[1 - 1] \o u /\ G[2] = G[2 - 1] \o v /\ FlattenSeq(q) = G[2]
    <3>1. G[0] = <<>> /\ FlattenSeq(q) = G[Len(q)] /\ \A i \in 1..Len(q) : G[i] = G[i - 1] \o q[i]
      BY <2>2 DEF IsFlat
    <3>2. 1 \in 1..2 /\ 2 \in 1..2
      OBVIOUS
    <3> QED BY ONLY <2>1, <3>1, <3>2
  <2>4. 1 - 1 = 0 /\ 2 - 1 = 1
    OBVIOUS
  <2>6. G[1] = <<>> \o u
    BY <2>3, <2>4
  <2>5. G[1] = u
    BY <2>6, TextUnit
  <2> QED BY <2>3, <2>4, <2>5 DEF q
<1>2. ASSUME NEW w \in Text PROVE FlattenSeq(<<u, v, w>>) = u \o v \o w
  <2> DEFINE q == <<u, v, w>>
  <2>1. q \in Seq(Text) /\ Len(q) = 3 /\ q[1] = u /\ q[2] = v /\ q[3] = w
    OBVIOUS
  <2> HIDE DEF q
  <2>2. PICK G : IsFlat(q, G)
    BY <2>1, FlatSolved
  <2>3. G[0] = <<>> /\ G[1] = G[1 - 1] \o u /\ G[2] = G[2 - 1] \o v /\ G[3] = G[3 - 1] \o w /\ FlattenSeq(q) = G[3]
    <3>1. G[0] = <<>> /\ FlattenSeq(q) = G[Len(q)] /\ \A i \in 1..Len(q) : G[i] = G[i - 1] \o q[i]
      BY <2>2 DEF IsFlat
    <3>2. 1 \in 1..3 /\ 2 \in 1..3 /\ 3 \in 1..3
      OBVIOUS
    <3> QED BY ONLY <2>1, <3>1, <3>2
  <2>4. 1 - 1 = 0 /\ 2 - 1 = 1 /\ 3 - 1 = 2
    OBVIOUS
  <2>7. G[1] = <<>> \o u
    BY <2>3, <2>4
  <2>5. G[1] = u
    BY <2>7, TextUnit
  <2>6. G[2] = u \o v
    BY <2>3, <2>4, <2>5
  <2> QED BY <2>3, <2>4, <2>6 DEF q
<1> QED BY <1>1, <1>2

\* The boundary is read as it was named.
LEMMA BoundaryRead ==
  BoundaryOf(ContentType("multipart")) = Boundary
<1> DEFINE u == <<MultipartType>>
           k == <<BoundaryKey>>
           eq == <<Equals>>
           d == <<Semicolon, Space>>
           v == k \o eq \o Boundary
           type == ContentType("multipart")
<1>1. Boundary \in Text /\ Boundary # <<>> /\ Semicolon \notin Range(Boundary) /\ Equals \notin Range(Boundary)
  BY TextsAssumption, BoundaryAssumption
<1>2. u \in Text /\ u # <<>> /\ k \in Text /\ k # <<>> /\ eq \in Text /\ d \in Text /\ d # <<>> /\ d[1] = Semicolon
  BY Literals, TextConcat
<1>3. Avoids(u, Semicolon) /\ Avoids(k, Semicolon) /\ Avoids(eq, Semicolon) /\ Avoids(k, Equals)
  BY DEF Avoids, MultipartType, BoundaryKey, Equals, Semicolon
<1>4. Avoids(Boundary, Semicolon) /\ Avoids(Boundary, Equals)
  BY <1>1, AvoidsRange
<1>5. <<Semicolon, Space, BoundaryKey, Equals>> = d \o k \o eq
  OBVIOUS
<1>6. type = u \o (d \o k \o eq) \o Boundary
  <2>1. type = u \o <<Semicolon, Space, BoundaryKey, Equals>> \o Boundary
    BY DEF ContentType, EncodingToString
  <2> QED BY <1>5, <2>1
<1>c. u[1] = MultipartType /\ k[1] = BoundaryKey /\ MultipartType # BoundaryKey /\ Len(k) = 1
  BY DEF MultipartType, BoundaryKey
<1> HIDE DEF u, k, eq, d, type
<1>a. k \o eq \in Text /\ Avoids(k \o eq, Semicolon)
  BY <1>2, <1>3, AvoidsConcat, TextConcat
<1>b. v \in Text /\ Avoids(v, Semicolon)
  <2> DEFINE w == k \o eq
  <2>1. w \in Text /\ Avoids(w, Semicolon)
    BY <1>a
  <2> HIDE DEF w
  <2>2. w \o Boundary \in Text /\ Avoids(w \o Boundary, Semicolon)
    BY <1>1, <1>4, <2>1, AvoidsConcat, TextConcat
  <2> QED BY <2>2 DEF w
<1>7. type = u \o d \o v
  <2> DEFINE dk == d \o k
             dke == dk \o eq
             w == k \o eq
             ud == u \o d
  <2>1. dk \in Text /\ dke \in Text /\ w \in Text /\ ud \in Text
    BY <1>2, TextConcat
  <2>2. dke = d \o w
    <3>1. d \in Text /\ k \in Text /\ eq \in Text
      BY <1>2
    <3>2. Associated(d, k, eq)
      BY ONLY <3>1, TextAssociative
    <3> QED BY ONLY <3>2 DEF Associated
  <2>3. type = (u \o dke) \o Boundary
    BY <1>6
  <2> HIDE DEF dke, w
  <2>4. u \o (d \o w) = ud \o w
    <3>1. u \in Text /\ d \in Text /\ w \in Text
      BY <1>2, <2>1
    <3>2. Associated(u, d, w)
      BY ONLY <3>1, TextAssociative
    <3> QED BY <3>2 DEF Associated
  <2> HIDE DEF ud
  <2>5. type = (ud \o w) \o Boundary
    BY <2>2, <2>3, <2>4
  <2>6. (ud \o w) \o Boundary = ud \o (w \o Boundary)
    <3>1. ud \in Text /\ w \in Text /\ Boundary \in Text
      BY <1>1, <2>1
    <3>2. Associated(ud, w, Boundary)
      BY ONLY <3>1, TextAssociative
    <3> QED BY ONLY <3>2 DEF Associated
  <2> QED BY <2>5, <2>6 DEF w, ud
<1>8. v # <<>> /\ v[1] = BoundaryKey
  <2>1. (k \o eq)[1] = k[1]
    <3>1. 1 \in 1..Len(k)
      BY <1>c
    <3> QED BY <1>2, <3>1, ConcatAt
  <2> DEFINE w == k \o eq
  <2>2. w \in Text /\ Len(w) = Len(k) + Len(eq) /\ Len(eq) \in Nat
    BY <1>2, ConcatAt
  <2> HIDE DEF w
  <2>3. 1 \in 1..Len(w)
    BY <1>c, <2>2
  <2>4. (w \o Boundary)[1] = w[1] /\ Len(w \o Boundary) = Len(w) + Len(Boundary) /\ Len(Boundary) \in Nat
    BY <1>1, <2>2, <2>3, ConcatAt
  <2>5. Len(w \o Boundary) # 0
    BY <2>2, <2>3, <2>4
  <2> QED BY <1>c, <2>1, <2>4, <2>5 DEF w
<1> HIDE DEF v
<1>9. Split(type, d) = <<u, v>>
  BY <1>2, <1>3, <1>b, <1>7, <1>8, SplitTwo
<1>10. SplitHeaderValue(type) = <<u, v>>
  BY <1>9 DEF SplitHeaderValue, d
<1>11. Pair(v) = <<k, Boundary>>
  <2>1. PairRead(k, Boundary)
    BY <1>1, <1>2, <1>3, PairOfTexts
  <2>2. v = k \o <<Equals>> \o Boundary
    BY DEF v, eq
  <2> QED BY <1>1, <1>4, <2>1, <2>2 DEF PairRead
<1> DEFINE parts == SplitHeaderValue(type)
           named == {i \in DOMAIN parts : IsPrefix(<<BoundaryKey>>, parts[i]) /\ Pair(parts[i]) # <<>>}
<1>12. parts = <<u, v>>
  BY <1>10
<1> HIDE DEF parts
<1>13. named = {2}
  <2>1. DOMAIN parts = {1, 2} /\ parts[1] = u /\ parts[2] = v
    BY <1>12
  <2>2. ~IsPrefix(<<BoundaryKey>>, u)
    BY <1>2, <1>c, PrefixOne
  <2>3. IsPrefix(<<BoundaryKey>>, v)
    BY <1>b, <1>8, PrefixOne
  <2>4. Pair(v) # <<>>
    BY <1>11
  <2> QED BY <2>1, <2>2, <2>3, <2>4
<1>14. BoundaryOf(type) = IF named = {} THEN <<>> ELSE Pair(parts[CHOOSE i \in named : \A j \in named : i >= j])[2]
  BY DEF BoundaryOf, parts
<1> HIDE DEF named
<1>15. (CHOOSE i \in named : \A j \in named : i >= j) = 2
  BY <1>13
<1>16. parts[2] = v /\ Pair(v)[2] = Boundary
  BY <1>11, <1>12
<1> QED BY <1>13, <1>14, <1>15, <1>16 DEF type

\* What every boundary line begins with.
Mark == <<Dash, Dash>> \o Boundary

\* It is a text that begins with two dashes.
LEMMA MarkShape ==
  /\ Mark \in Text /\ Len(Mark) \in Nat \ {0}
  /\ Avoids(Mark, CR) /\ Avoids(Mark, LF)
  /\ BoundaryLine(Boundary) = Mark \o <<CR, LF>> /\ BoundaryLine(Boundary) \in Text
  /\ LastBoundaryLine(Boundary) = Mark \o <<Dash, Dash>> /\ LastBoundaryLine(Boundary) \in Text
  /\ Len(BoundaryLine(Boundary)) = Len(Mark) + 2 /\ Len(LastBoundaryLine(Boundary)) = Len(Mark) + 2
<1>1. Boundary \in Text /\ CR \notin Range(Boundary) /\ LF \notin Range(Boundary)
  BY TextsAssumption, BoundaryAssumption
<1> DEFINE a == <<Dash, Dash>>
           c == <<CR, LF>>
<1>2. a \in Text /\ c \in Text /\ Len(a) = 2 /\ Len(c) = 2
  BY Literals, TextConcat
<1>3. Avoids(a, CR) /\ Avoids(a, LF)
  BY DEF Avoids, Dash, CR, LF
<1>4. Avoids(Boundary, CR) /\ Avoids(Boundary, LF)
  BY <1>1, AvoidsRange
<1>5. BoundaryLine(Boundary) = Mark \o c /\ LastBoundaryLine(Boundary) = Mark \o a /\ Mark = a \o Boundary
  BY DEF BoundaryLine, LastBoundaryLine, Mark
<1> HIDE DEF a, c
<1>6. Mark \in Text /\ Len(Mark) = 2 + Len(Boundary) /\ Len(Boundary) \in Nat
  <2>1. a \o Boundary \in Text /\ Len(a \o Boundary) = Len(a) + Len(Boundary) /\ Len(Boundary) \in Nat
    BY ONLY <1>1, <1>2, ConcatAt
  <2> QED BY <1>2, <1>5, <2>1
<1>7. Avoids(Mark, CR) /\ Avoids(Mark, LF)
  BY <1>1, <1>2, <1>3, <1>4, <1>5, AvoidsConcat
<1>8. Mark \o c \in Text /\ Len(Mark \o c) = Len(Mark) + 2
  <2>1. Mark \o c \in Text /\ Len(Mark \o c) = Len(Mark) + Len(c)
    BY ONLY <1>2, <1>6, ConcatAt
  <2> QED BY <1>2, <2>1
<1>9. Mark \o a \in Text /\ Len(Mark \o a) = Len(Mark) + 2
  <2>1. Mark \o a \in Text /\ Len(Mark \o a) = Len(Mark) + Len(a)
    BY ONLY <1>2, <1>6, ConcatAt
  <2> QED BY <1>2, <2>1
<1> QED BY <1>5, <1>6, <1>7, <1>8, <1>9 DEF a, c

\* Where something stands, its characters do.
LEMMA StandsAt ==
  ASSUME NEW s \in Text, NEW d \in Text, NEW p \in Nat
  PROVE  Stands(s, d, p) <=> p + Len(d) <= Len(s) /\ \A k \in 1..Len(d) : s[p + k] = d[k]
<1>1. Len(s) \in Nat /\ Len(d) \in Nat
  BY DEF Text
<1>2. CASE p + Len(d) <= Len(s)
  <2> DEFINE e == p + Len(d)
             u == SubSeq(s, p + 1, e)
  <2>1. e \in Nat /\ e <= Len(s) /\ e - p = Len(d) /\ p <= e
    BY <1>1, <1>2
  <2>2. u \in Text /\ Len(u) = Len(d) /\ \A k \in 1..Len(d) : u[k] = s[p + k]
    <3> HIDE DEF e
    <3>1. SubSeq(s, p + 1, e) \in Text /\ Len(SubSeq(s, p + 1, e)) = (IF p <= e THEN e - p ELSE 0)
          /\ \A k \in 1..(e - p) : SubSeq(s, p + 1, e)[k] = s[p + k]
      BY <2>1, Stretch
    <3> QED BY <2>1, <3>1
  <2> HIDE DEF u
  <2>3. (\A k \in 1..Len(d) : s[p + k] = d[k]) => u = d
    <3> SUFFICES ASSUME \A k \in 1..Len(d) : s[p + k] = d[k] PROVE u = d
      OBVIOUS
    <3>1. \A k \in 1..Len(u) : u[k] = d[k]
      BY <2>2
    <3> QED BY <2>2, <3>1, TextEqual
  <2>4. u = d => \A k \in 1..Len(d) : s[p + k] = d[k]
    BY <2>2
  <2>5. Stands(s, d, p) <=> u = d
    BY <1>2 DEF Stands, u
  <2> QED BY <1>2, <2>3, <2>4, <2>5
<1>3. CASE ~(p + Len(d) <= Len(s))
  BY <1>3 DEF Stands
<1> QED BY <1>2, <1>3

\* An entry is enclosed in a text that ends with a line end.
LEMMA EnclosedEnds ==
  ASSUME NEW e, Entry(e)
  PROVE  /\ Enclosed(e) \in Text /\ Len(Enclosed(e)) \in Nat \ {0}
         /\ Enclosed(e)[Len(Enclosed(e))] = LF
<1>1. e \in FormFieldData /\ e.name \in Text /\ e.filename \in Text /\ e.type \in Text /\ e.content \in Text
  BY DEF Entry
<1> DEFINE A == <<Disposition, FormDataType, Semicolon, Space, NameKey, Quote>>
           B == <<Semicolon, Space, FilenameKey, Quote>>
           c == <<CR, LF>>
           F == IF e.filename = <<>> THEN <<>> ELSE B \o e.filename \o <<Quote>>
           T == IF e.type = <<>> THEN <<>> ELSE <<TypeHeader>> \o e.type \o c
           t == A \o e.name \o <<Quote>> \o F \o c \o T \o c \o e.content
<1>2. Enclosed(e) = t \o c
  BY DEF Enclosed
<1>3. A \in Text /\ B \in Text /\ <<Quote>> \in Text /\ <<TypeHeader>> \in Text
  BY Literals DEF Text
<1>4. c \in Text /\ Len(c) = 2 /\ c[2] = LF
  BY Literals, TextConcat
<1>5. F \in Text /\ T \in Text
  <2> HIDE DEF B, c
  <2> QED BY <1>1, <1>3, <1>4, TextConcat
<1> HIDE DEF A, c, F, T
<1>6. t \in Text
  BY <1>1, <1>3, <1>4, <1>5, TextConcat
<1> HIDE DEF t
<1>7. t \o c \in Text /\ Len(t \o c) = Len(t) + Len(c) /\ Len(t) \in Nat
      /\ \A k \in 1..Len(c) : (t \o c)[Len(t) + k] = c[k]
  BY <1>4, <1>6, ConcatAt
<1>8. (t \o c)[Len(t) + 2] = LF /\ Len(t \o c) = Len(t) + 2
  BY <1>4, <1>7
<1> QED BY <1>2, <1>7, <1>8

\* No mark stands in a part behind its own, not even one that goes over the end.
LEMMA NoMarkInside ==
  ASSUME NEW e, Entry(e), NEW t \in Text, NEW r \in Text, NEW s, Within(s, t, Part(e), r),
         NEW q \in Nat, Len(t) < q, q < Len(t) + Len(Part(e))
  PROVE  ~Stands(s, Mark, q)
<1> DEFINE m == Len(Mark)
           c == <<CR, LF>>
           line == Mark \o c
           E == Enclosed(e)
           P == Part(e)
<1>1. Mark \in Text /\ m \in Nat \ {0} /\ Avoids(Mark, CR) /\ Avoids(Mark, LF) /\ line \in Text /\ Len(line) = m + 2
  BY MarkShape
<1>2. E \in Text /\ Len(E) \in Nat \ {0} /\ E[Len(E)] = LF
  BY EnclosedEnds
<1>3. c \in Text /\ c[1] = CR /\ c[2] = LF /\ Len(c) = 2
  BY Literals, TextConcat
<1>4. P = line \o E
  BY MarkShape DEF Part
<1>5. Find(E, Mark, 0) = Npos
  BY DEF Entry, Mark
<1> HIDE DEF c, E, P
<1>6. line[m + 1] = CR /\ line[m + 2] = LF
  <2>1. 1 \in 1..Len(c) /\ 2 \in 1..Len(c)
    BY <1>3
  <2>3. \A k \in 1..Len(c) : (Mark \o c)[Len(Mark) + k] = c[k]
    BY ONLY <1>1, <1>3, ConcatAt
  <2>2. line[Len(Mark) + 1] = c[1] /\ line[Len(Mark) + 2] = c[2]
    BY <2>1, <2>3
  <2> QED BY <1>3, <2>2
<1> HIDE DEF line
<1>7. /\ P \in Text /\ Len(P) = m + 2 + Len(E)
      /\ P[m + 1] = CR /\ P[m + 2] = LF /\ \A k \in 1..Len(E) : P[m + 2 + k] = E[k]
  <2>1. P \in Text /\ Len(P) = Len(line) + Len(E) /\ (\A k \in 1..Len(line) : P[k] = line[k])
        /\ \A k \in 1..Len(E) : P[Len(line) + k] = E[k]
    <3>1. line \o E \in Text /\ Len(line \o E) = Len(line) + Len(E) /\ (\A k \in 1..Len(line) : (line \o E)[k] = line[k])
          /\ \A k \in 1..Len(E) : (line \o E)[Len(line) + k] = E[k]
      BY ONLY <1>1, <1>2, ConcatAt
    <3> QED BY <1>4, <3>1
  <2>2. m + 1 \in 1..Len(line) /\ m + 2 \in 1..Len(line)
    BY <1>1
  <2> QED BY <1>1, <1>6, <2>1, <2>2
<1>8. s \in Text /\ Len(t) \in Nat /\ \A k \in 1..Len(P) : s[Len(t) + k] = P[k]
  <2>1. Within(s, t, P, r)
    BY DEF P
  <2> QED BY <1>7, <2>1, WithinAt
<1>9. Len(t) < q /\ q < Len(t) + Len(P)
  BY DEF P
<1> SUFFICES ASSUME Stands(s, Mark, q) PROVE FALSE
  OBVIOUS
<1>10. \A k \in 1..m : s[q + k] = Mark[k] /\ Mark[k] # CR /\ Mark[k] # LF
  <2>1. s \in Text /\ Mark \in Text /\ q \in Nat
    BY <1>1, <1>8
  <2>2. \A k \in 1..m : s[q + k] = Mark[k]
    BY ONLY <2>1, Stands(s, Mark, q), StandsAt
  <2>3. \A k \in 1..m : Mark[k] # CR /\ Mark[k] # LF
    BY <1>1 DEF Avoids
  <2> QED BY <2>2, <2>3
<1> DEFINE o == q - Len(t)
<1>11. o \in Nat \ {0} /\ o < m + 2 + Len(E) /\ q = Len(t) + o
  BY <1>7, <1>8, <1>9
<1> HIDE DEF o, m
<1>12. CASE o <= m
  <2> DEFINE k == m + 1 - o
  <2>1. k \in 1..m /\ q + k = Len(t) + (m + 1) /\ m + 1 \in 1..Len(P)
    BY <1>1, <1>2, <1>7, <1>8, <1>11, <1>12
  <2> QED BY <1>7, <1>8, <1>10, <2>1
<1>13. CASE o = m + 1
  <2>1. 1 \in 1..m /\ q + 1 = Len(t) + (m + 2) /\ m + 2 \in 1..Len(P)
    BY <1>1, <1>2, <1>7, <1>8, <1>11, <1>13
  <2> QED BY <1>7, <1>8, <1>10, <2>1
<1>14. CASE o >= m + 2
  <2> DEFINE p == o - (m + 2)
  <2>1. p \in Nat /\ p < Len(E)
    BY <1>1, <1>2, <1>11, <1>14
  <2>2. \A k \in Nat : q + k = Len(t) + (m + 2 + (p + k))
    BY <1>1, <1>8, <1>11
  <2> HIDE DEF p
  <2>3. ASSUME NEW k \in 1..m, p + k <= Len(E) PROVE E[p + k] = Mark[k]
    <3>1. p + k \in 1..Len(E) /\ m + 2 + (p + k) \in 1..Len(P) /\ k \in Nat
      BY <1>1, <1>2, <1>7, <2>1, <2>3
    <3>2. s[q + k] = P[m + 2 + (p + k)] /\ P[m + 2 + (p + k)] = E[p + k]
      BY <1>7, <1>8, <2>2, <3>1
    <3> QED BY <1>10, <3>2
  <2>4. CASE p + m <= Len(E)
    <3>1. \A k \in 1..m : E[p + k] = Mark[k]
      BY <1>1, <1>2, <2>1, <2>3, <2>4
    <3>2. Stands(E, Mark, p)
      BY <1>1, <1>2, <2>1, <2>4, <3>1, StandsAt DEF m
    <3>3. 0 \in Nat /\ p >= 0 /\ Npos \notin Nat
      BY <2>1 DEF Npos
    <3> QED BY <1>1, <1>2, <1>5, <2>1, <3>2, <3>3, FindFirst
  <2>5. CASE ~(p + m <= Len(E))
    <3> DEFINE k == Len(E) - p
    <3>1. k \in 1..m /\ p + k = Len(E)
      BY <1>1, <1>2, <2>1, <2>5
    <3>2. E[p + k] = Mark[k]
      BY <1>2, <2>3, <3>1
    <3> HIDE DEF k
    <3> QED BY <1>2, <1>10, <3>1, <3>2
  <2> QED BY <2>4, <2>5
<1> QED BY <1>1, <1>11, <1>12, <1>13, <1>14

\* A delimiter stands at these places, far enough from each other, and nowhere else.
StandsOnly(s, d, n, P) ==
  /\ P \in [0..n -> Nat] /\ P[0] = 0 /\ P[n] <= Len(s)
  /\ \A i, j \in 0..n : i < j => P[i] + Len(d) <= P[j]
  /\ \A q \in Nat : Stands(s, d, q) <=> \E i \in 0..(n - 1) : q = P[i]

\* The search for boundary lines finds these places.
LEMMA StartsMarked ==
  ASSUME NEW s \in Text, NEW d \in Text, d # <<>>, NEW F, IsStarts(s, d, F),
         NEW n \in Nat, NEW P, StandsOnly(s, d, n, P)
  PROVE  F[0] = [x \in 1..n |-> P[x - 1]]
<1>1. /\ P \in [0..n -> Nat] /\ P[0] = 0 /\ P[n] <= Len(s)
      /\ \A i, j \in 0..n : i < j => P[i] + Len(d) <= P[j]
      /\ \A q \in Nat : Stands(s, d, q) <=> \E i \in 0..(n - 1) : q = P[i]
  BY DEF StandsOnly
<1>2. Len(s) \in Nat /\ Len(d) \in Nat \ {0}
  BY DEF Text
<1>3. F \in [0..Len(s) -> Seq(Nat)] /\ \A pos \in 0..Len(s) : F[pos] = StartsRest(s, d, F, pos)
  BY DEF IsStarts
<1> DEFINE Rest(i) == [x \in 1..(n - i) |-> P[i + x - 1]]
           Before(i, pos) == pos <= P[i] /\ \A j \in 0..(i - 1) : P[j] < pos
           Right(i) == \A pos \in Nat : Before(i, pos) => F[pos] = Rest(i)
<1>4. Right(n)
  <2> SUFFICES ASSUME NEW pos \in Nat, Before(n, pos) PROVE F[pos] = Rest(n)
    OBVIOUS
  <2>1. \A q \in Nat : q >= pos => ~Stands(s, d, q)
    BY <1>1
  <2>2. Find(s, d, pos) = Npos
    BY <2>1, FindNone
  <2>3. pos \in 0..Len(s)
    BY <1>1, <1>2
  <2>4. F[pos] = <<>>
    BY <1>3, <2>2, <2>3 DEF StartsRest
  <2>5. 1..(n - n) = {}
    OBVIOUS
  <2>6. Rest(n) = <<>>
    BY <2>5
  <2> QED BY <2>4, <2>6
<1>5. ASSUME NEW i \in 0..(n - 1), Right(i + 1) PROVE Right(i)
  <2> SUFFICES ASSUME NEW pos \in Nat, Before(i, pos) PROVE F[pos] = Rest(i)
    OBVIOUS
  <2>0. i \in 0..n /\ i + 1 \in 0..n /\ P[i] \in Nat /\ P[i + 1] \in Nat /\ P[i] + Len(d) <= P[i + 1]
    BY <1>1
  <2>1. pos <= P[i] /\ \A j \in 0..(i - 1) : P[j] < pos
    OBVIOUS
  <2>2. Stands(s, d, P[i])
    BY <1>1, <2>0
  <2>3. ASSUME NEW q \in Nat, q >= pos, q < P[i] PROVE ~Stands(s, d, q)
    <3> SUFFICES ASSUME NEW j \in 0..(n - 1), q = P[j] PROVE FALSE
      BY <1>1
    <3>1. j \in 0..n
      OBVIOUS
    <3>2. CASE j < i
      BY <2>1, <2>3, <3>2
    <3>3. CASE j = i
      BY <2>3, <3>3
    <3>4. CASE i < j
      <4>1. P[i] + Len(d) <= P[j] /\ P[j] \in Nat
        BY <1>1, <2>0, <3>1, <3>4
      <4> QED BY <1>2, <2>0, <2>3, <4>1
    <3> QED BY <3>2, <3>3, <3>4
  <2>4. Find(s, d, pos) = P[i]
    <3> DEFINE k == P[i]
    <3>1. k \in Nat /\ pos <= k /\ Stands(s, d, k) /\ \A p \in Nat : p >= pos /\ p < k => ~Stands(s, d, p)
      BY <2>0, <2>1, <2>2, <2>3
    <3> HIDE DEF k
    <3>2. Find(s, d, pos) = k
      BY <3>1, FindIs
    <3> QED BY <3>2 DEF k
  <2> DEFINE next == P[i] + Len(d)
  <2>5. P[i] + Len(d) <= Len(s)
    BY <2>2 DEF Stands
  <2>6. pos \in 0..Len(s)
    BY <1>2, <2>0, <2>1, <2>5
  <2>7. F[pos] = <<P[i]>> \o F[next]
    <3>1. P[i] # Npos
      BY <2>0 DEF Npos
    <3> QED BY <1>3, <2>4, <2>6, <3>1 DEF StartsRest
  <2>8. Before(i + 1, next)
    <3>1. next <= P[i + 1]
      BY <2>0
    <3>2. \A j \in 0..((i + 1) - 1) : P[j] < next
      <4> SUFFICES ASSUME NEW j \in 0..((i + 1) - 1) PROVE P[j] < next
        OBVIOUS
      <4>1. j \in 0..n /\ P[j] \in Nat
        BY <1>1, <2>0
      <4>2. CASE j = i
        BY <1>2, <2>0, <4>2
      <4>3. CASE j < i
        BY <1>2, <2>0, <2>1, <4>1, <4>3
      <4> QED BY <4>2, <4>3
    <3> QED BY <3>1, <3>2
  <2>9. F[next] = Rest(i + 1)
    <3>1. next \in Nat
      BY <1>2, <2>0
    <3> HIDE DEF next, Before, Rest
    <3> QED BY <1>5, <2>8, <3>1
  <2> DEFINE m == n - (i + 1)
             g == Rest(i + 1)
  <2>10. m \in Nat /\ m + 1 = n - i
    BY <2>0
  <2>11. g \in [1..m -> Nat] /\ \A x \in 1..m : g[x] = P[i + 1 + x - 1]
    <3>1. \A x \in 1..m : i + 1 + x - 1 \in 0..n
      BY <2>0
    <3> QED BY <1>1, <3>1
  <2>12. <<P[i]>> \o g = [x \in 1..(m + 1) |-> IF x = 1 THEN P[i] ELSE g[x - 1]]
    <3> DEFINE v == P[i]
    <3>1. v \in Nat
      BY <2>0
    <3> HIDE DEF v, g, m
    <3>2. <<v>> \o g = [x \in 1..(m + 1) |-> IF x = 1 THEN v ELSE g[x - 1]]
      BY <2>10, <2>11, <3>1, ConcatListed
    <3> QED BY <3>2 DEF v
  <2> HIDE DEF g
  <2>13. \A x \in 1..(m + 1) : (IF x = 1 THEN P[i] ELSE g[x - 1]) = P[i + x - 1]
    <3> SUFFICES ASSUME NEW x \in 1..(m + 1) PROVE (IF x = 1 THEN P[i] ELSE g[x - 1]) = P[i + x - 1]
      OBVIOUS
    <3>1. CASE x = 1
      <4>1. i + 1 - 1 = i
        OBVIOUS
      <4> QED BY <3>1, <4>1
    <3>2. CASE x # 1
      <4>1. x - 1 \in 1..m /\ i + 1 + (x - 1) - 1 = i + x - 1
        BY <2>10, <3>2
      <4>2. g[x - 1] = P[i + 1 + (x - 1) - 1]
        BY <2>11, <4>1
      <4> QED BY <3>2, <4>1, <4>2
    <3> QED BY <3>1, <3>2
  <2>14. Rest(i) = [x \in 1..(m + 1) |-> P[i + x - 1]]
    BY <2>10
  <2> HIDE DEF m, Rest
  <2>15. F[pos] = [x \in 1..(m + 1) |-> IF x = 1 THEN P[i] ELSE g[x - 1]]
    BY <2>7, <2>9, <2>12 DEF g
  <2> QED BY <2>13, <2>14, <2>15
<1> DEFINE S == {k \in Nat : k <= n => Right(n - k)}
<1>6. 0 \in S
  <2>1. n - 0 = n
    OBVIOUS
  <2> HIDE DEF Right
  <2> QED BY <1>4, <2>1
<1>7. ASSUME NEW k \in Nat, k \in S PROVE k + 1 \in S
  <2> HIDE DEF Right
  <2>1. CASE k + 1 <= n
    <3>1. n - (k + 1) \in 0..(n - 1) /\ n - (k + 1) + 1 = n - k /\ k <= n
      BY <2>1
    <3>2. Right(n - k)
      BY <1>7, <3>1
    <3>3. Right(n - (k + 1))
      BY <1>5, <3>1, <3>2
    <3> QED BY <3>3
  <2>2. CASE ~(k + 1 <= n)
    BY <2>2
  <2> QED BY <2>1, <2>2
<1>8. n \in S
  <2> HIDE DEF S
  <2> QED BY <1>6, <1>7, Induction
<1>9. Right(0)
  <2> HIDE DEF Right
  <2>1. n - n = 0 /\ n <= n
    OBVIOUS
  <2> QED BY <1>8, <2>1
<1>10. F[0] = Rest(0)
  <2>1. Before(0, 0) /\ 0 \in Nat
    BY <1>1
  <2> HIDE DEF Before, Rest
  <2> QED BY <1>9, <2>1
<1>11. \A x \in 1..n : 0 + x - 1 = x - 1
  OBVIOUS
<1>12. n - 0 = n
  OBVIOUS
<1> QED BY <1>10, <1>11, <1>12

Parts(es) == [i \in DOMAIN es |-> Part(es[i])]

\* A multipart body: `G' are the texts up to the end of each part.
InBody(es, G, body) ==
  /\ IsFlat(Parts(es), G)
  /\ body = FormBody("multipart", es) /\ body \in Text
  /\ G \in [0..Len(es) -> Text] /\ G[0] = <<>>
  /\ body = G[Len(es)] \o LastBoundaryLine(Boundary)
  /\ \A i \in 1..Len(es) :
       /\ Entry(es[i]) /\ Part(es[i]) \in Text
       /\ Len(G[i]) = Len(G[i - 1]) + Len(Part(es[i]))
       /\ \E r \in Text : Within(body, G[i - 1], Part(es[i]), r)

\* A multipart body is such a concatenation.
LEMMA BodyParts ==
  ASSUME NEW es, Entered(es)
  PROVE  \E G : InBody(es, G, FormBody("multipart", es))
<1> DEFINE n == Len(es)
           seqs == Parts(es)
           body == FormBody("multipart", es)
           last == LastBoundaryLine(Boundary)
<1>1. n \in Nat /\ DOMAIN es = 1..n /\ es \in Seq(FormFieldData) /\ \A i \in 1..n : Entry(es[i])
  BY DEF Entered
<1>2. \A i \in 1..n : seqs[i] = Part(es[i]) /\ Part(es[i]) \in Text
  <2>1. \A i \in 1..n : es[i] \in FormFieldData
    BY <1>1
  <2> QED BY <1>1, <2>1, PartType DEF Parts
<1>3. seqs \in Seq(Text) /\ Len(seqs) = n
  <2>1. seqs = [i \in 1..n |-> Part(es[i])]
    BY <1>1 DEF Parts
  <2> QED BY <1>1, <1>2, <2>1
<1>4. body = FlattenSeq(seqs) \o last
  BY DEF FormBody, Parts
<1>5. last \in Text
  BY MarkShape
<1>6. PICK G : IsFlat(seqs, G)
  BY <1>3, FlatSolved
<1> HIDE DEF last, seqs, body
<1>7. G \in [0..n -> Text] /\ G[0] = <<>> /\ FlattenSeq(seqs) = G[n]
  BY <1>3, <1>6 DEF IsFlat
<1>8. ASSUME NEW i \in 1..n
      PROVE  /\ Len(G[i]) = Len(G[i - 1]) + Len(Part(es[i]))
             /\ \E r \in Text : Within(body, G[i - 1], Part(es[i]), r)
  <2>1. i \in 1..Len(seqs)
    BY <1>3
  <2>2. /\ G[i - 1] \in Text /\ seqs[i] \in Text
        /\ Len(G[i]) = Len(G[i - 1]) + Len(seqs[i])
        /\ \E r \in Text : FlattenSeq(seqs) = G[i - 1] \o seqs[i] \o r
    BY <1>3, <1>6, <2>1, FlatAt
  <2>3. PICK r \in Text : FlattenSeq(seqs) = G[i - 1] \o seqs[i] \o r
    BY <2>2
  <2> DEFINE g == G[i - 1] \o seqs[i]
  <2>4. g \in Text
    BY <2>2, TextConcat
  <2> HIDE DEF g
  <2>5. (g \o r) \o last = g \o (r \o last)
    <3>1. g \in Text /\ r \in Text /\ last \in Text
      BY <1>5, <2>4
    <3>2. Associated(g, r, last)
      BY ONLY <3>1, TextAssociative
    <3> QED BY ONLY <3>2 DEF Associated
  <2>6. body = g \o (r \o last)
    BY <1>4, <2>3, <2>5 DEF g
  <2>7. r \o last \in Text
    BY <1>5, TextConcat
  <2> DEFINE r2 == r \o last
  <2> HIDE DEF r2
  <2>8. Within(body, G[i - 1], seqs[i], r2)
    BY <2>6 DEF Within, g, r2
  <2> QED BY <1>2, <2>2, <2>7, <2>8 DEF r2
<1>9. body \in Text
  BY <1>4, <1>5, <1>7, TextConcat
<1>10. body = G[Len(es)] \o LastBoundaryLine(Boundary)
  BY <1>4, <1>7 DEF last
<1> QED BY <1>1, <1>2, <1>6, <1>7, <1>8, <1>9, <1>10 DEF InBody, seqs, body

\* Up to its last line, a mark stands in it where a part begins or where all end.
LEMMA MarkPlaces ==
  ASSUME NEW es, es \in Seq(FormFieldData), NEW G, NEW body, InBody(es, G, body)
  PROVE  \A q \in Nat : q <= Len(G[Len(es)]) /\ Stands(body, Mark, q) => \E i \in 0..Len(es) : q = Len(G[i])
<1> DEFINE n == Len(es)
           Found(q, k) == \E i \in 0..k : q = Len(G[i])
<1>1. n \in Nat /\ G \in [0..n -> Text] /\ G[0] = <<>>
  BY DEF InBody
<1>2. \A i \in 0..n : Len(G[i]) \in Nat
  BY <1>1 DEF Text
<1> SUFFICES ASSUME NEW q \in Nat, q <= Len(G[n]), Stands(body, Mark, q) PROVE Found(q, n)
  OBVIOUS
<1> DEFINE S == {k \in Nat : k <= n /\ q <= Len(G[k]) => Found(q, k)}
<1>3. 0 \in S
  <2>1. Len(G[0]) = 0
    BY <1>1
  <2>2. q <= Len(G[0]) => q = Len(G[0])
    BY <2>1
  <2> QED BY <2>2
<1>4. ASSUME NEW k \in Nat, k \in S PROVE k + 1 \in S
  <2> SUFFICES ASSUME k + 1 <= n, q <= Len(G[k + 1]) PROVE Found(q, k + 1)
    OBVIOUS
  <2>1. k + 1 \in 1..n /\ (k + 1) - 1 = k /\ k \in 0..n /\ k <= n /\ k + 1 \in 0..(k + 1)
    BY <1>1
  <2>2. CASE q <= Len(G[k])
    <3>1. Found(q, k)
      BY <1>4, <2>1, <2>2
    <3> QED BY <3>1
  <2>3. CASE q = Len(G[k + 1])
    BY <2>1, <2>3
  <2>4. CASE Len(G[k]) < q /\ q < Len(G[k + 1])
    <3> DEFINE e == es[k + 1]
               t == G[k]
    <3>1. Entry(e) /\ Len(G[k + 1]) = Len(t) + Len(Part(e)) /\ \E r \in Text : Within(body, t, Part(e), r)
      BY <2>1 DEF InBody
    <3>2. PICK r \in Text : Within(body, t, Part(e), r)
      BY <3>1
    <3>3. t \in Text /\ Len(t) < q /\ q < Len(t) + Len(Part(e))
      BY <1>1, <2>1, <2>4, <3>1
    <3> HIDE DEF e, t, Found
    <3>4. ~Stands(body, Mark, q)
      BY <3>1, <3>2, <3>3, NoMarkInside
    <3> QED BY <3>4
  <2>5. Len(G[k]) \in Nat /\ Len(G[k + 1]) \in Nat
    BY <1>2, <2>1
  <2> HIDE DEF Found
  <2> QED BY <2>2, <2>3, <2>4, <2>5
<1> HIDE DEF S
<1>5. n \in S
  BY <1>1, <1>3, <1>4, Induction
<1>6. n <= n
  BY <1>1
<1> QED BY <1>5, <1>6 DEF S

\* What begins with a text stands where that does.
LEMMA StandsLonger ==
  ASSUME NEW s \in Text, NEW u \in Text, NEW v \in Text, NEW d, d = u \o v, NEW q \in Nat
  PROVE  Stands(s, d, q) <=> Stands(s, u, q) /\ Stands(s, v, q + Len(u))
<1>1. u \o v \in Text /\ Len(u \o v) = Len(u) + Len(v) /\ Len(u) \in Nat /\ Len(v) \in Nat
      /\ (\A k \in 1..Len(u) : (u \o v)[k] = u[k]) /\ \A k \in 1..Len(v) : (u \o v)[Len(u) + k] = v[k]
  BY ConcatAt
<1>2. d \in Text /\ Len(d) = Len(u) + Len(v)
      /\ (\A k \in 1..Len(u) : d[k] = u[k]) /\ \A k \in 1..Len(v) : d[Len(u) + k] = v[k]
  BY <1>1
<1>3. Stands(s, d, q) <=> q + Len(d) <= Len(s) /\ \A k \in 1..Len(d) : s[q + k] = d[k]
  BY <1>2, StandsAt
<1>4. Stands(s, u, q) <=> q + Len(u) <= Len(s) /\ \A k \in 1..Len(u) : s[q + k] = u[k]
  BY StandsAt
<1>5. Stands(s, v, q + Len(u)) <=> q + Len(u) + Len(v) <= Len(s) /\ \A k \in 1..Len(v) : s[q + Len(u) + k] = v[k]
  <2>1. q + Len(u) \in Nat
    BY <1>1
  <2> QED BY <2>1, StandsAt
<1>6. Len(s) \in Nat
  BY DEF Text
<1>7. ASSUME Stands(s, d, q) PROVE Stands(s, u, q) /\ Stands(s, v, q + Len(u))
  <2>1. \A k \in 1..Len(u) : k \in 1..Len(d)
    BY <1>1, <1>2
  <2>2. \A k \in 1..Len(v) : Len(u) + k \in 1..Len(d) /\ q + (Len(u) + k) = q + Len(u) + k
    BY <1>1, <1>2
  <2>3. q + Len(d) <= Len(s) /\ \A k \in 1..Len(d) : s[q + k] = d[k]
    BY <1>3, <1>7
  <2>4. \A k \in 1..Len(u) : s[q + k] = u[k]
    BY <1>2, <2>1, <2>3
  <2>5. \A k \in 1..Len(v) : s[q + Len(u) + k] = v[k]
    BY <1>2, <2>2, <2>3
  <2>6. q + Len(u) <= Len(s) /\ q + Len(u) + Len(v) <= Len(s)
    BY <1>1, <1>2, <1>6, <2>3
  <2> QED BY <1>4, <1>5, <2>4, <2>5, <2>6
<1>8. ASSUME Stands(s, u, q), Stands(s, v, q + Len(u)) PROVE Stands(s, d, q)
  <2>1. q + Len(d) <= Len(s)
    BY <1>1, <1>2, <1>5, <1>6, <1>8
  <2>2. ASSUME NEW k \in 1..Len(d) PROVE s[q + k] = d[k]
    <3>1. CASE k <= Len(u)
      <4>1. k \in 1..Len(u)
        BY <1>1, <3>1
      <4> QED BY <1>2, <1>4, <1>8, <4>1
    <3>2. CASE ~(k <= Len(u))
      <4> DEFINE l == k - Len(u)
      <4>1. l \in 1..Len(v) /\ k = Len(u) + l /\ q + Len(u) + l = q + k
        BY <1>1, <1>2, <3>2
      <4> HIDE DEF l
      <4> QED BY <1>2, <1>5, <1>8, <4>1
    <3> QED BY <3>1, <3>2
  <2> QED BY <1>3, <2>1, <2>2
<1> QED BY <1>7, <1>8

\* A text that another one begins with stands where that does.
LEMMA BodyPart ==
  ASSUME NEW es, es \in Seq(FormFieldData), NEW G, NEW body, InBody(es, G, body), NEW i \in 1..Len(es)
  PROVE  LET line == BoundaryLine(Boundary)
         IN  /\ Len(G[i - 1]) \in Nat /\ Len(G[i]) = Len(G[i - 1]) + Len(line) + Len(Enclosed(es[i]))
             /\ Enclosed(es[i]) \in Text /\ Enclosed(es[i]) # <<>>
             /\ Stands(body, line, Len(G[i - 1]))
             /\ SubSeq(body, Len(G[i - 1]) + Len(line) + 1, Len(G[i])) = Enclosed(es[i])
<1> DEFINE line == BoundaryLine(Boundary)
           E == Enclosed(es[i])
           P == Part(es[i])
           t == G[i - 1]
<1>1. Entry(es[i]) /\ P \in Text /\ Len(G[i]) = Len(t) + Len(P) /\ \E r \in Text : Within(body, t, P, r)
  BY DEF InBody
<1>2. PICK r \in Text : Within(body, t, P, r)
  BY <1>1
<1>3. t \in Text
  <2>1. i - 1 \in 0..Len(es)
    OBVIOUS
  <2> QED BY <2>1 DEF InBody
<1>4. line \in Text /\ Len(line) \in Nat
  BY MarkShape
<1>5. E \in Text /\ Len(E) \in Nat \ {0}
  BY <1>1, EnclosedEnds
<1>6. P = line \o E
  BY DEF Part
<1> HIDE DEF line, E, P, t
<1>7. Len(line \o E) = Len(line) + Len(E) /\ \A k \in 1..Len(line) : (line \o E)[k] = line[k]
  BY <1>4, <1>5, ConcatAt
<1>8. body \in Text /\ Len(body) = Len(t) + Len(P) + Len(r) /\ Len(t) \in Nat /\ Len(r) \in Nat
      /\ \A k \in 1..Len(P) : body[Len(t) + k] = P[k]
  BY <1>1, <1>2, <1>3, WithinAt
<1>9. Stands(body, line, Len(t))
  <2>1. \A k \in 1..Len(line) : k \in 1..Len(P) /\ P[k] = line[k]
    BY <1>4, <1>5, <1>6, <1>7
  <2>2. \A k \in 1..Len(line) : body[Len(t) + k] = line[k]
    BY <1>8, <2>1
  <2>3. Len(t) + Len(line) <= Len(body)
    BY <1>4, <1>5, <1>6, <1>7, <1>8
  <2> QED BY <1>4, <1>8, <2>2, <2>3, StandsAt
<1>10. SubSeq(body, Len(t) + Len(line) + 1, Len(G[i])) = E
  <2> DEFINE tl == t \o line
  <2>1. tl \in Text /\ Len(tl) = Len(t) + Len(line)
    BY <1>3, <1>4, ConcatAt
  <2>2. (t \o line) \o E = t \o (line \o E)
    <3>1. t \in Text /\ line \in Text /\ E \in Text
      BY <1>3, <1>4, <1>5
    <3>2. Associated(t, line, E)
      BY ONLY <3>1, TextAssociative
    <3> QED BY ONLY <3>2 DEF Associated
  <2>3. body = (t \o P) \o r
    BY <1>2 DEF Within
  <2>4. body = ((t \o line) \o E) \o r
    BY <1>6, <2>2, <2>3
  <2>5. body = (tl \o E) \o r
    BY <2>4
  <2> HIDE DEF tl
  <2>6. SubSeq(tl \o E \o r, Len(tl) + 1, Len(tl) + Len(E)) = E
    BY <1>5, <2>1, Middle
  <2>7. Len(G[i]) = Len(tl) + Len(E)
    BY <1>1, <1>4, <1>5, <1>6, <1>7, <1>8, <2>1
  <2> QED BY <2>1, <2>5, <2>6, <2>7
<1>11. E # <<>>
  BY <1>5
<1>12. Len(G[i]) = Len(t) + Len(line) + Len(E)
  BY <1>1, <1>4, <1>5, <1>6, <1>7, <1>8
<1> QED BY <1>5, <1>8, <1>9, <1>10, <1>11, <1>12 DEF line, E, t

Ends(es, G) == [i \in 0..Len(es) |-> Len(G[i])]

\* The boundary lines of a body stand before its parts only, the last one
\* behind them only.
LEMMA LinePlaces ==
  ASSUME NEW es, es \in Seq(FormFieldData), NEW G, NEW body, InBody(es, G, body)
  PROVE  /\ StandsOnly(body, BoundaryLine(Boundary), Len(es), Ends(es, G))
         /\ \A q \in Nat : q <= Len(G[Len(es)]) => Find(body, LastBoundaryLine(Boundary), q) = Len(G[Len(es)])
         /\ Len(G[Len(es)]) \in Nat
<1> DEFINE n == Len(es)
           P == Ends(es, G)
           line == BoundaryLine(Boundary)
           last == LastBoundaryLine(Boundary)
           c == <<CR, LF>>
           a == <<Dash, Dash>>
           m == Len(Mark)
           z == Len(G[n])
<1>1. n \in Nat /\ G \in [0..n -> Text] /\ G[0] = <<>> /\ body \in Text /\ body = G[n] \o last
  BY DEF InBody
<1>2. \A i \in 0..n : G[i] \in Text /\ Len(G[i]) \in Nat /\ P[i] = Len(G[i])
  <2>1. \A i \in 0..n : G[i] \in Text
    BY <1>1
  <2>2. \A i \in 0..n : Len(G[i]) \in Nat
    BY <2>1 DEF Text
  <2>3. \A i \in 0..n : P[i] = Len(G[i])
    BY DEF Ends
  <2> QED BY <2>1, <2>2, <2>3
<1>3. /\ Mark \in Text /\ m \in Nat \ {0} /\ line \in Text /\ last \in Text
      /\ line = Mark \o c /\ last = Mark \o a /\ Len(line) = m + 2 /\ Len(last) = m + 2
  BY MarkShape
<1>m. m \in Nat \ {0} /\ Len(line) = m + 2 /\ Len(last) = m + 2
  BY <1>3
<1>4. a \in Text /\ c \in Text /\ Len(a) = 2 /\ Len(c) = 2 /\ a[1] = Dash /\ c[1] = CR /\ Dash # CR
  BY Literals, TextConcat DEF Dash, CR
<1> HIDE DEF line, last, c, a
<1>5. P \in [0..n -> Nat] /\ P[0] = 0 /\ n \in 0..n
  <2>1. Len(G[0]) = 0 /\ 0 \in 0..n
    BY <1>1
  <2>2. P = [i \in 0..n |-> Len(G[i])]
    BY DEF Ends
  <2> HIDE DEF P
  <2> QED BY <1>1, <1>2, <2>1, <2>2
<1> HIDE DEF P
<1>6. z \in Nat /\ P[n] = z
  BY <1>2, <1>5
<1>7. Len(body) = z + m + 2
  <2>1. G[n] \in Text
    BY <1>2, <1>5
  <2>2. Len(G[n] \o last) = Len(G[n]) + Len(last)
    BY <1>3, <2>1, ConcatAt
  <2> QED BY <1>1, <1>3, <1>6, <2>2
<1>8. \A q \in Nat : Stands(body, line, q) <=> Stands(body, Mark, q) /\ Stands(body, c, q + m)
  BY <1>1, <1>3, <1>4, StandsLonger
<1>9. \A q \in Nat : Stands(body, last, q) <=> Stands(body, Mark, q) /\ Stands(body, a, q + m)
  BY <1>1, <1>3, <1>4, StandsLonger
<1>10. ASSUME NEW q \in Nat, Stands(body, c, q + m), Stands(body, a, q + m) PROVE FALSE
  <2> DEFINE p == q + m
  <2>1. p \in Nat /\ 1 \in 1..Len(a) /\ 1 \in 1..Len(c)
    BY <1>m, <1>4
  <2>4. body \in Text /\ Stands(body, c, p) /\ Stands(body, a, p) /\ a \in Text /\ c \in Text
    BY <1>1, <1>4, <1>10
  <2> HIDE DEF p
  <2>2. body[p + 1] = c[1]
    BY ONLY <2>1, <2>4, StandsAt
  <2>3. body[p + 1] = a[1]
    BY ONLY <2>1, <2>4, StandsAt
  <2> QED BY <1>4, <2>2, <2>3
<1>11. Stands(body, last, z)
  <2>1. G[n] \in Text
    BY <1>2, <1>5
  <2>2. \A k \in 1..Len(last) : (G[n] \o last)[Len(G[n]) + k] = last[k]
    BY <1>3, <2>1, ConcatAt
  <2>3. \A k \in 1..Len(last) : body[z + k] = last[k]
    BY <1>1, <2>2
  <2>4. z + Len(last) <= Len(body)
    <3> HIDE DEF z, m
    <3> QED BY <1>m, <1>6, <1>7
  <2> QED BY <1>1, <1>3, <1>6, <2>3, <2>4, StandsAt
<1>12. ASSUME NEW i \in 0..(n - 1)
       PROVE  /\ Stands(body, line, P[i])
              /\ P[i] + Len(line) <= P[i + 1]
  <2>1. i + 1 \in 1..n /\ (i + 1) - 1 = i /\ i \in 0..n /\ i + 1 \in 0..n
    BY <1>1
  <2> DEFINE j == i + 1
  <2>2. j \in 1..Len(es)
    BY <2>1
  <2> HIDE DEF j
  <2>3. Stands(body, line, Len(G[j - 1])) /\ Len(G[j]) = Len(G[j - 1]) + Len(line) + Len(Enclosed(es[j]))
        /\ Enclosed(es[j]) \in Text
    BY <2>2, BodyPart DEF line
  <2>4. Len(Enclosed(es[j])) \in Nat
    BY <2>3 DEF Text
  <2>5. P[i] = Len(G[i]) /\ P[i + 1] = Len(G[i + 1]) /\ Len(G[i]) \in Nat
    BY <1>2, <2>1
  <2>6. Len(G[j - 1]) = P[i] /\ Len(G[j]) = P[i + 1]
    BY <2>1, <2>5 DEF j
  <2>7. Stands(body, line, P[i]) /\ P[i + 1] = P[i] + Len(line) + Len(Enclosed(es[j]))
    BY <2>3, <2>6
  <2> DEFINE x == P[i]
             y == P[i + 1]
             l == Len(line)
             inside == Len(Enclosed(es[j]))
  <2>8. x \in Nat /\ l \in Nat /\ inside \in Nat /\ y = x + l + inside
    BY <1>m, <2>4, <2>5, <2>7
  <2> HIDE DEF x, y, l, inside
  <2>9. x + l <= y
    BY <2>8
  <2> QED BY <2>7, <2>9 DEF x, y, l
<1>13. \A q \in Nat : q <= z /\ Stands(body, Mark, q) => \E i \in 0..n : q = P[i]
  <2>1. \A q \in Nat : q <= z /\ Stands(body, Mark, q) => \E i \in 0..n : q = Len(G[i])
    BY MarkPlaces
  <2> QED BY <1>2, <2>1
<1>14. ASSUME NEW q \in Nat PROVE Stands(body, line, q) <=> \E i \in 0..(n - 1) : q = P[i]
  <2>1. ASSUME Stands(body, line, q) PROVE \E i \in 0..(n - 1) : q = P[i]
    <3>1. Stands(body, Mark, q) /\ Stands(body, c, q + m)
      BY <1>8, <2>1
    <3>2. q <= z
      BY <1>3, <1>6, <1>7, <2>1 DEF Stands
    <3>3. PICK i \in 0..n : q = P[i]
      BY <1>13, <3>1, <3>2
    <3>4. CASE i = n
      <4>1. Stands(body, last, q)
        BY <1>6, <1>11, <3>3, <3>4
      <4>2. Stands(body, a, q + m)
        BY <1>9, <4>1
      <4> QED BY <1>10, <3>1, <4>2
    <3>5. CASE i # n
      <4>1. i \in 0..(n - 1)
        BY <1>1, <3>5
      <4> QED BY <3>3, <4>1
    <3> QED BY <3>4, <3>5
  <2> QED BY <1>12, <2>1
<1>15. ASSUME NEW q \in Nat, Stands(body, last, q) PROVE q = z
  <2>1. Stands(body, Mark, q) /\ Stands(body, a, q + m)
    BY <1>9, <1>15
  <2>2. q <= z
    BY <1>3, <1>6, <1>7, <1>15 DEF Stands
  <2>3. PICK i \in 0..n : q = P[i]
    BY <1>13, <2>1, <2>2
  <2>4. CASE i = n
    BY <1>6, <2>3, <2>4
  <2>5. CASE i # n
    <3>1. i \in 0..(n - 1)
      BY <1>1, <2>5
    <3>2. Stands(body, line, q)
      BY <1>12, <2>3, <3>1
    <3>3. Stands(body, c, q + m)
      BY <1>8, <3>2
    <3> QED BY <1>10, <2>1, <3>3
  <2> QED BY <2>4, <2>5
<1>16. \A q \in Nat : q <= z => Find(body, last, q) = z
  <2> SUFFICES ASSUME NEW q \in Nat, q <= z PROVE Find(body, last, q) = z
    OBVIOUS
  <2>1. \A p \in Nat : p >= q /\ p < z => ~Stands(body, last, p)
    <3> SUFFICES ASSUME NEW p \in Nat, p < z, Stands(body, last, p) PROVE FALSE
      OBVIOUS
    <3>1. p = z
      BY <1>15
    <3> QED BY <1>6, <3>1
  <2> HIDE DEF z
  <2> QED BY <1>1, <1>3, <1>6, <1>11, <2>1, FindIs
<1>17. \A i, j \in 0..n : i < j => P[i] + Len(line) <= P[j]
  <2> DEFINE S == {k \in Nat : k <= n => \A i \in 0..n : i < k => P[i] + Len(line) <= P[k]}
  <2>1. 0 \in S
    OBVIOUS
  <2>2. ASSUME NEW k \in Nat, k \in S PROVE k + 1 \in S
    <3> SUFFICES ASSUME k + 1 <= n, NEW i \in 0..n, i < k + 1 PROVE P[i] + Len(line) <= P[k + 1]
      OBVIOUS
    <3>1. k \in 0..(n - 1) /\ k + 1 \in 0..n /\ k \in 0..n
      BY <1>1
    <3>2. P[k] + Len(line) <= P[k + 1] /\ P[k] \in Nat /\ P[k + 1] \in Nat /\ P[i] \in Nat
      BY <1>5, <1>12, <3>1
    <3>3. CASE i = k
      BY <3>2, <3>3
    <3>4. CASE i < k
      <4>1. P[i] + Len(line) <= P[k]
        BY <1>1, <2>2, <3>1, <3>4
      <4> QED BY <1>3, <3>2, <4>1
    <3> QED BY <3>3, <3>4
  <2> HIDE DEF S
  <2>3. \A k \in Nat : k \in S
    BY <2>1, <2>2, Induction
  <2> QED BY <1>1, <2>3 DEF S
<1>18. P[n] <= Len(body)
  BY <1>3, <1>6, <1>7
<1>19. StandsOnly(body, line, n, P)
  BY <1>5, <1>14, <1>17, <1>18 DEF StandsOnly
<1> QED BY <1>6, <1>16, <1>19 DEF line, last, P

\* The boundary lines that are found are those that were written.
LEMMA StartsFound ==
  ASSUME NEW es, es \in Seq(FormFieldData), NEW G, NEW body, InBody(es, G, body)
  PROVE  LET n == Len(es)
             starts == BoundaryStarts(body, Boundary)
         IN  IF n = 0 THEN starts = <<>>
             ELSE Len(starts) = n + 1 /\ \A i \in 1..(n + 1) : starts[i] = Len(G[i - 1])
<1> DEFINE n == Len(es)
           P == Ends(es, G)
           line == BoundaryLine(Boundary)
           last == LastBoundaryLine(Boundary)
           z == Len(G[n])
           starts == BoundaryStarts(body, Boundary)
<1>1. n \in Nat /\ body \in Text /\ Boundary \in Text
  BY TextsAssumption DEF InBody
<1>2. StandsOnly(body, line, n, P) /\ z \in Nat /\ \A q \in Nat : q <= z => Find(body, last, q) = z
  BY LinePlaces
<1>3. PICK F : /\ IsStarts(body, line, F)
               /\ starts = LET end == IF F[0] = <<>> THEN Npos ELSE Find(body, last, Last(F[0]))
                           IN  IF end = Npos THEN <<>> ELSE Append(F[0], end)
  BY <1>1, StartsSolved
<1>4. line \in Text /\ line # <<>>
  <2>1. line \in Text /\ Len(Mark) \in Nat /\ Len(line) = Len(Mark) + 2
    BY MarkShape
  <2>2. Len(line) # 0
    BY <2>1
  <2> QED BY <2>1, <2>2
<1>5. \A i \in 0..n : P[i] = Len(G[i]) /\ P[i] \in Nat
  <2>1. \A i \in 0..n : P[i] = Len(G[i])
    BY DEF Ends
  <2>2. P \in [0..n -> Nat]
    BY <1>2 DEF StandsOnly
  <2> HIDE DEF P
  <2> QED BY <2>1, <2>2
<1> HIDE DEF P, line, last, starts
<1>6. F[0] = [x \in 1..n |-> P[x - 1]]
  BY <1>1, <1>2, <1>3, <1>4, StartsMarked
<1>7. F[0] \in Seq(Nat) /\ Len(F[0]) = n
  <2>1. \A x \in 1..n : P[x - 1] \in Nat
    BY <1>1, <1>5
  <2> QED BY <1>1, <1>6, <2>1
<1>8. CASE n = 0
  <2>1. F[0] = <<>>
    BY <1>7, <1>8
  <2> QED BY <1>3, <1>8, <2>1 DEF starts
<1>9. CASE n # 0
  <2>1. F[0] # <<>> /\ Last(F[0]) = F[0][n]
    BY <1>7, <1>9 DEF Last
  <2>2. Last(F[0]) = P[n - 1] /\ n - 1 \in 0..n /\ n \in 0..n
    BY <1>1, <1>6, <1>9, <2>1
  <2>3. P[n - 1] \in Nat /\ P[n - 1] <= z
    <3>1. n - 1 < n
      BY <1>1
    <3>2. P[n - 1] + Len(line) <= P[n] /\ P[n] = z
      BY <1>2, <1>5, <2>2, <3>1 DEF StandsOnly
    <3>3. Len(line) \in Nat
      BY <1>4 DEF Text
    <3> HIDE DEF z
    <3> QED BY <1>2, <1>5, <2>2, <3>2, <3>3
  <2>4. Find(body, last, Last(F[0])) = z
    BY <1>2, <2>2, <2>3
  <2>5. z # Npos
    BY <1>2 DEF Npos
  <2>6. starts = Append(F[0], z)
    BY <1>3, <2>1, <2>4, <2>5
  <2>7. ASSUME NEW i \in 1..(n + 1) PROVE Append(F[0], z)[i] = Len(G[i - 1])
    <3>1. CASE i = n + 1
      <4>1. Append(F[0], z)[n + 1] = z /\ (n + 1) - 1 = n
        BY <1>1, <1>2, <1>7
      <4> QED BY <3>1, <4>1
    <3>2. CASE i # n + 1
      <4>1. i \in 1..n /\ i - 1 \in 0..n
        BY <1>1, <3>2
      <4>2. Append(F[0], z)[i] = F[0][i]
        BY <1>2, <1>7, <4>1
      <4> QED BY <1>5, <1>6, <4>1, <4>2
    <3> QED BY <3>1, <3>2
  <2>8. Len(Append(F[0], z)) = n + 1
    BY <1>2, <1>7
  <2> QED BY <1>9, <2>6, <2>7, <2>8 DEF starts
<1> QED BY <1>8, <1>9

\* What is between them are the entries as they were enclosed.
LEMMA PartsFound ==
  ASSUME NEW es, Entered(es)
  PROVE  ParseParts(FormBody("multipart", es), Boundary) = [i \in 1..Len(es) |-> ParsePart(Enclosed(es[i]))]
<1> DEFINE n == Len(es)
           body == FormBody("multipart", es)
           starts == BoundaryStarts(body, Boundary)
           line == BoundaryLine(Boundary)
           raw == [i \in 1..(Len(starts) - 1) |-> SubSeq(body, starts[i] + Len(line) + 1, starts[i + 1])]
           full == Subsequence(raw, {i \in DOMAIN raw : raw[i] # <<>>})
<1>1. n \in Nat /\ es \in Seq(FormFieldData)
  BY DEF Entered
<1>2. PICK G : InBody(es, G, body)
  BY BodyParts
<1>3. IF n = 0 THEN starts = <<>>
      ELSE Len(starts) = n + 1 /\ \A i \in 1..(n + 1) : starts[i] = Len(G[i - 1])
  <2> HIDE DEF body
  <2> QED BY <1>1, <1>2, StartsFound
<1>4. ParseParts(body, Boundary) = [i \in DOMAIN full |-> ParsePart(full[i])]
  BY BoundaryAssumption DEF ParseParts
<1> HIDE DEF body, starts, line
<1>5. 1..(Len(starts) - 1) = 1..n
  <2>1. CASE n = 0
    <3>1. Len(starts) = 0
      BY <1>3, <2>1
    <3> QED BY <2>1, <3>1
  <2>2. CASE n # 0
    BY <1>1, <1>3, <2>2
  <2> QED BY <2>1, <2>2
<1>6. ASSUME NEW i \in 1..n
      PROVE  /\ raw[i] = Enclosed(es[i])
             /\ Enclosed(es[i]) \in Text /\ Enclosed(es[i]) # <<>>
  <2>1. i \in 1..Len(es)
    OBVIOUS
  <2>2. Enclosed(es[i]) \in Text /\ Enclosed(es[i]) # <<>>
        /\ SubSeq(body, Len(G[i - 1]) + Len(line) + 1, Len(G[i])) = Enclosed(es[i])
    BY <1>1, <1>2, BodyPart DEF line
  <2>3. i \in 1..(n + 1) /\ i + 1 \in 1..(n + 1) /\ (i + 1) - 1 = i /\ n # 0
    BY <1>1
  <2>4. starts[i] = Len(G[i - 1]) /\ starts[i + 1] = Len(G[i])
    BY <1>3, <2>3
  <2>5. raw[i] = SubSeq(body, starts[i] + Len(line) + 1, starts[i + 1])
    BY <1>5
  <2> QED BY <2>2, <2>4, <2>5
<1>7. DOMAIN raw = 1..n
  BY <1>5
<1>8. raw = [i \in 1..n |-> raw[i]]
  BY <1>5
<1> HIDE DEF raw
<1>9. raw \in Seq(Text)
  BY <1>1, <1>6, <1>8
<1>10. {i \in DOMAIN raw : raw[i] # <<>>} = DOMAIN raw
  BY <1>6, <1>7
<1>11. full = raw
  BY <1>9, <1>10, SubsequenceAll
<1> QED BY <1>4, <1>6, <1>7, <1>11 DEF body

\* Nor does it make a difference with lists.
LEMMA ListsAssociative ==
  ASSUME NEW S, NEW u \in Seq(S), NEW v \in Seq(S), NEW w \in Seq(S)
  PROVE  Associated(u, v, w)
  BY DEF Associated

\* split() returns such a piece, and goes on behind its delimiter.
LEMMA SplitNext ==
  ASSUME NEW s \in Text, NEW d \in Text, d # <<>>, NEW F, IsSplit(s, d, F),
         NEW t \in Text, NEW u \in Text, NEW r \in Text, r # <<>>, InPieces(s, t, u, d, r),
         Avoids(u, d[1]), Len(t) + Len(u) # 0
  PROVE  /\ F[Len(t)] = <<u>> \o F[Len(t) + Len(u) + Len(d)]
         /\ F[Len(t) + Len(u) + Len(d)] \in Seq(Text)
<1> DEFINE b == Len(t)
           e == Len(t) + Len(u)
           w == u \o d
<1>1. Len(t) + Len(u) + Len(d) <= Len(s) /\ SubSeq(s, Len(t) + 1, Len(t) + Len(u)) = u /\ Stands(s, d, Len(t) + Len(u))
  BY PieceStands
<1>2. Len(t) \in Nat /\ Len(u) \in Nat /\ Len(d) \in Nat \ {0} /\ Len(r) \in Nat \ {0}
  BY DEF Text
<1>3. w \in Text /\ Len(w) = Len(u) + Len(d) /\ \A k \in 1..Len(u) : w[k] = u[k]
  BY ConcatAt
<1>4. Within(s, t, w, r)
  BY DEF InPieces, Within
<1> HIDE DEF w
<1>5. Len(s) = Len(t) + Len(w) + Len(r) /\ \A k \in 1..Len(w) : s[Len(t) + k] = w[k]
  <2>1. t \in Text /\ w \in Text /\ r \in Text
    BY <1>3
  <2> QED BY ONLY <1>4, <2>1, WithinAt
<1>6. \A p \in Nat : p >= b /\ p < e => ~Stands(s, d, p)
  <2> SUFFICES ASSUME NEW p \in Nat, p >= b, p < e, Stands(s, d, p) PROVE FALSE
    OBVIOUS
  <2>1. s[p + 1] = d[1]
    BY StandsHead
  <2> DEFINE k == p + 1 - Len(t)
  <2>2. k \in 1..Len(u) /\ k \in 1..Len(w) /\ Len(t) + k = p + 1
    BY <1>2, <1>3
  <2> HIDE DEF k
  <2>3. s[p + 1] = u[k]
    BY <1>3, <1>5, <2>2
  <2> QED BY <2>1, <2>2, <2>3 DEF Avoids
<1>7. Piece(s, d, b, e)
  <2>1. e + Len(d) < Len(s) /\ b \in Nat /\ e \in Nat \ {0} /\ b <= e
    BY <1>2, <1>3, <1>5
  <2> QED BY <1>1, <1>6, <2>1 DEF Piece
<1> HIDE DEF b, e
<1>8. F[b] = <<SubSeq(s, b + 1, e)>> \o F[e + Len(d)] /\ F[e + Len(d)] \in Seq(Text)
  BY <1>7, SplitOne
<1> QED BY <1>1, <1>8 DEF b, e

WithEnds(lines) == [i \in DOMAIN lines |-> lines[i] \o <<CR, LF>>]

\* Lines with something behind them: split() returns the lines first.
LEMMA LinesSplit ==
  ASSUME NEW q \in Seq(Text), \A i \in 1..Len(q) : Avoids(q[i], CR), q # <<>>, q[1] # <<>>,
         NEW r \in Text, r # <<>>, NEW s, s = FlattenSeq(WithEnds(q)) \o r
  PROVE  \E R \in Seq(Text) : Split(s, <<CR, LF>>) = q \o R
<1> DEFINE n == Len(q)
           d == <<CR, LF>>
           seqs == WithEnds(q)
<1>1. d \in Text /\ d # <<>> /\ d[1] = CR /\ Len(d) = 2
  BY Literals, TextConcat
<1>2. n \in Nat \ {0} /\ DOMAIN q = 1..n /\ \A i \in 1..n : q[i] \in Text
  OBVIOUS
<1>3. \A i \in 1..n : seqs[i] = q[i] \o d /\ q[i] \o d \in Text
  BY <1>1, <1>2, TextConcat DEF WithEnds
<1>4. seqs \in Seq(Text) /\ Len(seqs) = n
  <2>1. seqs = [i \in 1..n |-> seqs[i]]
    BY <1>2 DEF WithEnds
  <2>2. \A i \in 1..n : seqs[i] \in Text
    BY <1>3
  <2> HIDE DEF seqs, n
  <2>3. seqs \in [1..n -> Text]
    BY ONLY <2>1, <2>2
  <2>4. n \in Nat
    BY <1>2
  <2> QED BY ONLY <2>3, <2>4
<1> HIDE DEF seqs, d, n
<1>5. PICK G : IsFlat(seqs, G)
  BY <1>4, FlatSolved
<1>6. G[0] = <<>> /\ FlattenSeq(seqs) = G[n]
  BY <1>4, <1>5 DEF IsFlat
<1>7. ASSUME NEW i \in 1..n
      PROVE  /\ G[i - 1] \in Text
             /\ Len(G[i]) = Len(G[i - 1]) + Len(q[i]) + Len(d)
             /\ \E x \in Text : x # <<>> /\ InPieces(s, G[i - 1], q[i], d, x)
  <2>1. i \in 1..Len(seqs)
    BY <1>4
  <2>2. /\ G[i - 1] \in Text /\ seqs[i] \in Text /\ Len(G[i]) = Len(G[i - 1]) + Len(seqs[i])
        /\ \E x \in Text : FlattenSeq(seqs) = G[i - 1] \o seqs[i] \o x
    BY <1>4, <1>5, <2>1, FlatAt
  <2>3. PICK x \in Text : FlattenSeq(seqs) = G[i - 1] \o seqs[i] \o x
    BY <2>2
  <2> DEFINE g == G[i - 1] \o seqs[i]
             y == x \o r
  <2>4. g \in Text /\ y \in Text
    BY <2>2, TextConcat
  <2>5. Len(x \o r) = Len(x) + Len(r) /\ Len(x) \in Nat /\ Len(r) \in Nat
    BY ConcatAt
  <2>6. y # <<>>
    <3>1. Len(y) # 0
      <4>1. Len(r) # 0
        BY DEF Text
      <4> QED BY <2>5, <4>1
    <3> QED BY <3>1
  <2>7. Len(q[i] \o d) = Len(q[i]) + Len(d) /\ Len(q[i]) \in Nat /\ Len(d) \in Nat
    <3>1. q[i] \in Text
      BY <1>2
    <3> QED BY <1>1, <3>1, ConcatAt
  <2>8. Len(G[i - 1]) \in Nat
    BY <2>2 DEF Text
  <2>9. Len(G[i]) = Len(G[i - 1]) + Len(q[i]) + Len(d)
    <3> DEFINE z == Len(G[i])
               before == Len(G[i - 1])
               w == q[i] \o d
    <3>1. z = before + Len(w) /\ before \in Nat
      BY <1>3, <2>2, <2>8
    <3>2. Len(w) = Len(q[i]) + Len(d)
      BY <2>7
    <3> HIDE DEF z, before, w
    <3>3. z = before + Len(q[i]) + Len(d)
      BY <2>7, <3>1, <3>2
    <3> QED BY <3>3 DEF z, before
  <2> HIDE DEF g
  <2>10. (g \o x) \o r = g \o (x \o r)
    <3>1. g \in Text /\ x \in Text /\ r \in Text
      BY <2>4
    <3>2. Associated(g, x, r)
      BY ONLY <3>1, TextAssociative
    <3> QED BY ONLY <3>2 DEF Associated
  <2>11. s = g \o y
    BY <2>3, <2>10 DEF g, seqs
  <2> HIDE DEF y
  <2>12. InPieces(s, G[i - 1], q[i], d, y)
    BY <1>3, <2>11 DEF g, InPieces
  <2> QED BY <2>2, <2>4, <2>6, <2>9, <2>12
<1>8. s \in Text /\ s # <<>>
  <2>1. FlattenSeq(seqs) \in Text
    BY <1>4, FlattenType
  <2> DEFINE f == FlattenSeq(seqs)
  <2>2. s = f \o r
    BY DEF seqs
  <2> HIDE DEF f
  <2>3. f \o r \in Text /\ Len(f \o r) = Len(f) + Len(r) /\ Len(f) \in Nat /\ Len(r) \in Nat
    BY <2>1, ConcatAt DEF f
  <2>4. Len(r) # 0
    BY DEF Text
  <2>5. Len(f \o r) # 0
    BY <2>3, <2>4
  <2> QED BY <2>2, <2>3, <2>5
<1>9. PICK F : IsSplit(s, d, F)
  BY <1>1, <1>8, SplitSolved
<1>10. ASSUME NEW i \in 1..n
       PROVE  F[Len(G[i - 1])] = <<q[i]>> \o F[Len(G[i])] /\ F[Len(G[i])] \in Seq(Text)
  <2>1. PICK x \in Text : x # <<>> /\ InPieces(s, G[i - 1], q[i], d, x)
    BY <1>7
  <2> DEFINE t == G[i - 1]
             u == q[i]
  <2>2. t \in Text /\ u \in Text /\ Len(G[i]) = Len(t) + Len(u) + Len(d) /\ InPieces(s, t, u, d, x)
    BY <1>2, <1>7, <2>1
  <2>3. Avoids(u, d[1])
    BY <1>1 DEF n
  <2>4. Len(t) + Len(u) # 0
    <3>1. Len(t) \in Nat /\ Len(u) \in Nat
      BY ONLY <2>2 DEF Text
    <3>2. CASE i = 1
      <4>1. Len(u) # 0
        BY <2>2, <3>2 DEF Text
      <4> HIDE DEF t, u
      <4> QED BY <3>1, <4>1
    <3>3. CASE i # 1
      <4>1. i - 1 \in 1..n
        BY <1>2, <3>3
      <4> DEFINE j == i - 1
      <4> HIDE DEF j
      <4>2. Len(G[j]) = Len(G[j - 1]) + Len(q[j]) + Len(d) /\ G[j - 1] \in Text /\ q[j] \in Text
        BY <1>2, <1>7, <4>1 DEF j
      <4>3. Len(G[j - 1]) \in Nat /\ Len(q[j]) \in Nat
        BY ONLY <4>2 DEF Text
      <4> DEFINE b == Len(G[j - 1])
                 l == Len(q[j])
                 m == Len(d)
      <4>5. Len(G[j]) = b + l + m /\ m = 2 /\ b \in Nat /\ l \in Nat
        BY <1>1, <4>2, <4>3
      <4> HIDE DEF b, l, m
      <4>4. Len(G[j]) # 0
        BY <4>5
      <4>6. Len(t) # 0
        BY <4>4 DEF j
      <4> HIDE DEF t, u
      <4> QED BY <3>1, <4>6
    <3> QED BY <3>2, <3>3
  <2> HIDE DEF t, u
  <2>5. F[Len(t)] = <<u>> \o F[Len(t) + Len(u) + Len(d)] /\ F[Len(t) + Len(u) + Len(d)] \in Seq(Text)
    BY <1>1, <1>8, <1>9, <2>1, <2>2, <2>3, <2>4, SplitNext
  <2> QED BY <2>2, <2>5 DEF t, u
<1> DEFINE S == {k \in Nat : k <= n => /\ F[0] = SubSeq(q, 1, k) \o F[Len(G[k])]
                                       /\ F[Len(G[k])] \in Seq(Text)}
<1>11. 0 \in S
  <2>1. F[0] \in Seq(Text)
    <3>1. 0 \in 0..Len(s)
      BY <1>8 DEF Text
    <3> QED BY <1>9, <3>1 DEF IsSplit
  <2>2. Len(G[0]) = 0
    BY <1>6
  <2>3. SubSeq(q, 1, 0) = <<>>
    OBVIOUS
  <2>4. <<>> \o F[0] = F[0]
    BY <2>1
  <2> QED BY <2>1, <2>2, <2>3, <2>4
<1>12. ASSUME NEW k \in Nat, k \in S PROVE k + 1 \in S
  <2> SUFFICES ASSUME k + 1 <= n
               PROVE F[0] = SubSeq(q, 1, k + 1) \o F[Len(G[k + 1])] /\ F[Len(G[k + 1])] \in Seq(Text)
    <3>1. k + 1 \in Nat
      OBVIOUS
    <3> QED BY <3>1
  <2>1. k + 1 \in 1..n /\ (k + 1) - 1 = k /\ k <= n
    BY <1>2
  <2> DEFINE f == F[Len(G[k + 1])]
             x == q[k + 1]
             v == SubSeq(q, 1, k)
  <2>2. F[Len(G[k])] = <<x>> \o f /\ f \in Seq(Text)
    BY <1>10, <2>1
  <2>3. F[0] = v \o F[Len(G[k])]
    BY <1>12, <2>1
  <2>4. x \in Text /\ v \in Seq(Text) /\ <<x>> \in Seq(Text)
    BY <1>2, <2>1 DEF n
  <2>5. SubSeq(q, 1, k + 1) = v \o <<x>>
    BY <1>2, <2>1 DEF n
  <2> HIDE DEF f, x, v
  <2>6. v \o (<<x>> \o f) = (v \o <<x>>) \o f
    <3> DEFINE y == <<x>>
    <3>1. y \in Seq(Text)
      BY <2>4
    <3> HIDE DEF y
    <3>2. v \in Seq(Text) /\ f \in Seq(Text)
      BY <2>2, <2>4
    <3>3. Associated(v, y, f)
      BY ONLY <3>1, <3>2, ListsAssociative, Zenon
    <3> QED BY <3>3 DEF Associated, y
  <2> QED BY <2>2, <2>3, <2>5, <2>6 DEF f
<1> HIDE DEF S
<1>13. n \in S
  BY <1>2, <1>11, <1>12, Induction
<1>14. F[0] = SubSeq(q, 1, n) \o F[Len(G[n])] /\ F[Len(G[n])] \in Seq(Text)
  <2>1. n <= n
    BY <1>2
  <2> QED BY <1>13, <2>1 DEF S
<1>15. SubSeq(q, 1, n) = q
  BY DEF n
<1> QED BY <1>9, <1>14, <1>15 DEF IsSplit, d

\* The steps of parse_part(): the lines up to the first empty one, and the last
\* line that begins with a key.
UpTo(lines) ==
  LET empty == {i \in DOMAIN lines : lines[i] = <<>>}
  IN  IF empty = {} THEN lines ELSE SubSeq(lines, 1, CHOOSE i \in empty : \A j \in empty : i <= j)
HeaderOf(lines, key) ==
  LET at == {i \in DOMAIN lines : IsPrefix(<<key>>, lines[i])}
  IN  IF at = {} THEN <<>> ELSE Tail(lines[CHOOSE i \in at : \A j \in at : i >= j])

\* parse_part() does these steps.
LEMMA ParsePartSteps ==
  ASSUME NEW raw
  PROVE  ParsePart(raw) =
           LET lines == UpTo(Split(raw, <<CR, LF>>))
               counted == Len(FlattenSeq(WithEnds(lines)))
           IN  IF counted > Len(raw) THEN None
               ELSE [disposition |-> HeaderOf(lines, Disposition), type |-> HeaderOf(lines, TypeHeader),
                     content |-> Content(raw, counted)]
  BY Zenon DEF ParsePart, UpTo, HeaderOf, WithEnds

\* They end with the first empty line.
LEMMA UpToFirst ==
  ASSUME NEW q \in Seq(Text), q # <<>>, q[Len(q)] = <<>>, \A i \in 1..(Len(q) - 1) : q[i] # <<>>,
         NEW R \in Seq(Text)
  PROVE  UpTo(q \o R) = q
<1> DEFINE lines == q \o R
           n == Len(q)
           empty == {i \in DOMAIN lines : lines[i] = <<>>}
<1>1. n \in Nat \ {0} /\ Len(R) \in Nat
  OBVIOUS
<1>2. lines \in Seq(Text) /\ Len(lines) = n + Len(R) /\ \A i \in 1..n : lines[i] = q[i]
  OBVIOUS
<1>3. DOMAIN lines = 1..(n + Len(R))
  BY <1>2
<1>4. SubSeq(lines, 1, n) = q
  <2> DEFINE u == SubSeq(lines, 1, n)
  <2>1. n <= Len(lines) /\ 1 \in 1..(n + 1) /\ n \in 0..Len(lines)
    BY <1>1, <1>2
  <2> HIDE DEF lines
  <2>2. u \in Seq(Text) /\ Len(u) = n /\ \A i \in 1..n : u[i] = lines[i]
    BY <1>1, <1>2, <2>1
  <2> HIDE DEF u
  <2>3. u = q
    BY <1>1, <1>2, <2>2, SeqEqual
  <2> QED BY <2>3 DEF u
<1> HIDE DEF lines
<1>5. n \in empty
  <2>1. n \in DOMAIN lines
    BY <1>1, <1>3
  <2>2. lines[n] = <<>>
    BY <1>1, <1>2
  <2> QED BY <2>1, <2>2
<1>6. \A i \in empty : i \in Nat /\ n <= i
  <2> SUFFICES ASSUME NEW i \in DOMAIN lines, lines[i] = <<>>, ~(n <= i) PROVE FALSE
    BY <1>3
  <2>1. i \in 1..(n - 1) /\ i \in 1..n
    BY <1>1, <1>3
  <2>2. lines[i] = q[i] /\ q[i] # <<>>
    BY <1>2, <2>1
  <2> QED BY <2>2
<1> HIDE DEF empty, n
<1>7. (CHOOSE i \in empty : \A j \in empty : i <= j) = n
  <2>1. n \in empty /\ \A j \in empty : n <= j
    BY <1>5, <1>6
  <2>2. \A i \in empty : (\A j \in empty : i <= j) => i = n
    BY <1>1, <1>5, <1>6
  <2> QED BY <2>1, <2>2
<1>8. UpTo(lines) = IF empty = {} THEN lines ELSE SubSeq(lines, 1, CHOOSE i \in empty : \A j \in empty : i <= j)
  BY DEF UpTo, empty
<1>9. UpTo(lines) = SubSeq(lines, 1, n)
  BY <1>5, <1>7, <1>8
<1> QED BY <1>4, <1>9 DEF lines

\* Header lines, an empty one, a content and a line end: parse_part() counts to
\* the content and returns it without the line end.
LEMMA PartRead ==
  ASSUME NEW q \in Seq(Text), \A i \in 1..Len(q) : Avoids(q[i], CR), Len(q) > 1,
         q[Len(q)] = <<>>, \A i \in 1..(Len(q) - 1) : q[i] # <<>>,
         NEW content \in Text, NEW s, s = FlattenSeq(WithEnds(q)) \o (content \o <<CR, LF>>)
  PROVE  ParsePart(s) = [disposition |-> HeaderOf(q, Disposition), type |-> HeaderOf(q, TypeHeader),
                         content |-> content]
<1> DEFINE c == <<CR, LF>>
           r == content \o c
           f == FlattenSeq(WithEnds(q))
           seqs == WithEnds(q)
<1>1. c \in Text /\ Len(c) = 2
  BY Literals, TextConcat
<1>2. seqs \in Seq(Text)
  <2>1. \A i \in 1..Len(q) : q[i] \o c \in Text
    <3>1. \A i \in 1..Len(q) : q[i] \in Text
      OBVIOUS
    <3> HIDE DEF c
    <3> QED BY <1>1, <3>1, TextConcat
  <2>2. seqs = [i \in 1..Len(q) |-> q[i] \o c]
    BY DEF WithEnds
  <2> HIDE DEF c, seqs
  <2>3. seqs \in [1..Len(q) -> Text]
    BY ONLY <2>1, <2>2
  <2>4. Len(q) \in Nat
    OBVIOUS
  <2> QED BY ONLY <2>3, <2>4
<1>3. f \in Text
  <2> HIDE DEF seqs
  <2>1. FlattenSeq(seqs) \in Text
    BY <1>2, FlattenType
  <2> QED BY <2>1 DEF seqs
<1>d. s = f \o r
  OBVIOUS
<1> HIDE DEF c, f, seqs
<1>4. r \in Text /\ Len(r) = Len(content) + 2 /\ Len(content) \in Nat
  <2>1. content \o c \in Text /\ Len(content \o c) = Len(content) + Len(c) /\ Len(content) \in Nat
    BY <1>1, ConcatAt
  <2> QED BY <1>1, <2>1
<1>5. r # <<>>
  BY <1>4
<1>6. f \o r \in Text /\ Len(f \o r) = Len(f) + Len(r) /\ Len(f) \in Nat
  <2> HIDE DEF r
  <2> QED BY <1>3, <1>4, ConcatAt
<1>7. PICK R \in Seq(Text) : Split(s, <<CR, LF>>) = q \o R
  <2> HIDE DEF r
  <2>2. q # <<>> /\ 1 \in 1..(Len(q) - 1)
    OBVIOUS
  <2>3. q[1] # <<>>
    BY <2>2
  <2>1. q # <<>> /\ q[1] # <<>> /\ s = FlattenSeq(WithEnds(q)) \o r
    BY <1>d, <2>2, <2>3 DEF f
  <2> QED BY <1>4, <1>5, <2>1, LinesSplit
<1>8. UpTo(Split(s, <<CR, LF>>)) = q
  <2>1. q # <<>>
    OBVIOUS
  <2> QED BY <1>7, <2>1, UpToFirst
<1>9. ParsePart(s) = IF Len(f) > Len(s) THEN None
                     ELSE [disposition |-> HeaderOf(q, Disposition), type |-> HeaderOf(q, TypeHeader),
                           content |-> Content(s, Len(f))]
  BY <1>8, ParsePartSteps DEF f
<1>10. Len(s) = Len(f) + Len(content) + 2
  <2>1. Len(s) = Len(f) + Len(r)
    BY <1>d, <1>6
  <2> DEFINE x == Len(s)
             y == Len(f)
             z == Len(r)
             l == Len(content)
  <2>2. x = y + z /\ z = l + 2 /\ y \in Nat /\ l \in Nat
    BY <1>4, <1>6, <2>1
  <2> HIDE DEF x, y, z, l
  <2>3. x = y + l + 2
    BY <2>2
  <2> QED BY <2>3 DEF x, y, l
<1>11. Content(s, Len(f)) = content
  <2>1. Len(s) - Len(f) >= 2 /\ Len(s) - 2 = Len(f) + Len(content)
    BY <1>4, <1>6, <1>10
  <2>2. Content(s, Len(f)) = SubSeq(s, Len(f) + 1, Len(f) + Len(content))
    BY <2>1 DEF Content
  <2>3. (f \o content) \o c = f \o (content \o c)
    <3>1. f \in Text /\ content \in Text /\ c \in Text
      BY <1>1, <1>3
    <3>2. Associated(f, content, c)
      BY ONLY <3>1, TextAssociative
    <3> QED BY ONLY <3>2 DEF Associated
  <2>4. s = (f \o content) \o c
    BY <1>d, <2>3
  <2>5. SubSeq(f \o content \o c, Len(f) + 1, Len(f) + Len(content)) = content
    BY <1>1, <1>3, Middle
  <2> QED BY <2>2, <2>4, <2>5
<1>12. ~(Len(f) > Len(s))
  BY <1>4, <1>6, <1>10
<1> QED BY <1>9, <1>11, <1>12

\* What a browser writes behind Content-Disposition, and the lines above a content.
NamePart(e) == <<FormDataType, Semicolon, Space, NameKey, Quote>> \o e.name \o <<Quote>>
FilenamePart(e) == IF e.filename = <<>> THEN <<>>
                   ELSE <<Semicolon, Space, FilenameKey, Quote>> \o e.filename \o <<Quote>>
DispositionOf(e) == NamePart(e) \o FilenamePart(e)
FirstLine(e) == <<Disposition>> \o DispositionOf(e)
TypeLine(e) == <<TypeHeader>> \o e.type
LinesOf(e) == IF e.type = <<>> THEN <<FirstLine(e), <<>>>> ELSE <<FirstLine(e), TypeLine(e), <<>>>>

\* They are texts that avoid CR.
LEMMA LinesType ==
  ASSUME NEW e, Entry(e)
  PROVE  /\ NamePart(e) \in Text /\ FilenamePart(e) \in Text /\ DispositionOf(e) \in Text
         /\ FirstLine(e) \in Text /\ TypeLine(e) \in Text
         /\ Avoids(FirstLine(e), CR) /\ Avoids(TypeLine(e), CR)
<1> DEFINE A == <<FormDataType, Semicolon, Space, NameKey, Quote>>
           B == <<Semicolon, Space, FilenameKey, Quote>>
           Q == <<Quote>>
           D == <<Disposition>>
           T == <<TypeHeader>>
           n == e.name
           f == e.filename
           t == e.type
<1>1. n \in Text /\ f \in Text /\ t \in Text /\ Avoids(n, CR) /\ Avoids(f, CR) /\ Avoids(t, CR)
  BY DEF Entry
<1>2. A \in Text /\ B \in Text /\ Q \in Text /\ D \in Text /\ T \in Text /\ <<>> \in Text
  BY Literals DEF Text
<1>3. Avoids(A, CR) /\ Avoids(B, CR)
  <2>1. \A k \in 1..5 : A[k] # CR
    BY DEF FormDataType, Semicolon, Space, NameKey, Quote, CR
  <2>2. \A k \in 1..4 : B[k] # CR
    BY DEF Semicolon, Space, FilenameKey, Quote, CR
  <2>3. Len(A) = 5 /\ Len(B) = 4
    OBVIOUS
  <2> QED BY <2>1, <2>2, <2>3 DEF Avoids
<1>4. Avoids(Q, CR) /\ Avoids(D, CR) /\ Avoids(T, CR) /\ Avoids(<<>>, CR)
  BY DEF Avoids, Quote, Disposition, TypeHeader, CR
<1>5. NamePart(e) = (A \o n) \o Q /\ FilenamePart(e) = (IF f = <<>> THEN <<>> ELSE (B \o f) \o Q)
  BY DEF NamePart, FilenamePart
<1>6. DispositionOf(e) = NamePart(e) \o FilenamePart(e) /\ FirstLine(e) = D \o DispositionOf(e) /\ TypeLine(e) = T \o t
  BY DEF DispositionOf, FirstLine, TypeLine
<1> HIDE DEF A, B, Q, D, T, n, f, t
<1>7. A \o n \in Text /\ Avoids(A \o n, CR) /\ B \o f \in Text /\ Avoids(B \o f, CR)
  BY <1>1, <1>2, <1>3, AvoidsConcat, TextConcat
<1> DEFINE an == A \o n
           bf == B \o f
<1>8. an \o Q \in Text /\ Avoids(an \o Q, CR) /\ bf \o Q \in Text /\ Avoids(bf \o Q, CR)
  <2>1. an \in Text /\ bf \in Text /\ Avoids(an, CR) /\ Avoids(bf, CR)
    BY <1>7
  <2> HIDE DEF an, bf
  <2> QED BY <1>2, <1>4, <2>1, AvoidsConcat, TextConcat
<1>9. NamePart(e) \in Text /\ Avoids(NamePart(e), CR) /\ FilenamePart(e) \in Text /\ Avoids(FilenamePart(e), CR)
  BY <1>2, <1>4, <1>5, <1>8
<1>10. DispositionOf(e) \in Text /\ Avoids(DispositionOf(e), CR)
  BY <1>6, <1>9, AvoidsConcat, TextConcat
<1>11. FirstLine(e) \in Text /\ Avoids(FirstLine(e), CR)
  BY <1>2, <1>4, <1>6, <1>10, AvoidsConcat, TextConcat
<1>12. TypeLine(e) \in Text /\ Avoids(TypeLine(e), CR)
  BY <1>1, <1>2, <1>4, <1>6, AvoidsConcat, TextConcat
<1> QED BY <1>9, <1>10, <1>11, <1>12

\* A text behind one character.
LEMMA BehindOne ==
  ASSUME NEW c \in Nat, NEW t \in Text
  PROVE  /\ <<c>> \o t \in Text /\ <<c>> \o t # <<>>
         /\ (<<c>> \o t)[1] = c /\ Tail(<<c>> \o t) = t
<1> DEFINE d == <<c>>
           s == d \o t
<1>1. d \in Text /\ Len(d) = 1 /\ d[1] = c /\ 1 \in 1..Len(d)
  BY TextConcat
<1> HIDE DEF d
<1>2. s \in Text /\ Len(s) = Len(d) + Len(t) /\ Len(t) \in Nat
      /\ (\A k \in 1..Len(d) : s[k] = d[k]) /\ \A k \in 1..Len(t) : s[Len(d) + k] = t[k]
  BY <1>1, ConcatAt
<1> HIDE DEF s
<1>3. s # <<>>
  BY <1>1, <1>2
<1>4. s[1] = c
  BY <1>1, <1>2
<1>5. Tail(s) = t
  <2> DEFINE u == Tail(s)
  <2>1. u \in Seq(Nat) /\ Len(u) = Len(s) - 1 /\ \A k \in 1..Len(u) : u[k] = s[k + 1]
    BY <1>2, <1>3 DEF Text
  <2> HIDE DEF u
  <2>2. u \in Text /\ Len(u) = Len(t)
    BY <1>1, <1>2, <2>1 DEF Text
  <2>3. \A k \in 1..Len(u) : u[k] = t[k]
    <3> SUFFICES ASSUME NEW k \in 1..Len(u) PROVE u[k] = t[k]
      OBVIOUS
    <3>1. k \in 1..Len(t) /\ k + 1 = Len(d) + k
      BY <1>1, <1>2, <2>2
    <3> QED BY <1>2, <2>1, <3>1
  <2>4. u = t
    BY <2>2, <2>3, TextEqual
  <2> QED BY <2>4 DEF u
<1> QED BY <1>2, <1>3, <1>4, <1>5 DEF s, d

\* The lines are what an entry is enclosed in.
LEMMA EnclosedLines ==
  ASSUME NEW e, Entry(e)
  PROVE  Enclosed(e) = FlattenSeq(WithEnds(LinesOf(e))) \o (e.content \o <<CR, LF>>)
<1> DEFINE A == <<FormDataType, Semicolon, Space, NameKey, Quote>>
           A6 == <<Disposition, FormDataType, Semicolon, Space, NameKey, Quote>>
           Q == <<Quote>>
           D == <<Disposition>>
           F == FilenamePart(e)
           c == <<CR, LF>>
           n == e.name
           x == e.content
           T == IF e.type = <<>> THEN <<>> ELSE TypeLine(e) \o c
           X == FirstLine(e)
<1>1. n \in Text /\ x \in Text
  BY DEF Entry
<1>2. A \in Text /\ Q \in Text /\ D \in Text /\ c \in Text /\ <<>> \in Text
  BY Literals DEF Text
<1>3. X \in Text /\ F \in Text /\ TypeLine(e) \in Text
  BY LinesType
<1>4. A6 = D \o A
  OBVIOUS
<1>5. Enclosed(e) = ((((((((A6 \o n) \o Q) \o F) \o c) \o T) \o c) \o x) \o c)
  BY DEF Enclosed, FilenamePart, TypeLine
<1>6. X = D \o (((A \o n) \o Q) \o F)
  BY DEF FirstLine, DispositionOf, NamePart
<1>a. T = IF e.type = <<>> THEN <<>> ELSE TypeLine(e) \o c
  OBVIOUS
<1> HIDE DEF A, A6, Q, D, F, c, n, x, T, X
<1>7. T \in Text
  BY <1>2, <1>3, <1>a, TextConcat
<1>8. ((A6 \o n) \o Q) \o F = X
  <2>1. (D \o A) \o n = D \o (A \o n)
    <3>1. D \in Text /\ A \in Text /\ n \in Text
      BY <1>1, <1>2
    <3>2. Associated(D, A, n)
      BY ONLY <3>1, TextAssociative
    <3> QED BY ONLY <3>2 DEF Associated
  <2> DEFINE an == A \o n
  <2>2. an \in Text
    BY <1>1, <1>2, TextConcat
  <2> HIDE DEF an
  <2>3. (D \o an) \o Q = D \o (an \o Q)
    <3>1. D \in Text /\ an \in Text /\ Q \in Text
      BY <1>2, <2>2
    <3>2. Associated(D, an, Q)
      BY ONLY <3>1, TextAssociative
    <3> QED BY ONLY <3>2 DEF Associated
  <2> DEFINE anq == an \o Q
  <2>4. anq \in Text
    BY <1>2, <2>2, TextConcat
  <2> HIDE DEF anq
  <2>5. (D \o anq) \o F = D \o (anq \o F)
    <3>1. D \in Text /\ anq \in Text /\ F \in Text
      BY <1>2, <1>3, <2>4 DEF F
    <3>2. Associated(D, anq, F)
      BY ONLY <3>1, TextAssociative
    <3> QED BY ONLY <3>2 DEF Associated
  <2>6. (A6 \o n) \o Q = D \o anq
    BY <1>4, <2>1, <2>3 DEF an, anq
  <2> QED BY <1>6, <2>5, <2>6 DEF an, anq
<1> DEFINE Y == ((X \o c) \o T) \o c
<1>9. Y \in Text
  <2>1. X \o c \in Text
    BY <1>2, <1>3, TextConcat
  <2> DEFINE xc == X \o c
  <2> HIDE DEF xc
  <2>2. xc \o T \in Text
    BY <1>7, <2>1, TextConcat DEF xc
  <2> DEFINE xct == xc \o T
  <2> HIDE DEF xct
  <2>3. xct \o c \in Text
    BY <1>2, <2>2, TextConcat DEF xct
  <2> QED BY <2>3 DEF xct, xc
<1>10. Enclosed(e) = (Y \o x) \o c
  BY <1>5, <1>8
<1>11. FlattenSeq(WithEnds(LinesOf(e))) = Y
  <2>1. CASE e.type = <<>>
    <3>1. LinesOf(e) = <<X, <<>>>>
      BY <2>1 DEF LinesOf, X
    <3>2. WithEnds(LinesOf(e)) = <<X \o c, <<>> \o c>>
      <4> DEFINE q == LinesOf(e)
      <4>1. DOMAIN q = 1..2 /\ q[1] = X /\ q[2] = <<>>
        BY <3>1
      <4>2. WithEnds(q) = [i \in 1..2 |-> q[i] \o c]
        BY <4>1 DEF WithEnds, c
      <4> HIDE DEF q
      <4> DEFINE g == [i \in 1..2 |-> q[i] \o c]
                 h == <<q[1] \o c, q[2] \o c>>
      <4>3. g[1] = q[1] \o c /\ g[2] = q[2] \o c
        OBVIOUS
      <4>4. h[1] = q[1] \o c /\ h[2] = q[2] \o c
        OBVIOUS
      <4>5. DOMAIN g = 1..2 /\ DOMAIN h = 1..2 /\ g = [i \in DOMAIN g |-> g[i]] /\ h = [i \in DOMAIN h |-> h[i]]
        OBVIOUS
      <4> HIDE DEF g, h
      <4>6. \A i \in 1..2 : g[i] = h[i]
        <5>1. g[1] = h[1] /\ g[2] = h[2]
          BY <4>3, <4>4
        <5>2. \A i \in 1..2 : i = 1 \/ i = 2
          OBVIOUS
        <5> QED BY ONLY <5>1, <5>2
      <4>7. g = h
        BY <4>5, <4>6
      <4> QED BY <4>1, <4>2, <4>7 DEF q, g, h
    <3> DEFINE xc == X \o c
    <3>3. xc \in Text /\ <<>> \o c = c
      BY <1>2, <1>3, TextConcat, TextUnit
    <3> HIDE DEF xc
    <3>4. xc \o T = xc
      BY <1>a, <2>1, <3>3, TextUnit
    <3>5. FlattenSeq(<<xc, c>>) = xc \o c
      BY <1>2, <3>3, FlattenFew
    <3>6. WithEnds(LinesOf(e)) = <<xc, c>>
      BY <3>2, <3>3 DEF xc
    <3> QED BY <3>4, <3>5, <3>6 DEF xc
  <2>2. CASE e.type # <<>>
    <3>1. LinesOf(e) = <<X, TypeLine(e), <<>>>>
      BY <2>2 DEF LinesOf, X
    <3>2. WithEnds(LinesOf(e)) = <<X \o c, TypeLine(e) \o c, <<>> \o c>>
      <4> DEFINE q == LinesOf(e)
      <4>1. DOMAIN q = 1..3 /\ q[1] = X /\ q[2] = TypeLine(e) /\ q[3] = <<>>
        BY <3>1
      <4>2. WithEnds(q) = [i \in 1..3 |-> q[i] \o c]
        BY <4>1 DEF WithEnds, c
      <4> HIDE DEF q
      <4> DEFINE g == [i \in 1..3 |-> q[i] \o c]
                 h == <<q[1] \o c, q[2] \o c, q[3] \o c>>
      <4>3. g[1] = q[1] \o c /\ g[2] = q[2] \o c /\ g[3] = q[3] \o c
        OBVIOUS
      <4>4. h[1] = q[1] \o c /\ h[2] = q[2] \o c /\ h[3] = q[3] \o c
        OBVIOUS
      <4>5. DOMAIN g = 1..3 /\ DOMAIN h = 1..3 /\ g = [i \in DOMAIN g |-> g[i]] /\ h = [i \in DOMAIN h |-> h[i]]
        OBVIOUS
      <4> HIDE DEF g, h
      <4>6. \A i \in 1..3 : g[i] = h[i]
        <5>1. g[1] = h[1] /\ g[2] = h[2] /\ g[3] = h[3]
          BY <4>3, <4>4
        <5>2. \A i \in 1..3 : i = 1 \/ i = 2 \/ i = 3
          OBVIOUS
        <5> QED BY ONLY <5>1, <5>2
      <4>7. g = h
        BY <4>5, <4>6
      <4> QED BY <4>1, <4>2, <4>7 DEF q, g, h
    <3> DEFINE xc == X \o c
    <3>3. xc \in Text /\ <<>> \o c = c
      BY <1>2, <1>3, TextConcat, TextUnit
    <3>4. TypeLine(e) \o c = T
      BY <1>a, <2>2
    <3> HIDE DEF xc
    <3>7. xc \in Text /\ T \in Text /\ c \in Text
      BY <1>2, <1>7, <3>3
    <3>5. FlattenSeq(<<xc, T, c>>) = xc \o T \o c
      BY ONLY <3>7, FlattenFew, Zenon
    <3>6. WithEnds(LinesOf(e)) = <<xc, T, c>>
      BY <3>2, <3>3, <3>4 DEF xc
    <3> QED BY <3>5, <3>6 DEF xc
  <2> QED BY <2>1, <2>2
<1> HIDE DEF Y
<1>12. (Y \o x) \o c = Y \o (x \o c)
  <2>1. Y \in Text /\ x \in Text /\ c \in Text
    BY <1>1, <1>2, <1>9
  <2>2. Associated(Y, x, c)
    BY ONLY <2>1, TextAssociative
  <2> QED BY ONLY <2>2 DEF Associated
<1> QED BY <1>10, <1>11, <1>12 DEF x, c

\* The last line that begins with a key is the only one, or there is none.
LEMMA HeaderFew ==
  ASSUME NEW q \in Seq(Text), NEW key
  PROVE  /\ \A i \in DOMAIN q : (\A j \in DOMAIN q : (q[j] # <<>> /\ q[j][1] = key) <=> j = i)
                                 => HeaderOf(q, key) = Tail(q[i])
         /\ (\A j \in DOMAIN q : ~(q[j] # <<>> /\ q[j][1] = key)) => HeaderOf(q, key) = <<>>
<1> DEFINE at == {j \in DOMAIN q : IsPrefix(<<key>>, q[j])}
<1>1. HeaderOf(q, key) = IF at = {} THEN <<>> ELSE Tail(q[CHOOSE i \in at : \A j \in at : i >= j])
  BY DEF HeaderOf
<1>2. \A j \in DOMAIN q : q[j] \in Text /\ j \in Nat
  OBVIOUS
<1>3. \A j \in DOMAIN q : IsPrefix(<<key>>, q[j]) <=> q[j] # <<>> /\ q[j][1] = key
  BY <1>2, PrefixOne
<1>4. ASSUME NEW i \in DOMAIN q, \A j \in DOMAIN q : (q[j] # <<>> /\ q[j][1] = key) <=> j = i
      PROVE  HeaderOf(q, key) = Tail(q[i])
  <2>1. at = {i}
    BY <1>3, <1>4
  <2> HIDE DEF at
  <2>2. (CHOOSE k \in at : \A j \in at : k >= j) = i
    BY <1>2, <2>1
  <2> QED BY <1>1, <2>1, <2>2
<1>5. ASSUME \A j \in DOMAIN q : ~(q[j] # <<>> /\ q[j][1] = key) PROVE HeaderOf(q, key) = <<>>
  <2>1. at = {}
    BY <1>3, <1>5
  <2> HIDE DEF at
  <2> QED BY <1>1, <2>1
<1> QED BY <1>4, <1>5

\* Of the lines, only the i-th begins with the key.
OnlyAt(q, key, i) == \A j \in DOMAIN q : (q[j] # <<>> /\ q[j][1] = key) <=> j = i

\* HeaderOf() finds what is behind that key.
LEMMA HeaderAt ==
  ASSUME NEW q \in Seq(Text), NEW key, NEW i \in DOMAIN q, OnlyAt(q, key, i)
  PROVE  HeaderOf(q, key) = Tail(q[i])
  BY HeaderFew DEF OnlyAt

\* The lines above a content are as parse_part() wants them.
LEMMA LinesRead ==
  ASSUME NEW e, Entry(e), NEW q, q = LinesOf(e)
  PROVE  /\ q \in Seq(Text) /\ Len(q) > 1 /\ q[Len(q)] = <<>>
         /\ \A i \in 1..Len(q) : Avoids(q[i], CR)
         /\ \A i \in 1..(Len(q) - 1) : q[i] # <<>>
         /\ HeaderOf(q, Disposition) = DispositionOf(e) /\ HeaderOf(q, TypeHeader) = e.type
<1> DEFINE X == FirstLine(e)
           Y == TypeLine(e)
<1>1. X \in Text /\ Y \in Text /\ Avoids(X, CR) /\ Avoids(Y, CR) /\ DispositionOf(e) \in Text
  BY LinesType
<1>2. e.type \in Text /\ Disposition \in Nat /\ TypeHeader \in Nat
  BY Literals DEF Entry
<1>3. X # <<>> /\ X[1] = Disposition /\ Tail(X) = DispositionOf(e)
  BY <1>1, <1>2, BehindOne DEF FirstLine
<1>4. Y # <<>> /\ Y[1] = TypeHeader /\ Tail(Y) = e.type
  BY <1>2, BehindOne DEF TypeLine
<1>5. Disposition # TypeHeader
  BY DEF Disposition, TypeHeader
<1>6. <<>> \in Text /\ Avoids(<<>>, CR)
  BY TextConcat DEF Avoids
<1>7. q = IF e.type = <<>> THEN <<X, <<>>>> ELSE <<X, Y, <<>>>>
  BY DEF LinesOf
<1> HIDE DEF X, Y
<1>8. CASE e.type = <<>>
  <2>1. q = <<X, <<>>>>
    BY <1>7, <1>8
  <2>2. q \in Seq(Text) /\ Len(q) = 2 /\ q[1] = X /\ q[2] = <<>> /\ DOMAIN q = 1..2
    BY <1>1, <1>6, <2>1
  <2>3. \A i \in 1..2 : i = 1 \/ i = 2
    OBVIOUS
  <2>4. 1 \in DOMAIN q /\ 2 - 1 = 1 /\ 2 > 1 /\ (\A i \in 1..1 : i = 1)
    BY <2>2
  <2>5. \A j \in DOMAIN q : (q[j] # <<>> /\ q[j][1] = Disposition) <=> j = 1
    BY ONLY <1>3, <2>2, <2>3
  <2>6. \A j \in DOMAIN q : ~(q[j] # <<>> /\ q[j][1] = TypeHeader)
    BY ONLY <1>3, <1>5, <2>2, <2>3
  <2>7. HeaderOf(q, Disposition) = Tail(q[1]) /\ HeaderOf(q, TypeHeader) = <<>>
    BY <2>2, <2>4, <2>5, <2>6, HeaderFew
  <2>8. \A i \in 1..2 : Avoids(q[i], CR)
    BY ONLY <1>1, <1>6, <2>2, <2>3
  <2>9. \A i \in 1..1 : q[i] # <<>>
    BY ONLY <1>3, <2>2, <2>4
  <2> QED BY <1>3, <1>8, <2>2, <2>4, <2>7, <2>8, <2>9
<1>9. CASE e.type # <<>>
  <2>1. q = <<X, Y, <<>>>>
    BY <1>7, <1>9
  <2>2. q \in Seq(Text) /\ Len(q) = 3 /\ q[1] = X /\ q[2] = Y /\ q[3] = <<>> /\ DOMAIN q = 1..3
    BY <1>1, <1>6, <2>1
  <2>3. \A i \in 1..3 : i = 1 \/ i = 2 \/ i = 3
    OBVIOUS
  <2>4. 1 \in DOMAIN q /\ 2 \in DOMAIN q /\ 3 - 1 = 2 /\ 3 > 1 /\ (\A i \in 1..2 : i = 1 \/ i = 2)
    BY <2>2
  <2>a. 1 # 2 /\ 3 # 1 /\ 3 # 2
    OBVIOUS
  <2>5. \A j \in DOMAIN q : (q[j] # <<>> /\ q[j][1] = Disposition) <=> j = 1
    BY ONLY <1>3, <1>4, <1>5, <2>2, <2>3, <2>a
  <2>6. \A j \in DOMAIN q : (q[j] # <<>> /\ q[j][1] = TypeHeader) <=> j = 2
    BY ONLY <1>3, <1>4, <1>5, <2>2, <2>3, <2>a
  <2>7. HeaderOf(q, Disposition) = Tail(q[1]) /\ HeaderOf(q, TypeHeader) = Tail(q[2])
    <3>1. q \in Seq(Text)
      BY <2>2
    <3>2. OnlyAt(q, Disposition, 1) /\ OnlyAt(q, TypeHeader, 2)
      BY ONLY <2>5, <2>6 DEF OnlyAt
    <3>3. 1 \in DOMAIN q /\ 2 \in DOMAIN q
      BY <2>4
    <3>4. HeaderOf(q, Disposition) = Tail(q[1])
      BY ONLY <3>1, <3>2, <3>3, HeaderAt
    <3>5. HeaderOf(q, TypeHeader) = Tail(q[2])
      BY ONLY <3>1, <3>2, <3>3, HeaderAt
    <3> QED BY ONLY <3>4, <3>5
  <2>8. \A i \in 1..3 : Avoids(q[i], CR)
    BY ONLY <1>1, <1>6, <2>2, <2>3
  <2>9. \A i \in 1..2 : q[i] # <<>>
    BY ONLY <1>3, <1>4, <2>2, <2>4
  <2> QED BY <1>3, <1>4, <2>2, <2>4, <2>7, <2>8, <2>9
<1> QED BY <1>8, <1>9

\* A part is read as it was written.
LEMMA EntryRead ==
  ASSUME NEW e, Entry(e)
  PROVE  ParsePart(Enclosed(e)) = [disposition |-> DispositionOf(e), type |-> e.type, content |-> e.content]
<1> DEFINE q == LinesOf(e)
           x == e.content
<1>1. /\ q \in Seq(Text) /\ Len(q) > 1 /\ q[Len(q)] = <<>>
      /\ \A i \in 1..Len(q) : Avoids(q[i], CR)
      /\ \A i \in 1..(Len(q) - 1) : q[i] # <<>>
      /\ HeaderOf(q, Disposition) = DispositionOf(e) /\ HeaderOf(q, TypeHeader) = e.type
  BY LinesRead
<1>2. x \in Text
  BY DEF Entry
<1>3. Enclosed(e) = FlattenSeq(WithEnds(q)) \o (x \o <<CR, LF>>)
  BY EnclosedLines
<1> HIDE DEF q, x
<1>4. ParsePart(Enclosed(e)) = [disposition |-> HeaderOf(q, Disposition), type |-> HeaderOf(q, TypeHeader),
                                content |-> x]
  BY <1>1, <1>2, <1>3, PartRead
<1> QED BY <1>1, <1>4 DEF x

\* A text in quotes behind a key.
InQuotes(key, n) == <<key, Quote>> \o n \o <<Quote>>

\* Without its first two characters and its last one it is the text.
LEMMA QuotedPiece ==
  ASSUME NEW key \in Nat, key # Semicolon, NEW n \in Text, Avoids(n, Semicolon)
  PROVE  LET p == InQuotes(key, n)
         IN  /\ p \in Text /\ p # <<>> /\ p[1] = key /\ Avoids(p, Semicolon)
             /\ Len(p) >= 3 /\ SubSeq(p, 3, Len(p) - 1) = n
<1> DEFINE k == <<key, Quote>>
           Q == <<Quote>>
           p == InQuotes(key, n)
           kn == k \o n
<1>1. k \in Text /\ Len(k) = 2 /\ k[1] = key /\ Q \in Text /\ Len(Q) = 1
  BY Literals, TextConcat
<1>2. Avoids(k, Semicolon) /\ Avoids(Q, Semicolon)
  <2>1. Quote # Semicolon
    BY DEF Quote, Semicolon
  <2>2. k[1] = key /\ k[2] = Quote /\ Q[1] = Quote
    OBVIOUS
  <2>3. (\A i \in 1..2 : i = 1 \/ i = 2) /\ \A i \in 1..1 : i = 1
    OBVIOUS
  <2> HIDE DEF k, Q
  <2> QED BY <1>1, <2>1, <2>2, <2>3 DEF Avoids
<1>3. p = kn \o Q
  BY DEF InQuotes
<1> HIDE DEF k, Q, p
<1>4. kn \in Text /\ Len(kn) = 2 + Len(n) /\ Len(n) \in Nat /\ kn[1] = key
  <2>1. 1 \in 1..Len(k)
    BY <1>1
  <2>2. k \in Text /\ n \in Text
    BY <1>1
  <2>3. k \o n \in Text /\ Len(k \o n) = Len(k) + Len(n) /\ Len(n) \in Nat /\ (k \o n)[1] = k[1]
    BY ONLY <2>1, <2>2, ConcatAt
  <2> QED BY <1>1, <2>3
<1>5. Avoids(kn, Semicolon)
  BY <1>1, <1>2, AvoidsConcat
<1>9. SubSeq(k \o n \o Q, Len(k) + 1, Len(k) + Len(n)) = n
  BY <1>1, Middle
<1>6. SubSeq(kn \o Q, 2 + 1, 2 + Len(n)) = n
  BY <1>1, <1>9
<1> HIDE DEF kn
<1>7. p \in Text /\ Len(p) = 2 + Len(n) + 1 /\ p[1] = key
  <2>1. 1 \in 1..Len(kn)
    BY <1>4
  <2>2. kn \in Text /\ Q \in Text
    BY <1>1, <1>4
  <2>3. kn \o Q \in Text /\ Len(kn \o Q) = Len(kn) + Len(Q) /\ (kn \o Q)[1] = kn[1]
    BY ONLY <2>1, <2>2, ConcatAt
  <2> QED BY <1>1, <1>3, <1>4, <2>3
<1>8. Avoids(p, Semicolon)
  BY <1>1, <1>2, <1>3, <1>4, <1>5, AvoidsConcat
<1>10. Len(p) - 1 = 2 + Len(n) /\ 2 + 1 = 3 /\ Len(p) >= 3
  BY <1>4, <1>7
<1>11. SubSeq(p, 3, Len(p) - 1) = n
  BY <1>3, <1>6, <1>10
<1>12. p # <<>>
  BY <1>10
<1> QED BY <1>7, <1>8, <1>10, <1>11, <1>12 DEF p

\* Piece i is the only one that begins with a key.
OnlyOne(q, key, i) == i \in DOMAIN q /\ \A j \in DOMAIN q : (q[j] # <<>> /\ q[j][1] = key) <=> j = i

\* The text of the only piece with a key is what is quoted, and nothing if there is none.
LEMMA QuotedFew ==
  ASSUME NEW value, NEW q \in Seq(Text), SplitHeaderValue(value) = q, NEW key
  PROVE  /\ \A i : OnlyOne(q, key, i) => Quoted(value, key) = SubSeq(q[i], 3, Len(q[i]) - 1)
         /\ (\A j \in DOMAIN q : ~(q[j] # <<>> /\ q[j][1] = key)) => Quoted(value, key) = <<>>
<1> DEFINE at == {j \in DOMAIN q : IsPrefix(<<key>>, q[j])}
<1>1. Quoted(value, key) = IF at = {} THEN <<>>
                           ELSE LET p == q[CHOOSE i \in at : \A j \in at : i >= j] IN SubSeq(p, 3, Len(p) - 1)
  BY DEF Quoted
<1>2. \A j \in DOMAIN q : q[j] \in Text /\ j \in Nat
  OBVIOUS
<1>3. \A j \in DOMAIN q : IsPrefix(<<key>>, q[j]) <=> q[j] # <<>> /\ q[j][1] = key
  BY <1>2, PrefixOne
<1>4. ASSUME NEW i, OnlyOne(q, key, i)
      PROVE  Quoted(value, key) = SubSeq(q[i], 3, Len(q[i]) - 1)
  <2>1. at = {i} /\ i \in DOMAIN q
    BY <1>3, <1>4 DEF OnlyOne
  <2> HIDE DEF at
  <2>2. (CHOOSE k \in at : \A j \in at : k >= j) = i
    BY <1>2, <2>1
  <2> QED BY <1>1, <2>1, <2>2
<1>5. ASSUME \A j \in DOMAIN q : ~(q[j] # <<>> /\ q[j][1] = key) PROVE Quoted(value, key) = <<>>
  <2>1. at = {}
    BY <1>3, <1>5
  <2> HIDE DEF at
  <2> QED BY <1>1, <2>1
<1> QED BY <1>4, <1>5

\* Four texts, concatenated from left to right or from the middle.
Regrouped(x, y, z, w) == ((x \o y) \o z) \o w = x \o ((y \o z) \o w)

\* Concatenation is associative.
LEMMA Regroup ==
  ASSUME NEW x \in Text, NEW y \in Text, NEW z \in Text, NEW w \in Text
  PROVE  Regrouped(x, y, z, w)
<1>1. (x \o y) \o z = x \o (y \o z) /\ y \o z \in Text
  <2>1. Associated(x, y, z) /\ y \o z \in Text
    BY TextAssociative, TextConcat
  <2> QED BY ONLY <2>1 DEF Associated
<1> DEFINE yz == y \o z
<1>2. yz \in Text
  BY <1>1
<1> HIDE DEF yz
<1>3. x \in Text /\ yz \in Text /\ w \in Text
  BY <1>2
<1>4. (x \o yz) \o w = x \o (yz \o w)
  <2>2. Associated(x, yz, w)
    BY ONLY <1>3, TextAssociative
  <2> QED BY ONLY <2>2 DEF Associated
<1> QED BY <1>1, <1>3 DEF yz, Regrouped

\* The pieces of a disposition.
PiecesOf(e) ==
  IF e.filename = <<>> THEN <<<<FormDataType>>, InQuotes(NameKey, e.name)>>
  ELSE <<<<FormDataType>>, InQuotes(NameKey, e.name), InQuotes(FilenameKey, e.filename)>>

\* split() returns these pieces.
LEMMA DispositionSplit ==
  ASSUME NEW e, Entry(e)
  PROVE  SplitHeaderValue(DispositionOf(e)) = PiecesOf(e)
<1> DEFINE a == <<FormDataType>>
           b == InQuotes(NameKey, e.name)
           c == InQuotes(FilenameKey, e.filename)
           d == <<Semicolon, Space>>
           n == e.name
           f == e.filename
           k == <<NameKey, Quote>>
           l == <<FilenameKey, Quote>>
           Q == <<Quote>>
<1>1. /\ b \in Text /\ b # <<>> /\ Avoids(b, Semicolon)
      /\ c \in Text /\ c # <<>> /\ Avoids(c, Semicolon)
  <2>1. NameKey \in Nat /\ FilenameKey \in Nat /\ NameKey # Semicolon /\ FilenameKey # Semicolon
    BY DEF NameKey, FilenameKey, Semicolon
  <2>2. e.name \in Text /\ e.filename \in Text /\ Avoids(e.name, Semicolon) /\ Avoids(e.filename, Semicolon)
    BY DEF Entry
  <2> QED BY <2>1, <2>2, QuotedPiece
<1>2. a \in Text /\ a # <<>> /\ d \in Text /\ d # <<>> /\ d[1] = Semicolon /\ k \in Text /\ l \in Text /\ Q \in Text
  BY Literals, TextConcat
<1>3. Avoids(a, Semicolon)
  BY DEF Avoids, FormDataType, Semicolon
<1>4. n \in Text /\ f \in Text
  BY DEF Entry
<1>5. b = (k \o n) \o Q /\ c = (l \o f) \o Q
  BY DEF InQuotes
<1>6. <<FormDataType, Semicolon, Space, NameKey, Quote>> = (a \o d) \o k /\ <<Semicolon, Space, FilenameKey, Quote>> = d \o l
  OBVIOUS
<1>7. /\ NamePart(e) = ((((a \o d) \o k) \o n) \o Q)
      /\ FilenamePart(e) = IF f = <<>> THEN <<>> ELSE ((d \o l) \o f) \o Q
  BY <1>6 DEF NamePart, FilenamePart
<1> HIDE DEF a, b, c, d, n, f, k, l, Q
<1> DEFINE ad == a \o d
<1>9. ad \in Text
  BY <1>2, TextConcat
<1>10. NamePart(e) = ad \o b
  <2> HIDE DEF ad
  <2>1. ((ad \o k) \o n) \o Q = ad \o ((k \o n) \o Q)
    <3>1. Regrouped(ad, k, n, Q)
      BY ONLY <1>2, <1>4, <1>9, Regroup
    <3> QED BY ONLY <3>1 DEF Regrouped
  <2>2. NamePart(e) = ((ad \o k) \o n) \o Q
    BY <1>7 DEF ad
  <2> QED BY <1>5, <2>1, <2>2
<1>11. FilenamePart(e) = IF f = <<>> THEN <<>> ELSE d \o c
  <2>1. ((d \o l) \o f) \o Q = d \o ((l \o f) \o Q)
    <3>1. Regrouped(d, l, f, Q)
      BY ONLY <1>2, <1>4, Regroup
    <3> QED BY ONLY <3>1 DEF Regrouped
  <2> QED BY <1>5, <1>7, <2>1
<1>12. DispositionOf(e) = NamePart(e) \o FilenamePart(e)
  BY DEF DispositionOf
<1>13. ad \o b \in Text
  <2> HIDE DEF ad
  <2> QED BY <1>1, <1>9, TextConcat
<1>14. PiecesOf(e) = IF f = <<>> THEN <<a, b>> ELSE <<a, b, c>>
  BY DEF PiecesOf, a, b, c, f
<1>15. SplitHeaderValue(DispositionOf(e)) = Split(DispositionOf(e), d)
  BY DEF SplitHeaderValue, d
<1>16. CASE f = <<>>
  <2>1. FilenamePart(e) = <<>>
    BY <1>11, <1>16
  <2> DEFINE x == ad \o b
  <2>2. x \o <<>> = x
    <3> HIDE DEF x
    <3>1. x \in Text
      BY <1>13 DEF x
    <3> QED BY ONLY <3>1, TextUnit
  <2>3. DispositionOf(e) = a \o d \o b
    BY <1>10, <1>12, <2>1, <2>2
  <2>4. Split(a \o d \o b, d) = <<a, b>>
    BY <1>1, <1>2, <1>3, SplitTwo
  <2> QED BY <1>14, <1>15, <1>16, <2>3, <2>4
<1>17. CASE f # <<>>
  <2> DEFINE bd == b \o d
             parts == <<a, b, c>>
             seqs == <<ad, bd, c>>
  <2>1. bd \in Text
    BY <1>1, <1>2, TextConcat
  <2>2. parts \in Seq(Text) /\ Len(parts) = 3 /\ parts[1] = a /\ parts[2] = b /\ parts[3] = c /\ parts # <<>>
    BY <1>1, <1>2
  <2>3. (\A i \in 1..3 : i = 1 \/ i = 2 \/ i = 3) /\ 3 = 3
    OBVIOUS
  <2>4. seqs \in Seq(Text) /\ Len(seqs) = 3 /\ seqs[1] = a \o d /\ seqs[2] = b \o d /\ seqs[3] = c
    <3>1. ad = a \o d /\ bd = b \o d
      OBVIOUS
    <3> HIDE DEF ad, bd
    <3> QED BY <1>1, <1>9, <2>1, <3>1
  <2>5. FlattenSeq(seqs) = (ad \o bd) \o c
    <3> HIDE DEF ad, bd
    <3> QED BY <1>1, <1>9, <2>1, FlattenFew
  <2>6. (ad \o b) \o (d \o c) = (ad \o bd) \o c
    <3> HIDE DEF ad
    <3>0. Regrouped(ad, b, d, c)
      BY ONLY <1>1, <1>2, <1>9, Regroup
    <3>1. ((ad \o b) \o d) \o c = ad \o ((b \o d) \o c)
      BY ONLY <3>0 DEF Regrouped
    <3>2. (ad \o bd) \o c = ad \o (bd \o c)
      <4> HIDE DEF bd
      <4>1. ad \in Text /\ bd \in Text /\ c \in Text
        BY <1>1, <1>9, <2>1
      <4>2. Associated(ad, bd, c)
        BY ONLY <4>1, TextAssociative
      <4> QED BY ONLY <4>2 DEF Associated
    <3> DEFINE x == ad \o b
    <3>3. (x \o d) \o c = x \o (d \o c)
      <4>1. x \in Text
        BY <1>13 DEF ad
      <4> HIDE DEF x
      <4>2. x \in Text /\ d \in Text /\ c \in Text
        BY <1>1, <1>2, <4>1
      <4>3. Associated(x, d, c)
        BY ONLY <4>2, TextAssociative
      <4> QED BY ONLY <4>3 DEF Associated
    <3> QED BY ONLY <3>1, <3>2, <3>3
  <2>7. DispositionOf(e) = FlattenSeq(seqs)
    BY <1>10, <1>11, <1>12, <1>17, <2>5, <2>6
  <2> HIDE DEF parts, seqs, ad, bd
  <2>8. Delimited(seqs, parts, d)
    BY <2>2, <2>3, <2>4 DEF Delimited
  <2>9. \A i \in 1..Len(parts) : parts[i] # <<>> /\ Avoids(parts[i], d[1])
    BY <1>1, <1>2, <1>3, <2>2, <2>3
  <2>10. Split(FlattenSeq(seqs), d) = parts
    BY <1>2, <2>2, <2>4, <2>8, <2>9, SplitFlat
  <2> QED BY <1>14, <1>15, <1>17, <2>7, <2>10 DEF parts
<1> QED BY <1>16, <1>17

\* A disposition is read as it was written.
LEMMA DispositionRead ==
  ASSUME NEW e, Entry(e), NEW value, value = DispositionOf(e)
  PROVE  ~Malformed(value) /\ Quoted(value, NameKey) = e.name /\ Quoted(value, FilenameKey) = e.filename
<1> DEFINE a == <<FormDataType>>
           b == InQuotes(NameKey, e.name)
           c == InQuotes(FilenameKey, e.filename)
           q == PiecesOf(e)
<1>1. /\ b \in Text /\ b # <<>> /\ b[1] = NameKey /\ Len(b) >= 3 /\ SubSeq(b, 3, Len(b) - 1) = e.name
      /\ c \in Text /\ c # <<>> /\ c[1] = FilenameKey /\ Len(c) >= 3 /\ SubSeq(c, 3, Len(c) - 1) = e.filename
  <2>1. NameKey \in Nat /\ FilenameKey \in Nat /\ NameKey # Semicolon /\ FilenameKey # Semicolon
    BY DEF NameKey, FilenameKey, Semicolon
  <2>2. e.name \in Text /\ e.filename \in Text /\ Avoids(e.name, Semicolon) /\ Avoids(e.filename, Semicolon)
    BY DEF Entry
  <2> QED BY <2>1, <2>2, QuotedPiece
<1>2. a \in Text /\ a # <<>> /\ a[1] = FormDataType
  BY Literals, TextConcat
<1>3. FormDataType # NameKey /\ FormDataType # FilenameKey /\ NameKey # FilenameKey
  BY DEF FormDataType, NameKey, FilenameKey
<1>4. SplitHeaderValue(value) = q
  BY DispositionSplit
<1>5. q = IF e.filename = <<>> THEN <<a, b>> ELSE <<a, b, c>>
  BY DEF PiecesOf
<1>6. /\ \A k : a # <<k>> \/ k = FormDataType
      /\ b \notin {<<NameKey>>, <<FilenameKey>>} /\ c \notin {<<NameKey>>, <<FilenameKey>>}
  <2>1. Len(<<NameKey>>) = 1 /\ Len(<<FilenameKey>>) = 1 /\ ~(1 >= 3)
    OBVIOUS
  <2>2. b \notin {<<NameKey>>, <<FilenameKey>>} /\ c \notin {<<NameKey>>, <<FilenameKey>>}
    <3> HIDE DEF b, c
    <3> QED BY ONLY <1>1, <2>1
  <2> QED BY <2>2
<1>7. a \notin {<<NameKey>>, <<FilenameKey>>}
  BY <1>3, <1>6
<1> HIDE DEF a, b, c, q
<1>8. CASE e.filename = <<>>
  <2>1. q = <<a, b>>
    BY <1>5, <1>8
  <2>2. q \in Seq(Text) /\ Len(q) = 2 /\ q[1] = a /\ q[2] = b /\ DOMAIN q = 1..2
    BY <1>1, <1>2, <2>1
  <2>3. (\A i \in 1..2 : i = 1 \/ i = 2) /\ 1 \in 1..2 /\ 2 \in 1..2 /\ 1 # 2
    OBVIOUS
  <2>4. \A j \in DOMAIN q : (q[j] # <<>> /\ q[j][1] = NameKey) <=> j = 2
    BY ONLY <1>1, <1>2, <1>3, <2>2, <2>3
  <2>5. \A j \in DOMAIN q : ~(q[j] # <<>> /\ q[j][1] = FilenameKey)
    BY ONLY <1>1, <1>2, <1>3, <2>2, <2>3
  <2>6. Quoted(value, NameKey) = SubSeq(q[2], 3, Len(q[2]) - 1) /\ Quoted(value, FilenameKey) = <<>>
    <3>1. q \in Seq(Text) /\ SplitHeaderValue(value) = q /\ 2 \in DOMAIN q
      BY <1>4, <2>2, <2>3
    <3>2. Quoted(value, NameKey) = SubSeq(q[2], 3, Len(q[2]) - 1)
      <4>1. OnlyOne(q, NameKey, 2)
        BY ONLY <2>4, <3>1 DEF OnlyOne
      <4> QED BY ONLY <3>1, <4>1, QuotedFew
    <3>3. Quoted(value, FilenameKey) = <<>>
      BY ONLY <2>5, <3>1, QuotedFew
    <3> QED BY <3>2, <3>3
  <2>7. Range(q) = {a, b}
    BY <2>2, <2>3 DEF Range
  <2>8. ~Malformed(value)
    BY <1>4, <1>6, <1>7, <2>7 DEF Malformed
  <2> QED BY <1>1, <1>8, <2>2, <2>6, <2>8
<1>9. CASE e.filename # <<>>
  <2>1. q = <<a, b, c>>
    BY <1>5, <1>9
  <2>2. q \in Seq(Text) /\ Len(q) = 3 /\ q[1] = a /\ q[2] = b /\ q[3] = c /\ DOMAIN q = 1..3
    BY <1>1, <1>2, <2>1
  <2>3. (\A i \in 1..3 : i = 1 \/ i = 2 \/ i = 3) /\ 1 \in 1..3 /\ 2 \in 1..3 /\ 3 \in 1..3
        /\ 1 # 2 /\ 1 # 3 /\ 2 # 3
    OBVIOUS
  <2>4. \A j \in DOMAIN q : (q[j] # <<>> /\ q[j][1] = NameKey) <=> j = 2
    BY ONLY <1>1, <1>2, <1>3, <2>2, <2>3
  <2>5. \A j \in DOMAIN q : (q[j] # <<>> /\ q[j][1] = FilenameKey) <=> j = 3
    BY ONLY <1>1, <1>2, <1>3, <2>2, <2>3
  <2>6. /\ Quoted(value, NameKey) = SubSeq(q[2], 3, Len(q[2]) - 1)
        /\ Quoted(value, FilenameKey) = SubSeq(q[3], 3, Len(q[3]) - 1)
    <3>1. q \in Seq(Text) /\ SplitHeaderValue(value) = q /\ 2 \in DOMAIN q /\ 3 \in DOMAIN q
      BY <1>4, <2>2, <2>3
    <3>2. Quoted(value, NameKey) = SubSeq(q[2], 3, Len(q[2]) - 1)
      <4>1. OnlyOne(q, NameKey, 2)
        BY ONLY <2>4, <3>1 DEF OnlyOne
      <4> QED BY ONLY <3>1, <4>1, QuotedFew
    <3>4. OnlyOne(q, FilenameKey, 3)
      BY ONLY <2>5, <3>1 DEF OnlyOne
    <3>3. Quoted(value, FilenameKey) = SubSeq(q[3], 3, Len(q[3]) - 1)
      BY ONLY <3>1, <3>4, QuotedFew
    <3> QED BY <3>2, <3>3
  <2>7. Range(q) = {a, b, c}
    BY <2>2, <2>3 DEF Range
  <2>8. ~Malformed(value)
    BY <1>4, <1>6, <1>7, <2>7 DEF Malformed
  <2> QED BY <1>1, <2>2, <2>6, <2>8
<1> QED BY <1>8, <1>9

\* A multipart form comes back.
LEMMA MultipartRead ==
  ASSUME NEW es, Entered(es)
  PROVE  ParseMultipart(FormBody("multipart", es), ContentType("multipart")) = es
<1> DEFINE parts == [i \in 1..Len(es) |-> ParsePart(Enclosed(es[i]))]
           part(e) == [disposition |-> DispositionOf(e), type |-> e.type, content |-> e.content]
<1>1. ParseMultipart(FormBody("multipart", es), ContentType("multipart")) = MultipartData(parts)
  BY BoundaryRead, PartsFound DEF ParseMultipart
<1>2. es \in Seq(FormFieldData) /\ DOMAIN es = 1..Len(es) /\ \A i \in 1..Len(es) : Entry(es[i])
  BY DEF Entered
<1>3. ASSUME NEW e, Entry(e)
      PROVE  /\ ParsePart(Enclosed(e)) = part(e) /\ part(e) # None
             /\ ~Malformed(part(e).disposition) /\ e.name # <<>>
             /\ Quoted(part(e).disposition, NameKey) = e.name
             /\ Quoted(part(e).disposition, FilenameKey) = e.filename
             /\ part(e).type = e.type /\ part(e).content = e.content
  <2>1. ParsePart(Enclosed(e)) = part(e)
    BY <1>3, EntryRead
  <2>2. part(e).disposition = DispositionOf(e) /\ part(e).type = e.type /\ part(e).content = e.content
    OBVIOUS
  <2>3. DispositionOf(e) \in Text /\ e.type \in Text /\ e.content \in Text /\ e.name # <<>>
    BY <1>3, LinesType DEF Entry
  <2>4. part(e) \in [disposition : Text, type : Text, content : Text]
    BY <2>3
  <2>5. part(e) # None
    <3> HIDE DEF part
    <3> QED BY <2>4, NoneAssumption
  <2>6. ~Malformed(DispositionOf(e)) /\ Quoted(DispositionOf(e), NameKey) = e.name /\ Quoted(DispositionOf(e), FilenameKey) = e.filename
    BY <1>3, DispositionRead
  <2> QED BY <2>1, <2>2, <2>3, <2>5, <2>6
<1> HIDE DEF part
<1>4. DOMAIN parts = DOMAIN es /\ \A i \in DOMAIN es : parts[i] = part(es[i])
  BY <1>2, <1>3
<1> HIDE DEF parts
<1>5. ~\E i \in DOMAIN parts : \/ parts[i] = None \/ Malformed(parts[i].disposition)
                               \/ Quoted(parts[i].disposition, NameKey) = <<>>
  BY <1>2, <1>3, <1>4
<1>6. MultipartData(parts) = [i \in DOMAIN parts |-> FieldData(Quoted(parts[i].disposition, NameKey),
                                                               Quoted(parts[i].disposition, FilenameKey),
                                                               parts[i].type, parts[i].content)]
  BY <1>5 DEF MultipartData
<1>7. ASSUME NEW i \in DOMAIN es
      PROVE  FieldData(Quoted(parts[i].disposition, NameKey), Quoted(parts[i].disposition, FilenameKey),
                       parts[i].type, parts[i].content) = es[i]
  <2> DEFINE e == es[i]
  <2>1. Entry(e) /\ e \in FormFieldData /\ parts[i] = part(e)
    BY <1>2, <1>4
  <2> HIDE DEF e
  <2>2. e = [name |-> e.name, filename |-> e.filename, type |-> e.type, content |-> e.content]
    BY <2>1 DEF FormFieldData
  <2>3. FieldData(e.name, e.filename, e.type, e.content) = e
    BY <2>2 DEF FieldData
  <2> QED BY <1>3, <2>1, <2>3 DEF e
<1>8. MultipartData(parts) = [i \in DOMAIN es |-> es[i]]
  BY <1>4, <1>6, <1>7
<1>9. es = [i \in DOMAIN es |-> es[i]]
  BY <1>2
<1> QED BY <1>1, <1>8, <1>9

-----------------------------------------------------------------------------
(* What form::parse() gives back.                                          *)

\* A form is parsed by the encoding that its type names.
LEMMA EncodingRead ==
  /\ EncodingFromString(ContentType("url")) = "url"
  /\ EncodingFromString(ContentType("plain")) = "plain"
  /\ EncodingFromString(ContentType("multipart")) = "multipart"
<1>1. ContentType("url") = <<UrlType>> /\ ContentType("plain") = <<PlainType>>
  BY DEF ContentType, EncodingToString
<1>2. UrlType # MultipartType /\ PlainType # MultipartType /\ UrlType # PlainType
  BY DEF UrlType, MultipartType, PlainType
<1>3. /\ <<UrlType>> # <<PlainType>>
      /\ MultipartType \notin Range(<<UrlType>>) /\ MultipartType \notin Range(<<PlainType>>)
  BY <1>2 DEF Range
<1>4. EncodingFromString(<<UrlType>>) = "url" /\ EncodingFromString(<<PlainType>>) = "plain"
  BY <1>3 DEF EncodingFromString
<1> DEFINE type == ContentType("multipart")
           u == <<MultipartType>>
           k == <<Semicolon, Space, BoundaryKey, Equals>>
<1>5. u \in Text /\ Len(u) = 1 /\ u[1] = MultipartType /\ k \in Text /\ Len(k) = 4 /\ Boundary \in Text
  BY Literals, TextConcat, TextsAssumption DEF Text
<1>6. type = (u \o k) \o Boundary
  BY DEF ContentType, EncodingToString
<1> HIDE DEF type, u, k
<1>7. u \o k \in Text /\ Len(u \o k) = 5 /\ (u \o k)[1] = MultipartType
  <2>1. u \in Text /\ k \in Text /\ 1 \in 1..Len(u)
    BY <1>5
  <2>2. u \o k \in Text /\ Len(u \o k) = Len(u) + Len(k) /\ (u \o k)[1] = u[1]
    BY ONLY <2>1, ConcatAt
  <2> QED BY <1>5, <2>2
<1> DEFINE uk == u \o k
<1> HIDE DEF uk
<1>8. type \in Text /\ Len(type) >= 5 /\ type[1] = MultipartType
  <2>1. uk \in Text /\ Len(uk) = 5 /\ uk[1] = MultipartType /\ Boundary \in Text /\ 1 \in 1..Len(uk)
    BY <1>5, <1>7 DEF uk
  <2>2. uk \o Boundary \in Text /\ Len(uk \o Boundary) = Len(uk) + Len(Boundary) /\ Len(Boundary) \in Nat
        /\ (uk \o Boundary)[1] = uk[1]
    BY ONLY <2>1, ConcatAt
  <2> QED BY <1>6, <2>1, <2>2 DEF uk
<1>9. MultipartType \in Range(type) /\ type # <<UrlType>> /\ type # <<PlainType>>
  <2>1. 1 \in DOMAIN type
    BY <1>8 DEF Text
  <2>2. Len(<<UrlType>>) = 1 /\ Len(<<PlainType>>) = 1 /\ ~(1 >= 5)
    OBVIOUS
  <2> QED BY <1>8, <2>1, <2>2 DEF Range
<1>10. EncodingFromString(type) = "multipart"
  BY <1>9 DEF EncodingFromString
<1> QED BY <1>1, <1>4, <1>10 DEF type

\* In each encoding parse() gives back what the encoding carries.
LEMMA FormParsed ==
  ASSUME NEW enc \in Encodings, NEW es, Entered(es), ~Unwritable(enc, es), NEW past \in Nat
  PROVE  Parse(ContentType(enc), FormBody(enc, es), past) = Carried(enc, es)
<1>1. CASE enc = "url"
  <2>1. Parse(ContentType("url"), FormBody("url", es), past) = ParseUrlencoded(FormBody("url", es), past)
    BY EncodingRead DEF Parse
  <2>2. Carried("url", es) = Told("url", es)
    BY DEF Carried, Told
  <2> QED BY <1>1, <2>1, <2>2, UrlencodedRead
<1>2. CASE enc = "plain"
  <2>1. Parse(ContentType("plain"), FormBody("plain", es), past) = ParsePlain(FormBody("plain", es))
    BY EncodingRead DEF Parse
  <2>2. Carried("plain", es) = Told("plain", es)
    BY DEF Carried, Told
  <2> QED BY <1>2, <2>1, <2>2, PlainRead
<1>3. CASE enc = "multipart"
  <2>1. Parse(ContentType("multipart"), FormBody("multipart", es), past)
          = ParseMultipart(FormBody("multipart", es), ContentType("multipart"))
    BY EncodingRead DEF Parse
  <2>2. Carried("multipart", es) = es
    BY DEF Carried
  <2> QED BY <1>3, <2>1, <2>2, MultipartRead
<1> QED BY <1>1, <1>2, <1>3 DEF Encodings

\* Data of which all of one name have one content, and some if there is a content.
Tells(list, name, content) ==
  /\ \A i \in DOMAIN list : list[i].name = name => list[i].content = content /\ list[i] \in FormFieldData
  /\ content # <<>> => \E i \in DOMAIN list : list[i].name = name

\* content() finds that content.
LEMMA ContentFound ==
  ASSUME NEW list, IsList(list), NEW name, NEW content, Tells(list, name, content)
  PROVE  ContentOf(list, name) = IF content = <<>> THEN None ELSE content
<1> DEFINE at == {i \in DOMAIN list : list[i].name = name}
           first == CHOOSE i \in at : \A j \in at : i <= j
<1>1. FieldByName(list, name) = IF at = {} THEN None ELSE list[first]
  BY DEF FieldByName
<1>2. ContentOf(list, name) = IF FieldByName(list, name) = None \/ FieldByName(list, name).content = <<>> THEN None
                              ELSE FieldByName(list, name).content
  BY DEF ContentOf
<1>3. at \subseteq Nat
  BY DEF IsList
<1>4. CASE at = {}
  BY <1>1, <1>2, <1>4 DEF Tells
<1>5. CASE at # {}
  <2>1. first \in at
    <3> HIDE DEF at
    <3>1. \E i \in at : \A j \in at : i <= j
      BY <1>3, <1>5, Least
    <3> QED BY <3>1
  <2>2. list[first].content = content /\ list[first] \in FormFieldData
    BY <2>1 DEF Tells
  <2> DEFINE field == list[first]
  <2> HIDE DEF field
  <2>3. field # None
    BY <2>2, NoneAssumption DEF field, FormFieldData
  <2>4. FieldByName(list, name) = field
    BY <1>1, <1>5 DEF field
  <2> QED BY <1>2, <2>2, <2>3, <2>4 DEF field
<1> QED BY <1>4, <1>5

\* What is carried tells what comes back of each entry, if their names are different.
LEMMA CarriedTells ==
  ASSUME NEW enc \in Encodings, NEW es, Entered(es),
         \A i, j \in DOMAIN es : es[i].name = es[j].name => i = j, NEW e \in Range(es)
  PROVE  IsList(Carried(enc, es)) /\ Tells(Carried(enc, es), e.name, Returned(enc, e.content))
<1> DEFINE n == Len(es)
<1>1. n \in Nat /\ DOMAIN es = 1..n /\ es \in Seq(FormFieldData) /\ \A i \in 1..n : Entry(es[i])
  BY DEF Entered
<1>2. PICK k \in 1..n : e = es[k]
  BY <1>1 DEF Range
<1>5. e.content \in Text
  BY <1>1, <1>2 DEF Entry
<1>3. CASE enc = "multipart"
  <2>5. Returned(enc, e.content) = e.content
    BY <1>3 DEF Returned
  <2>1. Carried(enc, es) = es
    BY <1>3 DEF Carried
  <2>2. IsList(es)
    BY <1>1 DEF IsList
  <2>3. \A i \in DOMAIN es : es[i].name = e.name => es[i] = e
    BY <1>1, <1>2
  <2>4. e \in FormFieldData /\ \E i \in DOMAIN es : es[i].name = e.name
    BY <1>1, <1>2 DEF Entry
  <2> QED BY <2>1, <2>2, <2>3, <2>4, <2>5 DEF Tells
<1>4. CASE enc # "multipart"
  <2> DEFINE P == {i \in DOMAIN es : es[i].content # <<>>}
             whole == [i \in DOMAIN es |-> FieldData(es[i].name, <<>>, <<>>, Returned(enc, es[i].content))]
             list == Carried(enc, es)
             m == Cardinality(P)
  <2>1. list = Subsequence(whole, P)
    BY <1>4 DEF Carried
  <2>2. \A i \in 1..n : whole[i] = FieldData(es[i].name, <<>>, <<>>, Returned(enc, es[i].content))
    BY <1>1
  <2>3. P \subseteq 1..n /\ \A i \in 1..n : i \in P <=> es[i].content # <<>>
    BY <1>1
  <2> HIDE DEF P, whole, list, n
  <2>4. PICK nth : Numbers(P, nth)
    BY <1>1, <2>3, SubsequenceOrder
  <2>5. list = [i \in 1..m |-> whole[nth[i]]]
    BY <2>1, <2>4 DEF Numbers
  <2>6. /\ \A i \in 1..m : nth[i] \in P
        /\ \A i \in P : nth[Place(P, i)] = i /\ Place(P, i) \in 1..m
        /\ m \in Nat
    <3>1. m \in Nat /\ \A i \in P : Place(P, i) \in 1..m
      BY <1>1, <2>3, PlaceType
    <3> QED BY <2>4, <3>1 DEF Numbers, Order
  <2> HIDE DEF m
  <2>7. DOMAIN list = 1..m /\ IsList(list)
    BY <2>5, <2>6 DEF IsList
  <2>8. ASSUME NEW i \in 1..n
        PROVE  /\ whole[i].name = es[i].name /\ whole[i].content = Returned(enc, es[i].content)
               /\ whole[i] \in FormFieldData
    <3>4. es[i].content \in Text
      BY <1>1 DEF Entry
    <3>1. es[i].name \in Text /\ Returned(enc, es[i].content) \in Text /\ <<>> \in Text
      BY <1>1, <3>4, TextConcat, ReturnedType DEF Entry
    <3> DEFINE x == es[i].name
               y == Returned(enc, es[i].content)
               w == whole[i]
    <3>2. w = [name |-> x, filename |-> <<>>, type |-> <<>>, content |-> y]
      BY <2>2 DEF FieldData
    <3> HIDE DEF x, y, w
    <3>3. w.name = x /\ w.content = y /\ w \in FormFieldData
      BY <3>1, <3>2 DEF FormFieldData, x, y
    <3> QED BY <3>3 DEF x, y, w
  <2>9. ASSUME NEW i \in 1..m, list[i].name = e.name
        PROVE  list[i].content = Returned(enc, e.content) /\ list[i] \in FormFieldData
    <3> DEFINE j == nth[i]
    <3>1. j \in 1..n /\ list[i] = whole[j]
      BY <2>3, <2>5, <2>6
    <3> HIDE DEF j
    <3>2. es[j].name = es[k].name
      BY <1>2, <2>8, <2>9, <3>1
    <3>3. j = k
      BY <1>1, <3>1, <3>2
    <3> QED BY <1>2, <2>8, <3>1, <3>3
  <2>10. ASSUME e.content # <<>> PROVE \E i \in 1..m : list[i].name = e.name
    <3>1. k \in P
      BY <1>2, <2>3, <2>10
    <3>2. list[Place(P, k)] = whole[k] /\ Place(P, k) \in 1..m
      BY <2>5, <2>6, <3>1
    <3> QED BY <1>2, <2>8, <3>2
  <2>12. Returned(enc, e.content) = <<>> <=> e.content = <<>>
    BY <1>5, ReturnedType
  <2>11. Tells(list, e.name, Returned(enc, e.content))
    BY <2>7, <2>9, <2>10, <2>12 DEF Tells
  <2> QED BY <2>7, <2>11 DEF list
<1> QED BY <1>3, <1>4

\* A form that can be submitted is parsed as it was submitted.
ParsedRight(enc, es, result) ==
  Submittable(es) /\ ~Unwritable(enc, es) =>
    /\ result = Carried(enc, es)
    /\ \A e \in Range(es) :
         ContentOf(result, e.name) = IF e.content = <<>> THEN None ELSE Returned(enc, e.content)

\* parse() and content() get it right.
LEMMA SubmittedParsed ==
  ASSUME NEW enc \in Encodings, NEW es \in Seq(FormFieldData), NEW past \in Nat
  PROVE  ParsedRight(enc, es, Parse(ContentType(enc), FormBody(enc, es), past))
<1> SUFFICES ASSUME Submittable(es), ~Unwritable(enc, es)
             PROVE  LET result == Parse(ContentType(enc), FormBody(enc, es), past)
                    IN  /\ result = Carried(enc, es)
                        /\ \A e \in Range(es) :
                             ContentOf(result, e.name) = IF e.content = <<>> THEN None ELSE Returned(enc, e.content)
  BY DEF ParsedRight
<1>1. Entered(es)
  BY SubmittableEntry DEF Entered
<1>2. Parse(ContentType(enc), FormBody(enc, es), past) = Carried(enc, es)
  BY <1>1, FormParsed
<1>3. \A i, j \in DOMAIN es : es[i].name = es[j].name => i = j
  BY DEF Submittable
<1>4. ASSUME NEW e \in Range(es)
      PROVE  ContentOf(Carried(enc, es), e.name) = IF e.content = <<>> THEN None ELSE Returned(enc, e.content)
  <2> DEFINE content == Returned(enc, e.content)
             list == Carried(enc, es)
  <2>1. IsList(list) /\ Tells(list, e.name, content)
    BY <1>1, <1>3, CarriedTells
  <2> HIDE DEF list
  <2>2. ContentOf(list, e.name) = IF content = <<>> THEN None ELSE content
    BY <2>1, ContentFound
  <2>3. content = <<>> <=> e.content = <<>>
    <3>1. es \in Seq(FormFieldData) /\ e \in FormFieldData
      BY DEF Range
    <3>2. e.content \in Text
      BY <3>1 DEF FormFieldData
    <3> QED BY <3>2, ReturnedType
  <2> HIDE DEF content
  <2>4. ContentOf(list, e.name) = IF e.content = <<>> THEN None ELSE content
    BY <2>2, <2>3
  <2> QED BY <2>4 DEF list, content
<1> QED BY <1>2, <1>4

\* ParsedIsSubmitted: form::parse() gives back what the user filled in, whatever
\* the texts of a form and in each of its three encodings, but for the + that a
\* urlencoded space stays, and content() finds each entry by its name.
THEOREM SubmittedComesBack == ContentSpec => []ParsedIsSubmitted
<1>1. ContentInit => ParsedIsSubmitted
  BY DEF ContentInit, ParsedIsSubmitted, Idle
<1>2. ParsedIsSubmitted /\ [ContentNext]_contentvars => ParsedIsSubmitted'
  <2> SUFFICES ASSUME ParsedIsSubmitted, [ContentNext]_contentvars PROVE ParsedIsSubmitted'
    OBVIOUS
  <2>1. ASSUME UNCHANGED <<asked, answer>> PROVE ParsedIsSubmitted'
    BY <2>1 DEF ParsedIsSubmitted
  <2>2. ASSUME asked'.kind # "form" PROVE ParsedIsSubmitted'
    BY <2>2 DEF ParsedIsSubmitted
  <2>3. CASE Keep
    BY <2>1, <2>3 DEF Keep, AddField, Submit, Populate, ClearValues
  <2>4. ASSUME NEW enc \in Encodings, NEW es \in Entries, ParseForm(enc, es) PROVE ParsedIsSubmitted'
    <3>1. PICK past \in 0..1 : /\ asked' = [kind |-> "form", enc |-> enc, entries |-> es]
                               /\ answer' = Parse(ContentType(enc), FormBody(enc, es), past)
      BY <2>4 DEF ParseForm, Ask
    <3>2. asked'.enc = enc /\ asked'.entries = es
      BY <3>1
    <3>3. es \in Seq(FormFieldData) /\ past \in Nat
      BY TextsAssumption
    <3>4. ParsedRight(enc, es, answer')
      BY <3>1, <3>3, SubmittedParsed
    <3> QED BY <3>2, <3>4 DEF ParsedIsSubmitted, ParsedRight
  <2>5. ASSUME NEW jar \in Jars, NEW https \in BOOLEAN, NEW name \in Names, ReadCookie(jar, https, name)
        PROVE  ParsedIsSubmitted'
    BY <2>2, <2>5 DEF ReadCookie, Ask
  <2>6. ASSUME NEW u \in Credentials, NEW p \in Credentials, NEW w \in Credentials, NEW q \in Credentials,
               Authorise(u, p, w, q)
        PROVE  ParsedIsSubmitted'
    BY <2>2, <2>6 DEF Authorise, Ask
  <2>7. CASE Question
    BY <2>4, <2>5, <2>6, <2>7 DEF Question
  <2>8. CASE NextRequest
    BY <2>2, <2>8 DEF NextRequest, Idle
  <2>9. CASE UNCHANGED contentvars
    BY <2>1, <2>9 DEF contentvars
  <2> QED BY <2>3, <2>7, <2>8, <2>9 DEF ContentNext
<1> QED BY <1>1, <1>2, PTL DEF ContentSpec
=============================================================================
