------------------------ MODULE SessionManagerProofs ------------------------
(***************************************************************************)
(* Proofs about SessionManager.tla for every set of handlers, clients, ids *)
(* and records.  Until generate_id() repeats an id that somebody may still *)
(* come back with, no two clients share a session, handlers that share one *)
(* hold one object, and an old cookie never becomes valid again.  That a   *)
(* record is stored under the id it holds, and that a session leaves the   *)
(* storage for one of two reasons only, needs nothing of the generator.    *)
(***************************************************************************)
EXTENDS SessionManager, TLAPS

\* A record is stored under its own id.
KeyInv == \A i \in Ids : sessions[i] # None => id[sessions[i]] = i

\* Nothing is left of a request that was responded to.
QuietInv == \A h \in Handlers : client[h] = None => sent[h] = None /\ reply[h] = None

\* c may come back with i, or uses the session of that id.
Uses(c, i) == /\ i \notin {None, Cleared}
              /\ \/ jar[c] = i
                 \/ \E h \in Handlers : /\ client[h] = c
                                        /\ \/ sent[h] = i \/ reply[h] = i
                                           \/ handle[h] # None /\ id[handle[h]] = i

PrivateInv == \A c, d \in Clients, i \in Ids : Uses(c, i) /\ Uses(d, i) => c = d

\* The object that handlers hold is the stored one or was destroyed.
ObjectInv == \A h \in Handlers :
               handle[h] # None => sessions[id[handle[h]]] \in {handle[h], None}

Distinct == ~repeated => ObjectInv /\ PrivateInv

IInv == TypeInv /\ KeyInv /\ QuietInv /\ Distinct

Constants == /\ None \notin Ids \cup Records \cup Clients
             /\ Cleared \notin Ids \cup {None}
             /\ MaxLifetime \in Nat

LEMMA ConstantsHold == Constants
  BY NoneAssumption, ClearedAssumption, LifetimeAssumption DEF Constants

LEMMA InitInv == Init => IInv
<1> SUFFICES ASSUME Init PROVE IInv
  OBVIOUS
<1> USE ConstantsHold DEF Constants
<1>0. repeated \in BOOLEAN
  BY DEF Init
<1>1. TypeInv
  BY <1>0 DEF Init, TypeInv, Alive, Stored, Held, TooOld
<1>2. KeyInv /\ QuietInv /\ ObjectInv
  BY DEF Init, KeyInv, QuietInv, ObjectInv
<1>3. PrivateInv
  BY DEF Init, PrivateInv, Uses
<1> QED BY <1>1, <1>2, <1>3 DEF IInv, Distinct

-----------------------------------------------------------------------------
(* What an action keeps of a record depends on three things only.          *)

\* Records that are alive keep their ids, and those that are freed lose them.
LEMMA FreedIds ==
  ASSUME TypeInv, Freed, Alive' \subseteq Alive
  PROVE  /\ id' \in [Records -> Ids \cup {None}]
         /\ age' \in [Records -> 0..TooOld]
         /\ \A r \in Records : r \in Alive' <=> id'[r] # None
         /\ \A r \in Alive' \cap Records : id'[r] = id[r]
<1> USE ConstantsHold DEF Constants
<1>1. id \in [Records -> Ids \cup {None}] /\ age \in [Records -> 0..TooOld]
  BY DEF TypeInv
<1>2. \A r \in Records : r \in Alive => id[r] # None
  BY DEF TypeInv
<1>3. 0 \in 0..TooOld
  BY DEF TooOld
<1> QED BY <1>1, <1>2, <1>3 DEF Freed

\* An id a client uses is one that somebody may come back with.
LEMMA UsedInUse ==
  ASSUME NEW c \in Clients, NEW i \in Ids, Uses(c, i)
  PROVE  i \in InUse
<1>1. CASE \E h \in Handlers : handle[h] # None /\ id[handle[h]] = i
  BY <1>1 DEF InUse, Held
<1> QED BY <1>1 DEF Uses, InUse

\* An action after which clients use no more than they used keeps them apart.
LEMMA StillPrivate ==
  ASSUME PrivateInv, \A c \in Clients, i \in Ids : Uses(c, i)' => Uses(c, i)
  PROVE  PrivateInv'
  BY DEF PrivateInv

-----------------------------------------------------------------------------
LEMMA BeginInv ==
  ASSUME IInv, NEW h \in Handlers, NEW c \in Clients, Begin(h, c)
  PROVE  IInv'
<1> USE ConstantsHold DEF Constants, IInv, Begin, store
<1>1. TypeInv'
  BY DEF TypeInv, Alive, Stored, Held
<1>2. KeyInv' /\ QuietInv' /\ (ObjectInv => ObjectInv') /\ repeated' = repeated
  BY DEF TypeInv, KeyInv, QuietInv, ObjectInv
<1>3. ASSUME NEW d \in Clients, NEW i \in Ids, Uses(d, i)' PROVE Uses(d, i)
  BY <1>3 DEF TypeInv, QuietInv, Uses
<1> QED BY <1>1, <1>2, <1>3, StillPrivate DEF Distinct

\* The jar takes over what the handler used, and the handler lets go of it.
LEMMA RespondInv ==
  ASSUME IInv, NEW h \in Handlers, Respond(h)
  PROVE  IInv'
<1> USE ConstantsHold DEF Constants, IInv
<1>1. /\ sessions' = sessions
      /\ jar' = [jar EXCEPT ![client[h]] =
                   IF reply[h] = None THEN @ ELSE IF reply[h] = Cleared THEN None ELSE reply[h]]
      /\ client' = [client EXCEPT ![h] = None]
      /\ sent' = [sent EXCEPT ![h] = None]
      /\ reply' = [reply EXCEPT ![h] = None]
      /\ handle' = [handle EXCEPT ![h] = None]
      /\ client[h] \in Clients
      /\ repeated' = repeated
  BY DEF Respond, TypeInv
<1>2. Alive' \subseteq Alive
  BY <1>1 DEF TypeInv, Alive, Stored, Held
<1>3. /\ id' \in [Records -> Ids \cup {None}]
      /\ age' \in [Records -> 0..TooOld]
      /\ \A r \in Records : r \in Alive' <=> id'[r] # None
      /\ \A r \in Alive' \cap Records : id'[r] = id[r]
  BY <1>2, FreedIds DEF Respond
<1>4. TypeInv'
  BY <1>1, <1>3 DEF TypeInv
<1>5. \A k \in Handlers : handle'[k] # None =>
        handle'[k] = handle[k] /\ id'[handle'[k]] = id[handle[k]]
  BY <1>1, <1>3, <1>4 DEF TypeInv, Alive, Held
<1>6. \A i \in Ids : sessions'[i] # None => id'[sessions'[i]] = id[sessions[i]]
  BY <1>1, <1>3, <1>4 DEF TypeInv, Alive, Stored
<1>7. KeyInv' /\ QuietInv' /\ (ObjectInv => ObjectInv') /\ repeated' = repeated
  BY <1>1, <1>5, <1>6 DEF TypeInv, KeyInv, QuietInv, ObjectInv, Respond
<1>8. ASSUME NEW c \in Clients, NEW i \in Ids, Uses(c, i)' PROVE Uses(c, i)
  <2>1. CASE jar'[c] = i
    BY <1>1, <1>8, <2>1 DEF TypeInv, Uses
  <2>2. CASE jar'[c] # i
    BY <1>1, <1>5, <1>8, <2>2 DEF TypeInv, Uses
  <2> QED BY <2>1, <2>2
<1> QED BY <1>4, <1>7, <1>8, StillPrivate DEF Distinct

\* A handler gets the session of the cookie its client sent.
LEMMA LookupInv ==
  ASSUME IInv, NEW h \in Handlers, client[h] # None, handle[h] = None,
         handle' = [handle EXCEPT ![h] = Lookup(h)],
         UNCHANGED <<store, client, sent, reply, jar, repeated>>
  PROVE  IInv'
<1> USE ConstantsHold DEF Constants, IInv, store
<1>1. CASE Lookup(h) = None
  BY <1>1 DEF TypeInv, KeyInv, QuietInv, Distinct, ObjectInv, PrivateInv, Uses, Alive, Stored, Held
<1>2. CASE Lookup(h) # None
  <2>1. /\ sent[h] \in Ids /\ Lookup(h) = sessions[sent[h]]
        /\ sessions[sent[h]] \in Records /\ id[sessions[sent[h]]] = sent[h]
    BY <1>2 DEF Lookup, GetId, TypeInv, KeyInv
  <2>2. Alive' = Alive
    BY <2>1 DEF TypeInv, Alive, Stored, Held
  <2>3. TypeInv'
    BY <2>1, <2>2 DEF TypeInv
  <2>4. KeyInv' /\ QuietInv' /\ (ObjectInv => ObjectInv')
    BY <2>1 DEF TypeInv, KeyInv, QuietInv, ObjectInv
  <2>5. ASSUME NEW c \in Clients, NEW i \in Ids, Uses(c, i)' PROVE Uses(c, i)
    BY <2>1, <2>5 DEF TypeInv, Uses
  <2> QED BY <2>3, <2>4, <2>5, StillPrivate DEF Distinct
<1> QED BY <1>1, <1>2

\* A new session has a record that nobody holds; it is private if its id is one
\* that nobody uses.
LEMMA CreateInv ==
  ASSUME IInv, NEW h \in Handlers, client[h] # None, handle[h] = None,
         NEW r \in Records, NEW i \in Ids, Create(h, r, i),
         UNCHANGED <<client, sent, jar>>, repeated' = (repeated \/ i \in InUse)
  PROVE  IInv'
<1> USE ConstantsHold DEF Constants, IInv
<1>1. /\ r \notin Alive
      /\ id' = [id EXCEPT ![r] = i]
      /\ age' = [age EXCEPT ![r] = 0]
      /\ sessions' = IF sessions[i] = None THEN [sessions EXCEPT ![i] = r] ELSE sessions
      /\ handle' = [handle EXCEPT ![h] = r]
      /\ reply' = [reply EXCEPT ![h] = i]
      /\ client' = client /\ sent' = sent /\ jar' = jar
  BY DEF Create, UpdateAccessTime, GenerateCookie
<1>2. /\ \A j \in Ids : sessions[j] # r
      /\ \A k \in Handlers : handle[k] # r
  BY <1>1 DEF Alive, Stored, Held
<1>3. Alive' = Alive \cup {r}
  <2>1. Held' = Held \cup {r}
    BY <1>1 DEF TypeInv, Held
  <2>2. Stored' = Stored \/ Stored' = Stored \cup {r}
    BY <1>1 DEF TypeInv, Stored
  <2> QED BY <2>1, <2>2 DEF Alive
<1>4. TypeInv'
  <2>1. /\ sessions' \in [Ids -> Records \cup {None}]
        /\ id' \in [Records -> Ids \cup {None}]
        /\ age' \in [Records -> 0..TooOld]
        /\ handle' \in [Handlers -> Records \cup {None}]
        /\ reply' \in [Handlers -> Ids \cup {None, Cleared}]
    BY <1>1 DEF TypeInv, TooOld
  <2>2. \A k \in Handlers : handle'[k] # None => client'[k] # None
    BY <1>1 DEF TypeInv
  <2>3. \A q \in Records : q \in Alive' <=> id'[q] # None
    BY <1>1, <1>3 DEF TypeInv
  <2> QED BY <1>1, <2>1, <2>2, <2>3 DEF TypeInv
<1>5. KeyInv' /\ QuietInv'
  BY <1>1, <1>2 DEF TypeInv, KeyInv, QuietInv
<1>6. ASSUME ~repeated' PROVE ObjectInv' /\ PrivateInv'
  <2>1. /\ i \notin InUse /\ sessions[i] = None
        /\ \A c \in Clients : ~Uses(c, i)
        /\ ObjectInv /\ PrivateInv
    BY <1>6, UsedInUse DEF InUse, Distinct
  <2>2. sessions' = [sessions EXCEPT ![i] = r]
    BY <1>1, <2>1
  <2>3. \A k \in Handlers : k # h /\ handle[k] # None => id[handle[k]] # i /\ id[handle[k]] \in Ids
    BY <2>1 DEF InUse, Held, Alive, TypeInv
  <2>4. ObjectInv'
    BY <1>1, <1>2, <2>1, <2>2, <2>3 DEF TypeInv, ObjectInv
  <2>5. ASSUME NEW c \in Clients, NEW j \in Ids, Uses(c, j)'
        PROVE  Uses(c, j) \/ (j = i /\ c = client[h])
    BY <1>1, <1>2, <2>5 DEF TypeInv, Uses
  <2>6. PrivateInv'
    BY <2>1, <2>5 DEF PrivateInv
  <2> QED BY <2>4, <2>6
<1> QED BY <1>4, <1>5, <1>6 DEF Distinct

\* Sessions leave the storage: those that nobody holds are freed.
LEMMA RemoveInv ==
  ASSUME IInv, Freed, UNCHANGED <<client, sent, handle, jar, repeated>>,
         sessions' \in [Ids -> Records \cup {None}],
         \A i \in Ids : sessions'[i] \in {sessions[i], None},
         reply' \in [Handlers -> Ids \cup {None, Cleared}],
         \A h \in Handlers : reply'[h] = reply[h] \/ (reply'[h] = Cleared /\ client[h] # None)
  PROVE  IInv'
<1> USE ConstantsHold DEF Constants, IInv
<1>1. Alive' \subseteq Alive
  BY DEF TypeInv, Alive, Stored, Held
<1>2. /\ id' \in [Records -> Ids \cup {None}]
      /\ age' \in [Records -> 0..TooOld]
      /\ \A r \in Records : r \in Alive' <=> id'[r] # None
      /\ \A r \in Alive' \cap Records : id'[r] = id[r]
  BY <1>1, FreedIds
<1>3. TypeInv'
  BY <1>2 DEF TypeInv
<1>4. \A h \in Handlers : handle[h] # None => id'[handle[h]] = id[handle[h]]
  BY <1>2 DEF TypeInv, Alive, Held
<1>5. \A i \in Ids : sessions'[i] # None => sessions'[i] = sessions[i] /\ id'[sessions[i]] = id[sessions[i]]
  BY <1>2 DEF TypeInv, Alive, Stored
<1>6. \A h \in Handlers : handle[h] # None => id[handle[h]] \in Ids
  BY DEF TypeInv, Alive, Held
<1>7. KeyInv' /\ QuietInv' /\ (ObjectInv => ObjectInv')
  BY <1>4, <1>5, <1>6 DEF KeyInv, QuietInv, ObjectInv
<1>8. ASSUME NEW c \in Clients, NEW i \in Ids, Uses(c, i)' PROVE Uses(c, i)
  BY <1>4, <1>8 DEF Uses
<1> QED BY <1>3, <1>7, <1>8, StillPrivate DEF Distinct

\* Time passes, and sessions are used.
LEMMA AgeInv ==
  ASSUME IInv, UNCHANGED <<sessions, id, client, sent, reply, handle, jar, repeated>>,
         age' \in [Records -> 0..TooOld]
  PROVE  IInv'
  BY DEF IInv, TypeInv, KeyInv, QuietInv, Distinct, ObjectInv, PrivateInv, Uses, Alive, Stored, Held

LEMMA DestroyInv ==
  ASSUME IInv, NEW h \in Handlers, Destroy(h)
  PROVE  IInv'
<1>1. PICK i \in Ids : sessions' = [sessions EXCEPT ![i] = None]
  BY ConstantsHold DEF Constants, Destroy, GetId, IInv, TypeInv
<1>2. reply' = [reply EXCEPT ![h] = Cleared] /\ client[h] # None
  BY DEF Destroy
<1>3. sessions \in [Ids -> Records \cup {None}] /\ reply \in [Handlers -> Ids \cup {None, Cleared}]
  BY DEF IInv, TypeInv
<1>4. /\ sessions' \in [Ids -> Records \cup {None}]
      /\ \A j \in Ids : sessions'[j] \in {sessions[j], None}
      /\ reply' \in [Handlers -> Ids \cup {None, Cleared}]
      /\ \A k \in Handlers : reply'[k] = reply[k] \/ (reply'[k] = Cleared /\ client[k] # None)
  BY <1>1, <1>2, <1>3
<1> QED BY <1>4, RemoveInv DEF Destroy

LEMMA DestroyExpiredInv ==
  ASSUME IInv, DestroyExpired
  PROVE  IInv'
<1>1. sessions \in [Ids -> Records \cup {None}] /\ reply \in [Handlers -> Ids \cup {None, Cleared}]
  BY DEF IInv, TypeInv
<1>2. /\ sessions' \in [Ids -> Records \cup {None}]
      /\ \A i \in Ids : sessions'[i] \in {sessions[i], None}
      /\ reply' = reply
  BY <1>1 DEF DestroyExpired
<1> QED BY <1>1, <1>2, RemoveInv DEF DestroyExpired

\* Start() finds a session or creates one.
LEMMA StartInv ==
  ASSUME IInv, NEW h \in Handlers, Start(h)
  PROVE  IInv'
<1>1. CASE Lookup(h) # None
  <2>1. handle' = [handle EXCEPT ![h] = Lookup(h)] /\ UNCHANGED <<store, client, sent, reply, jar, repeated>>
    BY <1>1 DEF Start
  <2> QED BY <2>1, LookupInv DEF Start
<1>2. CASE Lookup(h) = None
  BY <1>2, CreateInv DEF Start, GenerateId
<1> QED BY <1>1, <1>2

LEMMA Inductive == IInv /\ [Next]_vars => IInv'
<1> SUFFICES ASSUME IInv, [Next]_vars PROVE IInv'
  OBVIOUS
<1>1. ASSUME NEW h \in Handlers, Handling(h) PROVE IInv'
  <2>1. CASE Get(h)
    BY <2>1, LookupInv DEF Get
  <2>2. CASE Access(h)
    <3>1. age' \in [Records -> 0..TooOld]
      BY <2>2, ConstantsHold DEF Constants, Access, UpdateAccessTime, IInv, TypeInv, TooOld
    <3> QED BY <2>2, <3>1, AgeInv DEF Access
  <2> QED BY <1>1, <2>1, <2>2, RespondInv, StartInv, DestroyInv DEF Handling
<1>2. CASE Tick
  <2>1. age' \in [Records -> 0..TooOld]
    BY <1>2, ConstantsHold DEF Constants, Tick, IInv, TypeInv, TooOld
  <2> QED BY <1>2, <2>1, AgeInv DEF Tick
<1>3. CASE UNCHANGED vars
  <2>1. age' \in [Records -> 0..TooOld]
    BY <1>3 DEF vars, store, IInv, TypeInv
  <2> QED BY <1>3, <2>1, AgeInv DEF vars, store
<1> QED BY <1>1, <1>2, <1>3, BeginInv, DestroyExpiredInv DEF Next

THEOREM Invariance == Spec => []IInv
<1> QED BY InitInv, Inductive, PTL DEF Spec

\* Types; a record is alive exactly while it has an id; and only a handler with
\* a request holds a session.
THEOREM TypeCorrect == Spec => []TypeInv
<1>1. IInv => TypeInv
  BY DEF IInv
<1> QED BY <1>1, Invariance, PTL

\* Until generate_id() repeats an id that is still around, no two clients share a
\* session, for every number of clients, handlers, ids and records
\* (manager.cpp:45-118, storage_memory.hpp:70-91).
THEOREM NeverShared == Spec => []SessionsPrivate
<1>1. ASSUME IInv PROVE SessionsPrivate
  <2> SUFFICES ASSUME ~repeated, NEW c \in Clients, NEW d \in Clients, c # d,
                      NEW i \in Reach(c), i \in Reach(d)
               PROVE  FALSE
    BY DEF SessionsPrivate
  <2>1. i \in Ids
    BY <1>1, ConstantsHold DEF Constants, IInv, TypeInv, Reach
  <2>2. Uses(c, i) /\ Uses(d, i)
    BY DEF Reach, Uses
  <2> QED BY <1>1, <2>1, <2>2 DEF IInv, Distinct, PrivateInv
<1> QED BY <1>1, Invariance, PTL

\* Until an id is repeated, handlers with the session of one cookie hold one
\* object, the stored one unless it was destroyed (manager.cpp:58-68).
THEOREM OneRecord == Spec => []OneRecordPerId
<1>1. IInv => OneRecordPerId
  BY DEF IInv, Distinct, ObjectInv, OneRecordPerId
<1> QED BY <1>1, Invariance, PTL

-----------------------------------------------------------------------------
\* A session enters the storage under an id that is not in use, or one was
\* repeated.
LEMMA StoredStep ==
  ASSUME IInv, [Next]_vars, NEW i \in Ids, sessions[i] = None, ~repeated'
  PROVE  sessions'[i] = None \/ i \notin InUse
<1>0. sessions \in [Ids -> Records \cup {None}]
  BY DEF IInv, TypeInv
<1>1. ASSUME NEW h \in Handlers, Start(h) PROVE sessions'[i] = None \/ i \notin InUse
  BY <1>0, <1>1 DEF Start, Create, store
<1>2. ASSUME NEW h \in Handlers, Destroy(h) PROVE sessions'[i] = None
  BY <1>0, <1>2 DEF Destroy
<1>3. CASE DestroyExpired
  BY <1>0, <1>3 DEF DestroyExpired
<1>4. CASE UNCHANGED sessions
  BY <1>4
<1> QED BY <1>1, <1>2, <1>3, <1>4 DEF Next, Handling, Begin, Respond, Get, Access, Tick, vars, store

\* The cookie of a session that is gone becomes valid again only when
\* generate_id() repeats its id (manager.cpp:57-68).
THEOREM DeadForGood == Spec => DeadCookieStaysDead
<1>1. ASSUME IInv, [Next]_vars, ~repeated', NEW c \in Clients, jar[c] # None, sessions[jar[c]] = None
      PROVE  sessions'[jar[c]] = None
  <2>1. jar[c] \in Ids /\ jar[c] \in InUse
    BY <1>1 DEF IInv, TypeInv, InUse
  <2> QED BY <1>1, <2>1, StoredStep
<1>2. IInv /\ [Next]_vars =>
        [~repeated' => \A c \in Clients : jar[c] # None /\ sessions[jar[c]] = None =>
                         sessions'[jar[c]] = None]_vars
  BY <1>1
<1> QED BY <1>2, Invariance, PTL DEF Spec, DeadCookieStaysDead

\* Whatever generate_id() gives, a stored session goes when its own cookie
\* destroys it or when nobody used it for longer than the lifetime, and no other
\* takes its place (manager.cpp:81-118, storage_memory.hpp:78).
THEOREM KeptInUse == Spec => KeptWhileUsed
<1>1. ASSUME IInv, [Next]_vars, NEW i \in Ids, sessions[i] # None, sessions'[i] # sessions[i]
      PROVE  \/ age[sessions[i]] > MaxLifetime
             \/ \E h \in Handlers : sent[h] = i /\ reply'[h] = Cleared
  <2>0. /\ sessions \in [Ids -> Records \cup {None}]
        /\ reply \in [Handlers -> Ids \cup {None, Cleared}]
    BY <1>1 DEF IInv, TypeInv
  <2>1. ASSUME NEW h \in Handlers, Start(h) PROVE FALSE
    BY <1>1, <2>0, <2>1 DEF Start, Create, store
  <2>2. ASSUME NEW h \in Handlers, Destroy(h) PROVE sent[h] = i /\ reply'[h] = Cleared
    BY <1>1, <2>0, <2>2 DEF Destroy, GetId
  <2>3. CASE DestroyExpired
    BY <1>1, <2>0, <2>3 DEF DestroyExpired, AccessTimeOlderThan
  <2>4. CASE UNCHANGED sessions
    BY <1>1, <2>4
  <2> QED BY <1>1, <2>1, <2>2, <2>3, <2>4 DEF Next, Handling, Begin, Respond, Get, Access, Tick, vars, store
<1>2. IInv /\ [Next]_vars =>
        [\A i \in Ids : sessions[i] # None /\ sessions'[i] # sessions[i] =>
           \/ age[sessions[i]] > MaxLifetime
           \/ \E h \in Handlers : sent[h] = i /\ reply'[h] = Cleared]_vars
  BY <1>1
<1> QED BY <1>2, Invariance, PTL DEF Spec, KeptWhileUsed
=============================================================================
