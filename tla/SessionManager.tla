--------------------------- MODULE SessionManager ---------------------------
(***************************************************************************)
(* malloy::http::sessions: manager.cpp over storage_memory.hpp and         *)
(* session.hpp, used by request handlers that run at the same time on      *)
(* different connections.                                                  *)
(*                                                                         *)
(* The manager holds m_lock in get(), start(), destroy() and               *)
(* destroy_expired(), so each is one step.  What the handler does with the *)
(* session it got is not under the lock: set(), get() and remove() of a    *)
(* session refresh its access time at any time; the data they work on is   *)
(* left out.  Of the access time only the age matters, and not how far it  *)
(* is past the lifetime.                                                   *)
(*                                                                         *)
(* Handlers and the clients' cookie jars are external.                     *)
(***************************************************************************)
EXTENDS Naturals, FiniteSets

CONSTANTS Handlers,     \* requests being handled at the same time
          Clients,      \* each with one cookie jar
          Ids,          \* session ids
          Records,      \* session objects
          None,         \* no id, no record, no client
          Cleared,      \* the cookie that destroy() answers with
          MaxLifetime   \* the lifetime given to destroy_expired(), in ticks

ASSUME NoneAssumption == None \notin Ids \cup Records \cup Clients
ASSUME ClearedAssumption == Cleared \notin Ids \cup {None}
ASSUME LifetimeAssumption == MaxLifetime \in Nat

VARIABLES
  sessions,  \* m_sessions: the record stored under an id
  id,        \* m_id of each record
  age,       \* now - m_access_time of each record
  client,    \* the client whose request a handler works on
  sent,      \* the session cookie of that request
  reply,     \* the session cookie of its response, None if it sets none
  handle,    \* the session the handler holds
  jar,       \* the cookie each client sends
  repeated   \* history: an id was generated that somebody may come back with

store == <<sessions, id, age>>
vars == <<store, client, sent, reply, handle, jar, repeated>>

TooOld == MaxLifetime + 1

Init == /\ sessions = [i \in Ids |-> None]
        /\ id = [r \in Records |-> None]
        /\ age = [r \in Records |-> 0]
        /\ client = [h \in Handlers |-> None]
        /\ sent = [h \in Handlers |-> None]
        /\ reply = [h \in Handlers |-> None]
        /\ handle = [h \in Handlers |-> None]
        /\ jar = [c \in Clients |-> None]
        /\ repeated = FALSE

Stored == {sessions[i] : i \in Ids} \ {None}
Held == {handle[h] : h \in Handlers} \ {None}
Alive == Stored \cup Held

\* A record goes with the last shared_ptr to it.
Freed == /\ id' = [r \in Records |-> IF r \in Alive' THEN id[r] ELSE None]
         /\ age' = [r \in Records |-> IF r \in Alive' THEN age[r] ELSE 0]

\* The ids anybody may still come back with.
InUse == {i \in Ids : \/ sessions[i] # None
                      \/ \E r \in Held : id[r] = i
                      \/ \E c \in Clients : jar[c] = i
                      \/ \E h \in Handlers : sent[h] = i \/ reply[h] = i}

-----------------------------------------------------------------------------
(* Requests come and go.                                                   *)

Begin(h, c) == /\ client[h] = None
               /\ client' = [client EXCEPT ![h] = c]
               /\ sent' = [sent EXCEPT ![h] = jar[c]]
               /\ UNCHANGED <<store, reply, handle, jar, repeated>>

Respond(h) ==
  /\ client[h] # None
  /\ jar' = [jar EXCEPT ![client[h]] =
               IF reply[h] = None THEN @ ELSE IF reply[h] = Cleared THEN None ELSE reply[h]]
  /\ client' = [client EXCEPT ![h] = None]
  /\ sent' = [sent EXCEPT ![h] = None]
  /\ reply' = [reply EXCEPT ![h] = None]
  /\ handle' = [handle EXCEPT ![h] = None]
  /\ UNCHANGED <<sessions, repeated>>
  /\ Freed

-----------------------------------------------------------------------------
(* The manager, under its lock.                                            *)

\* get_id(): the ids in the request's cookie, one or none.
GetId(h) == {sent[h]} \ {None}

\* storage_memory::get() of that id.
Lookup(h) == IF GetId(h) = {} THEN None ELSE sessions[sent[h]]

\* generate_id(): random letters of a generator with a 32-bit seed, which
\* nothing compares with the ids in use.
GenerateId == Ids

\* A new record is as young as one that was just used.
UpdateAccessTime(r) == age' = [age EXCEPT ![r] = 0]

\* The session's cookie holds its id.
GenerateCookie(h, i) == reply' = [reply EXCEPT ![h] = i]

\* Mutant: the id is moved into the key of the map first.
CreateMoved(h, r, i) ==
  /\ r \notin Alive
  /\ UpdateAccessTime(r)
  /\ sessions' = IF sessions[i] = None THEN [sessions EXCEPT ![i] = r] ELSE sessions
  /\ handle' = [handle EXCEPT ![h] = r]
  /\ GenerateCookie(h, i)
  /\ UNCHANGED id

\* Mutant: records are pooled, and one is free once it has left the storage.
CreatePooled(h, r, i) ==
  /\ r \notin Stored
  /\ id' = [id EXCEPT ![r] = i]
  /\ UpdateAccessTime(r)
  /\ sessions' = IF sessions[i] = None THEN [sessions EXCEPT ![i] = r] ELSE sessions
  /\ handle' = [handle EXCEPT ![h] = r]
  /\ GenerateCookie(h, i)

\* storage_memory::create(): a new record, stored only under an id without
\* one (try_emplace), and handed out in any case.
Create(h, r, i) ==
  /\ r \notin Alive
  /\ id' = [id EXCEPT ![r] = i]
  /\ UpdateAccessTime(r)
  /\ sessions' = IF sessions[i] = None THEN [sessions EXCEPT ![i] = r] ELSE sessions
  /\ handle' = [handle EXCEPT ![h] = r]
  /\ GenerateCookie(h, i)

\* manager::get(), without a session to be found too.
Get(h) == /\ client[h] # None /\ handle[h] = None
          /\ handle' = [handle EXCEPT ![h] = Lookup(h)]
          /\ UNCHANGED <<store, client, sent, reply, jar, repeated>>

\* Mutant: a dead session is started again under the id of the cookie.
StartRevives(h) ==
  /\ client[h] # None /\ handle[h] = None
  /\ \/ /\ Lookup(h) # None
        /\ handle' = [handle EXCEPT ![h] = Lookup(h)]
        /\ UNCHANGED <<store, reply>>
     \/ /\ Lookup(h) = None
        /\ \E r \in Records, i \in IF sent[h] # None THEN {sent[h]} ELSE GenerateId \ InUse :
             Create(h, r, i)
  /\ UNCHANGED <<client, sent, jar, repeated>>

\* manager::start(): the session of the request's cookie, or a new one.
Start(h) ==
  /\ client[h] # None /\ handle[h] = None
  /\ \/ /\ Lookup(h) # None
        /\ handle' = [handle EXCEPT ![h] = Lookup(h)]
        /\ UNCHANGED <<store, reply, repeated>>
     \/ /\ Lookup(h) = None
        /\ \E r \in Records, i \in GenerateId :
             /\ Create(h, r, i)
             /\ repeated' = (repeated \/ i \in InUse)
  /\ UNCHANGED <<client, sent, jar>>

\* manager::destroy(): the id of the request's cookie, stored or not.
Destroy(h) ==
  /\ client[h] # None
  /\ \E i \in GetId(h) : sessions' = [sessions EXCEPT ![i] = None]
  /\ reply' = [reply EXCEPT ![h] = Cleared]
  /\ UNCHANGED <<client, sent, handle, jar, repeated>>
  /\ Freed

\* access_time_older_than().
AccessTimeOlderThan(r, lifetime) == age[r] > lifetime

\* Mutant: a session exactly as old as the lifetime goes too.
DestroyNotYetExpired ==
  /\ MaxLifetime > 0
  /\ sessions' = [i \in Ids |-> IF sessions[i] # None /\ age[sessions[i]] >= MaxLifetime
                                  THEN None ELSE sessions[i]]
  /\ UNCHANGED <<client, sent, reply, handle, jar, repeated>>
  /\ Freed

\* Mutant: sessions that somebody still holds are spared.
DestroyExpiredUnheld ==
  /\ MaxLifetime > 0
  /\ sessions' = [i \in Ids |-> IF /\ sessions[i] # None
                                   /\ sessions[i] \notin Held
                                   /\ age[sessions[i]] > MaxLifetime
                                  THEN None ELSE sessions[i]]
  /\ UNCHANGED <<client, sent, reply, handle, jar, repeated>>
  /\ Freed

\* manager::destroy_expired(), called by whoever looks after the sessions.
DestroyExpired ==
  /\ MaxLifetime > 0
  /\ sessions' = [i \in Ids |-> IF sessions[i] # None /\ AccessTimeOlderThan(sessions[i], MaxLifetime)
                                  THEN None ELSE sessions[i]]
  /\ UNCHANGED <<client, sent, reply, handle, jar, repeated>>
  /\ Freed

-----------------------------------------------------------------------------
(* Sessions, outside the lock.                                             *)

\* session::set(), get() and remove() refresh the access time.
Access(h) ==
  /\ handle[h] # None
  /\ UpdateAccessTime(handle[h])
  /\ UNCHANGED <<sessions, id, client, sent, reply, handle, jar, repeated>>

Tick == /\ age' = [r \in Records |-> IF r \notin Alive THEN 0
                                     ELSE IF age[r] = TooOld THEN TooOld ELSE age[r] + 1]
        /\ UNCHANGED <<sessions, id, client, sent, reply, handle, jar, repeated>>

Handling(h) == Respond(h) \/ Get(h) \/ Start(h) \/ Destroy(h) \/ Access(h)

Next == \/ \E h \in Handlers : (\E c \in Clients : Begin(h, c)) \/ Handling(h)
        \/ DestroyExpired
        \/ Tick

\* Time passes, and somebody calls destroy_expired() again and again, as
\* its users have to: the manager has no timer of its own.
Spec == Init /\ [][Next]_vars /\ WF_vars(Tick) /\ WF_vars(DestroyExpired)

-----------------------------------------------------------------------------
(* What should be true: privacy as long as generate_id() has not repeated  *)
(* an id, the lifetime of sessions even then.                              *)

\* Types; and a handler works on a session's map only while it holds the
\* session, and on a request only.
TypeInv ==
  /\ sessions \in [Ids -> Records \cup {None}]
  /\ id \in [Records -> Ids \cup {None}]
  /\ age \in [Records -> 0..TooOld]
  /\ client \in [Handlers -> Clients \cup {None}]
  /\ sent \in [Handlers -> Ids \cup {None}]
  /\ reply \in [Handlers -> Ids \cup {None, Cleared}]
  /\ handle \in [Handlers -> Records \cup {None}]
  /\ jar \in [Clients -> Ids \cup {None}]
  /\ repeated \in BOOLEAN
  /\ \A h \in Handlers : handle[h] # None => client[h] # None
  /\ \A r \in Records : r \in Alive <=> id[r] # None

\* The ids a client can come back with, and those of the sessions it uses.
Reach(c) ==
  ({jar[c]} \cup UNION {{sent[h], reply[h]} \cup {id[r] : r \in {handle[h]} \ {None}} :
                          h \in {k \in Handlers : client[k] = c}})
    \ {None, Cleared}

\* While no id was repeated, two clients never share a session, whatever
\* expires, is destroyed or is started again while old cookies are around.
SessionsPrivate ==
  ~repeated => \A c, d \in Clients : c # d => Reach(c) \cap Reach(d) = {}

\* While no id was repeated, all handlers that hold a session of one id hold
\* the same object, and it is the stored one unless that was destroyed
\* (manager.cpp:58-68).
OneRecordPerId ==
  ~repeated => \A h \in Handlers :
                 handle[h] # None => sessions[id[handle[h]]] \in {handle[h], None}

\* A cookie whose session is gone never becomes valid again, unless
\* generate_id() repeats its id.
DeadCookieStaysDead ==
  [][~repeated' => \A c \in Clients : jar[c] # None /\ sessions[jar[c]] = None =>
                     sessions'[jar[c]] = None]_vars

\* A stored session leaves the storage because a request with its cookie
\* destroys it, or when nobody used it for longer than the lifetime: a use
\* that is still going on counts.  Not even a repeated id replaces it.
KeptWhileUsed ==
  [][\A i \in Ids : sessions[i] # None /\ sessions'[i] # sessions[i] =>
       \/ age[sessions[i]] > MaxLifetime
       \/ \E h \in Handlers : sent[h] = i /\ reply'[h] = Cleared]_vars

\* A session nobody uses any more is removed in the end; a handler that only
\* looks it up does not keep it.
AbandonedExpire ==
  \A r \in Records : r \in Stored /\ age[r] = 1 ~> r \notin Stored \/ age[r] = 0
=============================================================================
