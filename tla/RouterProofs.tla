---------------------------- MODULE RouterProofs ----------------------------
(***************************************************************************)
(* Proofs about Router.tla, for any set of router objects, resources and   *)
(* targets.  While routers are put together, every sub-router has one      *)
(* parent, so that what add_subrouter() does to the tree of its argument   *)
(* is seen from above through the argument alone.  No table changes once   *)
(* the router is started, so what a policy said on the way of a request    *)
(* holds when the request arrives.                                         *)
(***************************************************************************)
EXTENDS Router, FiniteSetTheorems, WellFoundedInduction, TLAPS

-----------------------------------------------------------------------------
(* Sub-routers.                                                            *)

\* Reach is the least set of its kind: it is one, every other one contains it,
\* and so all but the first are there for a parent that is.
LEMMA ReachLeast ==
  ASSUME NEW r \in Objects, NEW among, among \subseteq Objects
  PROVE  /\ Reach(r, among) \subseteq among
         /\ r \in among => r \in Reach(r, among)
         /\ \A q \in Reach(r, among) : Children(q) \cap among \subseteq Reach(r, among)
         /\ \A S \in SUBSET among :
              {r} \cap among \subseteq S /\ (\A q \in S : Children(q) \cap among \subseteq S) => Reach(r, among) \subseteq S
  BY DEF Reach

LEMMA ReachParent ==
  ASSUME NEW r \in Objects, NEW among, among \subseteq Objects, NEW c \in Reach(r, among), c # r
  PROVE  \E q \in Reach(r, among) : c \in Children(q)
<1> SUFFICES ASSUME \A q \in Reach(r, among) : c \notin Children(q) PROVE FALSE
  OBVIOUS
<1> DEFINE S == Reach(r, among) \ {c}
<1>1. S \in SUBSET among /\ {r} \cap among \subseteq S /\ \A q \in S : Children(q) \cap among \subseteq S
  BY ReachLeast
<1>2. Reach(r, among) \subseteq S
  BY <1>1 DEF Reach
<1> QED BY <1>2

Places == {"unborn", "context", "user", "stored", "moved", "destroyed"}
Subs == [Objects -> [Bases -> Objects \cup {None}]]

Tables == /\ place \in [Objects -> Places]
          /\ subs \in Subs
          /\ server \in [Objects -> BOOLEAN]

\* Every sub-router has one parent, and goes with it only.
Forest ==
  /\ \A q \in Objects : \A c \in Children(q) :
       /\ place[c] \in {"stored", "destroyed"}
       /\ place[q] # "destroyed" => place[c] = "stored"
  /\ \A q1, q2 \in Objects : \A b1, b2 \in Bases :
       subs[q1][b1] # None /\ subs[q1][b1] = subs[q2][b2] => q1 = q2 /\ b1 = b2

LEMMA OneParent ==
  ASSUME Forest, NEW q1 \in Objects, NEW q2 \in Objects, NEW c, c \in Children(q1), c \in Children(q2)
  PROVE  q1 = q2
  BY DEF Forest, Children

\* The router of the context and the object it is moved into.
Roots == /\ place[Shared] \in {"unborn", "context"}
         /\ place[Shared] = "unborn" => subs[Shared] = NoSubs
         /\ place[Top] = IF place[Shared] = "unborn" THEN "context" ELSE "moved"
         /\ server[Top] = TRUE
         /\ place[Shared] = "context" => server[Shared] = TRUE

BuildInv == Tables /\ Forest /\ OneServerString /\ Roots

LEMMA BuildInit == Init => BuildInv
<1> SUFFICES ASSUME Init PROVE BuildInv
  OBVIOUS
<1>1. Top \in Objects /\ Shared \in Objects /\ Top # Shared
  BY ObjectsAssumption
<1>2. \A q \in Objects : subs[q] = NoSubs /\ Children(q) = {}
  BY DEF Init, Children, NoSubs
<1>3. Tables
  BY DEF Init, Tables, Subs, Places, NoSubs
<1>4. Forest
  BY <1>2 DEF Forest, NoSubs
<1>5. OneServerString
  BY <1>2 DEF OneServerString
<1>6. Roots
  BY <1>1, <1>2 DEF Init, Roots
<1> QED BY <1>3, <1>4, <1>5, <1>6 DEF BuildInv

LEMMA MovedSubs ==
  ASSUME NEW f \in Subs, NEW from \in Objects, NEW to \in Objects
  PROVE  /\ Moved(f, from, to, NoSubs) \in Subs
         /\ \A q \in Objects : Moved(f, from, to, NoSubs)[q] =
              IF q = to THEN f[from] ELSE IF q = from THEN NoSubs ELSE f[q]
<1>1. NoSubs \in [Bases -> Objects \cup {None}]
  BY DEF NoSubs
<1> QED BY <1>1 DEF Moved, Subs

\* add_subrouter(): what holds n, the object that is stored, and what becomes
\* of the links.
LEMMA AddSubrouterLinks ==
  ASSUME BuildInv, NEW p \in Objects, NEW s \in Objects, NEW n \in Objects, NEW b \in Bases,
         AddSubrouter(p, b, s, n)
  PROVE  /\ place[Shared] = "unborn" /\ place[p] \in {"context", "user", "stored"}
         /\ place[s] = "user" /\ place[n] = "user"
         /\ s \in Tree(s) /\ p \notin Tree(s) /\ p # s /\ p # n
         /\ n # s => subs[n] = NoSubs
         /\ subs' \in Subs
         /\ \A q \in Objects : q # p => subs'[q] = IF q = n THEN subs[s] ELSE IF q = s THEN NoSubs ELSE subs[q]
         /\ \A e \in Bases : subs'[p][e] = IF e = b /\ subs[p][b] = None THEN n ELSE subs[p][e]
         /\ \A q \in Objects : n \notin Children(q) /\ s \notin Children(q)
<1>1. /\ Configurable(p) /\ place[s] = "user" /\ p \notin Tree(s)
      /\ n = s \/ (NewObject(n) /\ n \notin {p, s})
      /\ subs' = [Moved(subs, s, n, NoSubs) EXCEPT ![p][b] = IF subs[p][b] # None THEN @ ELSE n]
  BY DEF AddSubrouter
<1>2. s \in Tree(s)
  BY ReachLeast DEF Tree
<1>3. place[Shared] = "unborn" /\ place[p] \in {"context", "user", "stored"}
  BY <1>1 DEF Configurable
<1>4. place[n] = "user" /\ (n # s => subs[n] = NoSubs) /\ p # s /\ p # n
  BY <1>1, <1>2 DEF NewObject
<1>5. \A q \in Objects : n \notin Children(q) /\ s \notin Children(q)
  <2>1. \A q \in Objects : \A c \in Children(q) : place[c] # "user"
    BY DEF BuildInv, Forest
  <2> QED BY <1>1, <1>4, <2>1
<1> DEFINE m == Moved(subs, s, n, NoSubs)
<1>6. m \in Subs /\ \A q \in Objects : m[q] = IF q = n THEN subs[s] ELSE IF q = s THEN NoSubs ELSE subs[q]
  BY MovedSubs DEF BuildInv, Tables
<1> HIDE DEF m
<1>7. subs' = [m EXCEPT ![p][b] = IF subs[p][b] # None THEN @ ELSE n]
  BY <1>1 DEF m
<1>8. subs' \in Subs
  BY <1>6, <1>7 DEF Subs
<1>9. \A q \in Objects : q # p => subs'[q] = m[q]
  BY <1>6, <1>7 DEF Subs
<1>10. \A e \in Bases : subs'[p][e] = IF e = b /\ subs[p][b] = None THEN n ELSE subs[p][e]
  <2>1. m[p] = subs[p]
    BY <1>4, <1>6
  <2> QED BY <1>6, <1>7, <2>1 DEF Subs
<1> QED BY <1>1, <1>2, <1>3, <1>4, <1>5, <1>6, <1>8, <1>9, <1>10

\* The same of the children of each router.
LEMMA AddSubrouterChildren ==
  ASSUME BuildInv, NEW p \in Objects, NEW s \in Objects, NEW n \in Objects, NEW b \in Bases,
         AddSubrouter(p, b, s, n)
  PROVE  /\ \A c \in Children(p)' : c \in Children(p) \/ (c = n /\ subs[p][b] = None)
         /\ \A c \in Children(n)' : c \in Children(s)
         /\ s # n => Children(s)' = {}
         /\ \A q \in Objects \ {p, n, s} : Children(q)' = Children(q)
<1>1. /\ p # s /\ p # n
      /\ \A q \in Objects : q # p => subs'[q] = IF q = n THEN subs[s] ELSE IF q = s THEN NoSubs ELSE subs[q]
      /\ \A e \in Bases : subs'[p][e] = IF e = b /\ subs[p][b] = None THEN n ELSE subs[p][e]
  BY AddSubrouterLinks
<1>2. \A c \in Children(p)' : c \in Children(p) \/ (c = n /\ subs[p][b] = None)
  BY <1>1 DEF Children
<1>3. \A c \in Children(n)' : c \in Children(s)
  BY <1>1 DEF Children
<1>4. s # n => Children(s)' = {}
  BY <1>1 DEF Children, NoSubs
<1>5. \A q \in Objects \ {p, n, s} : Children(q)' = Children(q)
  BY <1>1 DEF Children
<1> QED BY <1>2, <1>3, <1>4, <1>5

\* What lies below the argument is reached through it only.
LEMMA ReachedFromBelow ==
  ASSUME Forest, NEW s \in Objects, NEW among, among \subseteq Objects,
         NEW q \in Objects, NEW c \in Children(q), c \in Reach(s, among), c # s
  PROVE  q \in Reach(s, among)
<1>1. PICK r \in Reach(s, among) : c \in Children(r)
  BY ReachParent
<1>2. r \in Objects
  BY ReachLeast
<1>3. r = q
  BY <1>1, <1>2, OneParent
<1> QED BY <1>3

LEMMA AddSubrouterInv ==
  ASSUME BuildInv, NEW p \in Objects, NEW s \in Objects, NEW n \in Objects, NEW b \in Bases,
         AddSubrouter(p, b, s, n)
  PROVE  BuildInv'
<1> DEFINE str == server[p]
           taken == subs[p][b] # None
           gone == {n} \cup (Tree(s) \ {s})
           among == {q \in Objects : server[q] # str}
           D == Differing(s, str)
<1>1. Tables /\ Forest /\ OneServerString /\ Roots
  BY DEF BuildInv
<1>2. /\ place[Shared] = "unborn" /\ place[p] \in {"context", "user", "stored"}
      /\ place[s] = "user" /\ place[n] = "user"
      /\ s \in Tree(s) /\ p \notin Tree(s) /\ p # s /\ p # n
      /\ n # s => subs[n] = NoSubs
      /\ subs' \in Subs
      /\ \A q \in Objects : n \notin Children(q) /\ s \notin Children(q)
  BY AddSubrouterLinks
<1>3. /\ \A q \in Objects : q # p => subs'[q] = IF q = n THEN subs[s] ELSE IF q = s THEN NoSubs ELSE subs[q]
      /\ \A e \in Bases : subs'[p][e] = IF e = b /\ subs[p][b] = None THEN n ELSE subs[p][e]
  BY AddSubrouterLinks
<1>4. /\ \A c \in Children(p)' : c \in Children(p) \/ (c = n /\ ~taken)
      /\ \A c \in Children(n)' : c \in Children(s)
      /\ s # n => Children(s)' = {}
      /\ \A q \in Objects \ {p, n, s} : Children(q)' = Children(q)
  BY AddSubrouterChildren
<1>5. /\ server' = [q \in Objects |-> IF q \in {n} \cup (D \ {s}) THEN str ELSE server[q]]
      /\ place' = [q \in Objects |-> IF taken /\ q \in gone THEN "destroyed"
                                     ELSE IF q = n THEN "stored"
                                     ELSE IF q = s THEN "moved"
                                     ELSE place[q]]
  BY DEF AddSubrouter
<1>6. /\ D \subseteq among /\ D \subseteq Tree(s)
      /\ s \in among => s \in D
      /\ \A q \in D : Children(q) \cap among \subseteq D
      /\ Tree(s) \subseteq Objects
      /\ \A q \in Tree(s) : Children(q) \cap Objects \subseteq Tree(s)
  <2>1. D = Reach(s, among) /\ among \subseteq Objects
    BY DEF Differing
  <2>2. Tree(s) \subseteq Objects /\ \A q \in Tree(s) : Children(q) \cap Objects \subseteq Tree(s)
    BY ReachLeast DEF Tree
  <2>3. /\ Reach(s, among) \subseteq among
        /\ s \in among => s \in Reach(s, among)
        /\ \A q \in Reach(s, among) : Children(q) \cap among \subseteq Reach(s, among)
    BY ReachLeast
  <2>4. Reach(s, among) \subseteq Tree(s)
    <3> DEFINE S == Tree(s) \cap among
    <3>1. S \in SUBSET among /\ {s} \cap among \subseteq S /\ \A q \in S : Children(q) \cap among \subseteq S
      BY <1>2, <2>2
    <3>2. Reach(s, among) \subseteq S
      BY <3>1 DEF Reach
    <3> QED BY <3>2
  <2> QED BY <2>1, <2>2, <2>3, <2>4
<1>7. ASSUME NEW q \in Objects, NEW c \in Children(q), c # s
      PROVE  (c \in Tree(s) => q \in Tree(s)) /\ (c \in D => q \in D)
  BY <1>1, <1>7, ReachedFromBelow DEF Tree, Differing
<1>8. \A q \in Objects : Children(q) \subseteq Objects /\ \A c \in Children(q) : c # n /\ c # s
  BY <1>1, <1>2 DEF Tables, Subs, Children
<1> HIDE DEF D, among, gone
<1>9. Tables'
  <2>1. place' \in [Objects -> Places]
    BY <1>1, <1>5 DEF Tables, Places
  <2>2. server' \in [Objects -> BOOLEAN]
    BY <1>1, <1>5 DEF Tables
  <2> QED BY <1>2, <2>1, <2>2 DEF Tables
\* One link of the new tree.
<1>10. ASSUME NEW q \in Objects, NEW c \in Children(q)'
       PROVE  /\ place'[c] \in {"stored", "destroyed"}
              /\ place'[q] # "destroyed" => place'[c] = "stored" /\ server'[c] = server'[q]
  <2>1. CASE q = p /\ c = n /\ ~taken
    <3>1. p \notin D /\ c \in Objects
      BY <1>2, <1>6, <2>1
    <3> QED BY <1>2, <1>5, <2>1, <3>1
  <2>2. CASE q = p /\ c \in Children(p)
    <3>1. c \in Objects /\ c # n /\ c # s /\ c \notin Tree(s) /\ c \notin D /\ p \notin D
      BY <1>2, <1>6, <1>7, <1>8, <2>2
    <3>2. c \notin gone
      BY <3>1 DEF gone
    <3>3. place[c] = "stored" /\ server[c] = server[p]
      BY <1>1, <1>2, <2>2 DEF Forest, OneServerString
    <3> QED BY <1>2, <1>5, <2>2, <3>1, <3>2, <3>3
  <2>3. CASE q = n
    <3>1. c \in Children(s)
      BY <1>4, <2>3
    <3>2. c \in Objects /\ c # n /\ c # s
      BY <1>8, <3>1
    <3>3. place[c] = "stored" /\ server[c] = server[s]
      BY <1>1, <1>2, <3>1 DEF Forest, OneServerString
    <3>4. c \in Tree(s) /\ c \in gone /\ n \in gone
      BY <1>2, <1>6, <3>1, <3>2 DEF gone
    <3>5. server[c] # str => c \in D
      BY <1>6, <3>1, <3>2, <3>3 DEF among
    <3>6. server'[c] = str /\ server'[q] = str
      BY <1>5, <2>3, <3>2, <3>5
    <3>7. place'[c] = IF taken THEN "destroyed" ELSE "stored"
      BY <1>5, <3>2, <3>3, <3>4
    <3>8. taken => place'[q] = "destroyed"
      BY <1>5, <2>3, <3>4
    <3> QED BY <3>6, <3>7, <3>8
  <2>4. CASE q \notin {p, n, s}
    <3>1. c \in Children(q)
      BY <1>4, <2>4
    <3>2. c \in Objects /\ c # n /\ c # s
      BY <1>8, <3>1
    <3>3. place[c] \in {"stored", "destroyed"}
      BY <1>1, <3>1 DEF Forest
    <3>4. place'[c] \in {"stored", "destroyed"}
      BY <1>5, <3>2, <3>3
    <3>5. ASSUME place'[q] # "destroyed"
          PROVE  place'[c] = "stored" /\ server'[c] = server'[q]
      <4>1. place[q] # "destroyed" /\ ~(taken /\ q \in gone)
        BY <1>5, <2>4, <3>5
      <4>2. place[c] = "stored" /\ server[c] = server[q]
        BY <1>1, <3>1, <4>1 DEF Forest, OneServerString
      <4>3. ~(taken /\ c \in gone)
        BY <1>7, <2>4, <3>1, <3>2, <4>1 DEF gone
      <4>4. q \in D <=> c \in D
        <5>1. q \in D => c \in D
          BY <1>6, <3>1, <3>2, <4>2 DEF among
        <5> QED BY <1>7, <3>1, <3>2, <5>1
      <4>5. place'[c] = "stored"
        BY <1>5, <3>2, <4>2, <4>3
      <4>6. server'[c] = server'[q]
        BY <1>5, <2>4, <3>2, <4>2, <4>4
      <4> QED BY <4>5, <4>6
    <3> QED BY <3>4, <3>5
  <2> QED BY <1>4, <2>1, <2>2, <2>3, <2>4
<1>11. ASSUME NEW q1 \in Objects, NEW q2 \in Objects, NEW b1 \in Bases, NEW b2 \in Bases,
              subs'[q1][b1] # None, subs'[q1][b1] = subs'[q2][b2]
       PROVE  q1 = q2 /\ b1 = b2
  <2> DEFINE Old(q) == IF q = n THEN s ELSE q
  <2>1. \A q \in Objects : \A e \in Bases : subs'[q][e] # None =>
          \/ q = p /\ e = b /\ ~taken /\ subs'[q][e] = n
          \/ subs'[q][e] = subs[Old(q)][e] /\ (q # s \/ n = s) /\ Old(q) \in Objects
    BY <1>2, <1>3 DEF NoSubs
  <2>2. \A q \in Objects : \A e \in Bases : subs[q][e] # n
    BY <1>2, ObjectsAssumption DEF Children
  <2>3. \A q3, q4 \in Objects : \A b3, b4 \in Bases :
          subs[q3][b3] # None /\ subs[q3][b3] = subs[q4][b4] => q3 = q4 /\ b3 = b4
    BY <1>1 DEF Forest
  <2>4. CASE subs'[q1][b1] = n
    <3>1. subs'[q1][b1] # None /\ subs'[q2][b2] # None /\ subs'[q2][b2] = n
      BY <1>11, <2>4
    <3>2. subs'[q1][b1] # subs[Old(q1)][b1] \/ Old(q1) \notin Objects
      BY <2>2, <2>4
    <3>3. subs'[q2][b2] # subs[Old(q2)][b2] \/ Old(q2) \notin Objects
      BY <2>2, <3>1
    <3>4. q1 = p /\ b1 = b
      BY <2>1, <3>1, <3>2
    <3>5. q2 = p /\ b2 = b
      BY <2>1, <3>1, <3>3
    <3> QED BY <3>4, <3>5
  <2>5. CASE subs'[q1][b1] # n
    <3>1. /\ subs'[q1][b1] = subs[Old(q1)][b1] /\ (q1 # s \/ n = s) /\ Old(q1) \in Objects
          /\ subs'[q2][b2] = subs[Old(q2)][b2] /\ (q2 # s \/ n = s) /\ Old(q2) \in Objects
      BY <1>11, <2>1, <2>5
    <3>2. subs[Old(q1)][b1] # None /\ subs[Old(q1)][b1] = subs[Old(q2)][b2]
      BY <1>11, <3>1
    <3>3. Old(q1) = Old(q2) /\ b1 = b2
      <4> HIDE DEF Old
      <4> QED BY <2>3, <3>1, <3>2
    <3> QED BY <3>1, <3>3
  <2> QED BY <2>4, <2>5
<1>12. Forest' /\ OneServerString'
  <2>1. Forest'
    BY <1>10, <1>11 DEF Forest
  <2>2. OneServerString'
    BY <1>10 DEF OneServerString
  <2> QED BY <2>1, <2>2
<1>13. Roots'
  <2>1. Top \in Objects /\ Shared \in Objects /\ Top # Shared
    BY ObjectsAssumption
  <2>2. place[Top] = "context" /\ place[Shared] = "unborn" /\ subs[Shared] = NoSubs /\ server[Top] = TRUE
    BY <1>1, <1>2 DEF Roots
  <2>3. \A q \in {Top, Shared} : q # n /\ q # s /\ q \notin Tree(s)
    <3>1. \A q \in Objects : Top \notin Children(q) /\ Shared \notin Children(q)
      BY <1>1, <2>2 DEF Forest
    <3>2. Top # s /\ Shared # s /\ Top # n /\ Shared # n
      BY <1>2, <2>2
    <3>3. \A q \in {Top, Shared} : q \notin Tree(s)
      BY <2>1, <3>1, <3>2, ReachParent, <1>6 DEF Tree
    <3> QED BY <3>2, <3>3
  <2>4. \A q \in {Top, Shared} : q \notin gone /\ q \notin D
    BY <1>6, <2>3 DEF gone
  <2>5. place'[Top] = "context" /\ place'[Shared] = "unborn" /\ server'[Top] = TRUE
    BY <1>5, <2>1, <2>2, <2>3, <2>4
  <2>6. subs'[Shared] = NoSubs
    BY <1>2, <1>3, <2>1, <2>2, <2>3
  <2> QED BY <2>5, <2>6 DEF Roots
<1> QED BY <1>9, <1>12, <1>13 DEF BuildInv

\* No router is below itself, and what is stored has a parent.
Shape == /\ \A q \in Objects : \A c \in Children(q) : q \notin Tree(c)
         /\ \A c \in Objects : place[c] = "stored" => \E q \in Objects, b \in Bases : subs[q][b] = c

LEMMA TreeLeast ==
  ASSUME NEW r \in Objects
  PROVE  /\ r \in Tree(r) /\ Tree(r) \subseteq Objects
         /\ \A q \in Tree(r) : Children(q) \cap Objects \subseteq Tree(r)
         /\ \A S \in SUBSET Objects : r \in S /\ (\A q \in S : Children(q) \cap Objects \subseteq S) => Tree(r) \subseteq S
<1>1. r \in Tree(r) /\ Tree(r) \subseteq Objects /\ \A q \in Tree(r) : Children(q) \cap Objects \subseteq Tree(r)
  BY ReachLeast DEF Tree
<1>2. ASSUME NEW S \in SUBSET Objects, r \in S, \A q \in S : Children(q) \cap Objects \subseteq S
      PROVE  Tree(r) \subseteq S
  BY <1>2 DEF Tree, Reach
<1> QED BY <1>1, <1>2

LEMMA AddSubrouterShape ==
  ASSUME BuildInv, Shape, NEW p \in Objects, NEW s \in Objects, NEW n \in Objects, NEW b \in Bases,
         AddSubrouter(p, b, s, n)
  PROVE  Shape'
<1> DEFINE below == {n} \cup (Tree(s) \ {s})
<1>1. /\ s \in Tree(s) /\ p \notin Tree(s) /\ p # s /\ p # n
      /\ place[s] = "user" /\ place[n] = "user"
      /\ n # s => subs[n] = NoSubs
      /\ \A q \in Objects : n \notin Children(q) /\ s \notin Children(q)
  BY AddSubrouterLinks
<1>2. /\ \A q \in Objects : q # p => subs'[q] = IF q = n THEN subs[s] ELSE IF q = s THEN NoSubs ELSE subs[q]
      /\ \A e \in Bases : subs'[p][e] = IF e = b /\ subs[p][b] = None THEN n ELSE subs[p][e]
  BY AddSubrouterLinks
<1>3. /\ \A c \in Children(p)' : c \in Children(p) \/ (c = n /\ subs[p][b] = None)
      /\ \A c \in Children(n)' : c \in Children(s)
      /\ s # n => Children(s)' = {}
      /\ \A q \in Objects \ {p, n, s} : Children(q)' = Children(q)
  BY AddSubrouterChildren
<1>4. Tables /\ Forest
  BY DEF BuildInv
<1>5. \A q \in Objects : Children(q) \subseteq Objects
  BY <1>4 DEF Tables, Subs, Children
<1>6. Tree(s) \subseteq Objects /\ \A q \in Tree(s) : Children(q) \subseteq Tree(s)
  BY <1>5, TreeLeast
\* A set that is closed in the new tree.
<1>7. ASSUME NEW S \in SUBSET Objects, NEW c \in S, \A q \in S : Children(q)' \subseteq S
      PROVE  Tree(c)' \subseteq S
  BY <1>7 DEF Tree, Reach
<1>8. below \in SUBSET Objects /\ n \in below /\ p \notin below /\ \A q \in below : Children(q)' \subseteq below
  <2>1. \A q \in below : Children(q)' \subseteq Children(q) \/ (q = n /\ Children(q)' \subseteq Children(s))
    BY <1>1, <1>3, <1>6
  <2>2. \A q \in below : q # n => q \in Tree(s)
    OBVIOUS
  <2>3. \A q \in below : Children(q)' \subseteq Tree(s) /\ s \notin Children(q)'
    <3> SUFFICES ASSUME NEW q \in below PROVE Children(q)' \subseteq Tree(s) /\ s \notin Children(q)'
      OBVIOUS
    <3>1. q \in Objects
      BY <1>6
    <3>2. CASE q = n
      BY <1>1, <1>3, <1>6, <3>2
    <3>3. CASE q # n
      BY <1>1, <1>6, <2>1, <3>1, <3>3
    <3> QED BY <3>2, <3>3
  <2> QED BY <1>1, <1>6, <2>3
<1> HIDE DEF below
<1>9. ASSUME NEW q \in Objects, NEW c \in Children(q)' PROVE (q \notin Tree(c))'
  <2>1. CASE q = p /\ c = n
    BY <1>7, <1>8, <2>1
  <2>2. CASE ~(q = p /\ c = n)
    <3>1. PICK o \in Objects : c \in Children(o) /\ o = IF q = n THEN s ELSE q
      BY <1>3, <2>2
    <3>2. c \in Objects /\ c # n /\ c # s /\ o \notin Tree(c)
      BY <1>1, <1>5, <3>1 DEF Shape
    <3>3. /\ c \in Tree(c) /\ Tree(c) \subseteq Objects /\ \A r \in Tree(c) : Children(r) \subseteq Tree(c)
      BY <1>5, <3>2, TreeLeast
    <3>4. \A r \in {n, s} : r \notin Tree(c)
      BY <1>1, <3>2, <3>3, ReachParent DEF Tree
    <3>5. CASE p \notin Tree(c)
      <4>1. \A r \in Tree(c) : Children(r)' \subseteq Tree(c)
        BY <1>3, <3>3, <3>4, <3>5
      <4>2. Tree(c)' \subseteq Tree(c)
        BY <1>7, <3>3, <4>1
      <4>3. q \notin Tree(c)
        BY <3>1, <3>2, <3>4
      <4> QED BY <4>2, <4>3
    <3>6. CASE p \in Tree(c)
      <4>1. c \notin Tree(s)
        <5>1. c \in Tree(s) => Tree(c) \subseteq Tree(s)
          BY <1>6, <3>2, TreeLeast
        <5> QED BY <1>1, <3>6, <5>1
      <4>2. o \notin Tree(s) /\ o # s /\ q # n
        BY <1>1, <1>6, <3>1, <4>1
      <4>3. q = o /\ q \notin below
        BY <3>1, <4>2 DEF below
      <4> DEFINE S == Tree(c) \cup below
      <4>4. S \in SUBSET Objects /\ c \in S /\ q \notin S
        BY <1>8, <3>2, <3>3, <4>3
      <4>5. \A r \in Tree(c) : Children(r)' \subseteq S
        BY <1>3, <1>8, <3>3, <3>4
      <4>6. Tree(c)' \subseteq S
        BY <1>7, <1>8, <4>4, <4>5
      <4> QED BY <4>4, <4>6
    <3> QED BY <3>5, <3>6
  <2> QED BY <2>1, <2>2
<1>10. ASSUME NEW c \in Objects, place'[c] = "stored"
       PROVE  \E q \in Objects, e \in Bases : subs'[q][e] = c
  <2>1. place' = [q \in Objects |-> IF subs[p][b] # None /\ q \in {n} \cup (Tree(s) \ {s}) THEN "destroyed"
                                   ELSE IF q = n THEN "stored"
                                   ELSE IF q = s THEN "moved"
                                   ELSE place[q]]
    BY DEF AddSubrouter
  <2>2. CASE c = n
    <3>1. subs[p][b] = None
      BY <1>10, <2>1, <2>2
    <3> QED BY <1>2, <2>2, <3>1
  <2>3. CASE c # n
    <3>1. place[c] = "stored"
      BY <1>10, <2>1, <2>3
    <3>2. PICK q \in Objects, e \in Bases : subs[q][e] = c
      BY <3>1 DEF Shape
    <3>3. c # None
      BY ObjectsAssumption
    <3>4. CASE q = p
      BY <1>2, <3>2, <3>3, <3>4
    <3>5. CASE q = s
      BY <1>1, <1>2, <3>2, <3>5
    <3>6. CASE q # p /\ q # s
      <4>1. q # n
        BY <1>1, <3>2, <3>3, <3>6 DEF NoSubs
      <4> QED BY <1>2, <3>2, <3>6, <4>1
    <3> QED BY <3>4, <3>5, <3>6
  <2> QED BY <2>2, <2>3
<1> QED BY <1>9, <1>10 DEF Shape

Build == BuildInv /\ Shape

\* start(): the context's router is moved as a sub-router is, and has no parent.
LEMMA StartBuild ==
  ASSUME Build, Start
  PROVE  Build'
<1>1. Tables /\ Forest /\ OneServerString /\ Roots /\ Shape
  BY DEF Build, BuildInv
<1>2. Top \in Objects /\ Shared \in Objects /\ Top # Shared
  BY ObjectsAssumption
<1>3. place[Shared] = "unborn" /\ place[Top] = "context" /\ subs[Shared] = NoSubs /\ server[Top] = TRUE
  BY <1>1 DEF Start, Roots
<1>4. /\ subs' \in Subs
      /\ \A q \in Objects : subs'[q] = IF q = Shared THEN subs[Top] ELSE IF q = Top THEN NoSubs ELSE subs[q]
  <2> DEFINE m == Moved(subs, Top, Shared, NoSubs)
  <2>1. m \in Subs /\ \A q \in Objects : m[q] = IF q = Shared THEN subs[Top] ELSE IF q = Top THEN NoSubs ELSE subs[q]
    BY <1>1, <1>2, MovedSubs DEF Tables
  <2>2. subs' = m
    BY DEF Start
  <2> HIDE DEF m
  <2> QED BY <2>1, <2>2
<1>5. /\ place' = [place EXCEPT ![Shared] = "context", ![Top] = "moved"]
      /\ server' = [server EXCEPT ![Shared] = server[Top]]
  BY DEF Start
<1>6. \A q \in Objects : Children(q) \subseteq Objects /\ \A c \in Children(q) : c # Top /\ c # Shared
  BY <1>1, <1>3 DEF Forest, Tables, Subs, Children
<1>7. \A q \in Objects : Children(q)' = IF q = Shared THEN Children(Top) ELSE IF q = Top THEN {} ELSE Children(q)
  BY <1>4 DEF Children, NoSubs
<1>8. Tables'
  BY <1>1, <1>2, <1>4, <1>5 DEF Tables, Places
<1>9. ASSUME NEW q \in Objects, NEW c \in Children(q)'
      PROVE  /\ place'[c] \in {"stored", "destroyed"}
             /\ place'[q] # "destroyed" => place'[c] = "stored" /\ server'[c] = server'[q]
  <2>1. PICK o \in Objects : c \in Children(o) /\ q # Top /\ o = IF q = Shared THEN Top ELSE q
    BY <1>2, <1>7
  <2>2. c \in Objects /\ c # Top /\ c # Shared
    BY <1>6, <2>1
  <2>3. place[c] \in {"stored", "destroyed"} /\ (place[o] # "destroyed" => place[c] = "stored" /\ server[c] = server[o])
    BY <1>1, <2>1 DEF Forest, OneServerString
  <2>4. place'[c] = place[c] /\ server'[c] = server[c]
    BY <1>1, <1>5, <2>2 DEF Tables
  <2>5. server'[q] = server[o] /\ (place'[q] # "destroyed" => place[o] # "destroyed")
    BY <1>1, <1>2, <1>3, <1>5, <2>1 DEF Tables
  <2> QED BY <2>3, <2>4, <2>5
<1>10. ASSUME NEW q1 \in Objects, NEW q2 \in Objects, NEW b1 \in Bases, NEW b2 \in Bases,
              subs'[q1][b1] # None, subs'[q1][b1] = subs'[q2][b2]
       PROVE  q1 = q2 /\ b1 = b2
  <2> DEFINE Old(q) == IF q = Shared THEN Top ELSE q
  <2>1. \A q \in Objects : \A e \in Bases : subs'[q][e] # None =>
          subs'[q][e] = subs[Old(q)][e] /\ q # Top /\ Old(q) \in Objects
    BY <1>2, <1>4 DEF NoSubs
  <2>2. Old(q1) = Old(q2) /\ b1 = b2
    <3>1. /\ subs'[q1][b1] = subs[Old(q1)][b1] /\ Old(q1) \in Objects
          /\ subs'[q2][b2] = subs[Old(q2)][b2] /\ Old(q2) \in Objects
      BY <1>10, <2>1
    <3>2. \A q3, q4 \in Objects : \A b3, b4 \in Bases :
            subs[q3][b3] # None /\ subs[q3][b3] = subs[q4][b4] => q3 = q4 /\ b3 = b4
      BY <1>1 DEF Forest
    <3>3. subs[Old(q1)][b1] # None /\ subs[Old(q1)][b1] = subs[Old(q2)][b2]
      BY <1>10, <3>1
    <3> HIDE DEF Old
    <3> QED BY <3>1, <3>2, <3>3
  <2>3. q1 # Top /\ q2 # Top
    BY <1>10, <2>1
  <2> QED BY <2>2, <2>3
<1>11. Forest' /\ OneServerString'
  <2>1. Forest'
    BY <1>9, <1>10 DEF Forest
  <2>2. OneServerString'
    BY <1>9 DEF OneServerString
  <2> QED BY <2>1, <2>2
<1>12. Roots'
  BY <1>1, <1>2, <1>3, <1>5 DEF Roots, Tables
<1>13. ASSUME NEW q \in Objects, NEW c \in Children(q)' PROVE (q \notin Tree(c))'
  <2>1. PICK o \in Objects : c \in Children(o) /\ q # Top /\ o = IF q = Shared THEN Top ELSE q
    BY <1>2, <1>7
  <2>2. c \in Objects /\ c # Top /\ c # Shared /\ o \notin Tree(c)
    BY <1>1, <1>6, <2>1 DEF Shape
  <2>3. c \in Tree(c) /\ Tree(c) \subseteq Objects /\ \A r \in Tree(c) : Children(r) \subseteq Tree(c)
    BY <1>6, <2>2, TreeLeast
  <2>4. Top \notin Tree(c) /\ Shared \notin Tree(c)
    BY <1>6, <2>2, <2>3, ReachParent DEF Tree
  <2>5. \A r \in Tree(c) : Children(r)' \subseteq Tree(c)
    BY <1>7, <2>3, <2>4
  <2>6. Tree(c)' \subseteq Tree(c)
    BY <2>3, <2>5 DEF Tree, Reach
  <2> QED BY <2>1, <2>2, <2>4, <2>6
<1>14. ASSUME NEW c \in Objects, place'[c] = "stored"
       PROVE  \E q \in Objects, e \in Bases : subs'[q][e] = c
  <2>1. place[c] = "stored"
    BY <1>1, <1>2, <1>5, <1>14 DEF Tables
  <2>2. PICK q \in Objects, e \in Bases : subs[q][e] = c
    BY <1>1, <2>1 DEF Shape
  <2>3. q # Shared
    BY <1>3, <2>2, ObjectsAssumption DEF NoSubs
  <2> QED BY <1>2, <1>4, <2>2, <2>3
<1>15. Shape'
  BY <1>13, <1>14 DEF Shape
<1> QED BY <1>8, <1>11, <1>12, <1>15 DEF Build, BuildInv

LEMMA BuildUnchanged ==
  ASSUME Build, UNCHANGED <<place, subs, server>>
  PROVE  Build'
<1>1. \A q \in Objects : Children(q)' = Children(q)
  BY DEF Children
<1>2. Tables' /\ Roots'
  BY DEF Build, BuildInv, Tables, Roots
<1>3. Forest' /\ OneServerString'
  <2>1. Forest /\ OneServerString
    BY DEF Build, BuildInv
  <2>2. Forest'
    BY <1>1, <2>1 DEF Forest
  <2>3. OneServerString'
    BY <1>1, <2>1 DEF OneServerString
  <2> QED BY <2>2, <2>3
<1>4. Shape'
  <2>1. Shape
    BY DEF Build
  <2>2. \A r : Tree(r)' = Tree(r)
    BY DEF Tree, Reach, Children
  <2> QED BY <1>1, <2>1, <2>2 DEF Shape
<1> QED BY <1>2, <1>3, <1>4 DEF Build, BuildInv

-----------------------------------------------------------------------------
(* What the routers hold.                                                  *)

\* Whose string the lambda of an entry reads: pairs of the object it was added
\* to and of one it may be in.
Owned == {e \in Objects \X Objects : \/ e[1] = e[2]
                                     \/ e[1] = Top /\ place[Shared] = "context"
                                     \/ e[1] # Top /\ place[e[1]] = "moved"}

\* f says of each object what it holds, members of E, all of them owned.
Holds(f, E, O) == /\ f \in [Objects -> Seq(E)]
                  /\ \A r \in Objects : \A k \in DOMAIN f[r] : f[r][k].self \in Objects /\ <<f[r][k].self, r>> \in O

Contents == /\ Holds(routes, Entry, Owned)
            /\ Holds(policies, Policy, Owned)
            /\ logger \in [Objects -> BOOLEAN]

Added(f, r, e) == [f EXCEPT ![r] = Append(@, e)]

LEMMA AppendOwned ==
  ASSUME NEW E, NEW O, NEW f, Holds(f, E, O), NEW r \in Objects, NEW e \in E, e.self = r, <<r, r>> \in O
  PROVE  Holds(Added(f, r, e), E, O)
<1> DEFINE g == Added(f, r, e)
<1>0. f \in [Objects -> Seq(E)] /\ g = [f EXCEPT ![r] = Append(@, e)]
  BY DEF Holds, Added
<1> HIDE DEF g
<1>1. g \in [Objects -> Seq(E)]
  BY <1>0
<1>2. ASSUME NEW q \in Objects, NEW k \in DOMAIN g[q] PROVE g[q][k].self \in Objects /\ <<g[q][k].self, q>> \in O
  <2>1. CASE q = r
    <3>1. g[q] = Append(f[r], e) /\ f[r] \in Seq(E)
      BY <1>0, <2>1
    <3>2. (k \in DOMAIN f[r] /\ g[q][k] = f[r][k]) \/ g[q][k] = e
      BY <3>1
    <3> QED BY <2>1, <3>2 DEF Holds
  <2>2. CASE q # r
    BY <1>0, <2>2 DEF Holds
  <2> QED BY <2>1, <2>2
<1>3. Holds(g, E, O)
  BY <1>1, <1>2 DEF Holds
<1> QED BY <1>3 DEF g

LEMMA AddEndpointInv ==
  ASSUME Build, Contents, NEW r \in Objects, NEW kind \in Kind, NEW t \in Targets, AddEndpoint(r, kind, t)
  PROVE  Build' /\ Contents'
<1>1. /\ routes' = [routes EXCEPT ![r] = Append(@, [kind |-> kind, target |-> t, self |-> r])]
      /\ UNCHANGED <<place, subs, policies, server, logger>>
  BY DEF AddEndpoint
<1>2. Build'
  BY <1>1, BuildUnchanged
<1>3. [kind |-> kind, target |-> t, self |-> r] \in Entry
  BY DEF Entry
<1>4. Holds(routes', Entry, Owned)
  <2> DEFINE e == [kind |-> kind, target |-> t, self |-> r]
  <2>1. e \in Entry /\ e.self = r /\ routes' = Added(routes, r, e)
    BY <1>1, <1>3 DEF Added
  <2>2. Holds(routes, Entry, Owned)
    BY DEF Contents
  <2>3. <<r, r>> \in Owned
    BY DEF Owned
  <2> HIDE DEF e
  <2>4. Holds(Added(routes, r, e), Entry, Owned)
    BY <2>1, <2>2, <2>3, AppendOwned
  <2> QED BY <2>1, <2>4
<1>5. Owned' = Owned
  BY <1>1 DEF Owned
<1> QED BY <1>1, <1>2, <1>4, <1>5 DEF Contents, Holds

LEMMA AddPolicyInv ==
  ASSUME Build, Contents, NEW r \in Objects, NEW t \in Targets, NEW rejects \in BOOLEAN, AddPolicy(r, t, rejects)
  PROVE  Build' /\ Contents'
<1>1. /\ policies' = [policies EXCEPT ![r] = Append(@, [target |-> t, rejects |-> rejects, self |-> r])]
      /\ UNCHANGED <<place, subs, routes, server, logger>>
  BY DEF AddPolicy
<1>2. Build'
  BY <1>1, BuildUnchanged
<1>3. [target |-> t, rejects |-> rejects, self |-> r] \in Policy
  BY DEF Policy
<1>4. Holds(policies', Policy, Owned)
  <2> DEFINE e == [target |-> t, rejects |-> rejects, self |-> r]
  <2>1. e \in Policy /\ e.self = r /\ policies' = Added(policies, r, e)
    BY <1>1, <1>3 DEF Added
  <2>2. Holds(policies, Policy, Owned)
    BY DEF Contents
  <2>3. <<r, r>> \in Owned
    BY DEF Owned
  <2> HIDE DEF e
  <2>4. Holds(Added(policies, r, e), Policy, Owned)
    BY <2>1, <2>2, <2>3, AppendOwned
  <2> QED BY <2>1, <2>4
<1>5. Owned' = Owned
  BY <1>1 DEF Owned
<1> QED BY <1>1, <1>2, <1>4, <1>5 DEF Contents, Holds

LEMMA SetLoggerInv ==
  ASSUME Build, Contents, NEW r \in Objects, SetLogger(r)
  PROVE  Build' /\ Contents'
<1>1. /\ logger' = [q \in Objects |-> logger[q] \/ q = r \/ q \in LoggedWith(r)]
      /\ UNCHANGED <<place, subs, routes, policies, server>>
  BY DEF SetLogger
<1>2. Build'
  BY <1>1, BuildUnchanged
<1>3. logger' \in [Objects -> BOOLEAN]
  BY <1>1
<1>4. Owned' = Owned
  BY <1>1 DEF Owned
<1> QED BY <1>1, <1>2, <1>3, <1>4 DEF Contents, Holds

\* What f says of one object goes over to another, and stays owned.
LEMMA MovedOwned ==
  ASSUME NEW E, NEW O, NEW O2, NEW f, Holds(f, E, O), NEW from \in Objects, NEW to \in Objects,
         \A w, q \in Objects : <<w, q>> \in O => <<w, q>> \in O2,
         \A w \in Objects : <<w, from>> \in O => <<w, to>> \in O2
  PROVE  Holds(Moved(f, from, to, <<>>), E, O2)
<1> DEFINE g == Moved(f, from, to, <<>>)
<1>1. f \in [Objects -> Seq(E)] /\ <<>> \in Seq(E)
  BY DEF Holds
<1>2. /\ g \in [Objects -> Seq(E)]
      /\ \A q \in Objects : g[q] = IF q = to THEN f[from] ELSE IF q = from THEN <<>> ELSE f[q]
  BY <1>1 DEF Moved
<1> HIDE DEF g
<1>3. ASSUME NEW q \in Objects, NEW k \in DOMAIN g[q] PROVE g[q][k].self \in Objects /\ <<g[q][k].self, q>> \in O2
  <2>1. CASE q = to
    <3>1. k \in DOMAIN f[from] /\ g[q][k] = f[from][k]
      BY <1>2, <2>1
    <3>2. f[from][k].self \in Objects /\ <<f[from][k].self, from>> \in O
      BY <3>1 DEF Holds
    <3> QED BY <2>1, <3>1, <3>2
  <2>2. CASE q # to
    <3>1. q # from /\ g[q] = f[q]
      BY <1>2, <2>2
    <3>2. f[q][k].self \in Objects /\ <<f[q][k].self, q>> \in O
      BY <3>1 DEF Holds
    <3> QED BY <3>1, <3>2
  <2> QED BY <2>1, <2>2
<1>4. Holds(g, E, O2)
  BY <1>2, <1>3 DEF Holds
<1> QED BY <1>4 DEF g

LEMMA AddSubrouterContents ==
  ASSUME Build, Contents, NEW p \in Objects, NEW s \in Objects, NEW n \in Objects, NEW b \in Bases,
         AddSubrouter(p, b, s, n)
  PROVE  Contents'
<1>1. /\ place[Shared] = "unborn" /\ place[s] = "user" /\ place[n] = "user"
  BY AddSubrouterLinks DEF Build
<1>2. /\ routes' = Moved(routes, s, n, <<>>)
      /\ policies' = Moved(policies, s, n, <<>>)
      /\ logger' = [q \in Objects |-> \/ Moved(logger, s, n, FALSE)[q]
                                      \/ logger[p] /\ q \in {n} \cup LoggedWith(s)]
      /\ place' = [q \in Objects |-> IF subs[p][b] # None /\ q \in {n} \cup (Tree(s) \ {s}) THEN "destroyed"
                                     ELSE IF q = n THEN "stored"
                                     ELSE IF q = s THEN "moved"
                                     ELSE place[q]]
  BY DEF AddSubrouter
<1>3. Tables /\ Forest /\ Roots
  BY DEF Build, BuildInv
<1>4. \A w \in Objects : place[w] = "moved" => place'[w] = "moved"
  <2>1. \A w \in Tree(s) \ {s} : \E q \in Tree(s) : w \in Children(q)
    BY ReachParent DEF Tree
  <2>2. \A w \in Tree(s) \ {s} : place[w] # "moved"
    BY <1>3, <2>1, TreeLeast DEF Forest
  <2> QED BY <1>1, <1>2, <2>2
<1>5. s # Top /\ (s # n => place'[s] = "moved")
  <2>1. s # Top
    BY <1>1, <1>3 DEF Roots
  <2> QED BY <1>2, <2>1
<1>6. Top \in Objects /\ Shared \in Objects
  BY ObjectsAssumption
<1>7. \A w, q \in Objects : <<w, q>> \in Owned => <<w, q>> \in Owned'
  BY <1>1, <1>4 DEF Owned
<1>8. \A w \in Objects : <<w, s>> \in Owned => <<w, n>> \in Owned'
  BY <1>1, <1>4, <1>5 DEF Owned
<1>9. logger' \in [Objects -> BOOLEAN]
  BY <1>2
<1>10. Holds(routes, Entry, Owned) /\ Holds(policies, Policy, Owned)
  BY DEF Contents
<1>11. Holds(routes', Entry, Owned')
  <2>1. Holds(Moved(routes, s, n, <<>>), Entry, Owned')
    BY <1>7, <1>8, <1>10, MovedOwned
  <2> QED BY <1>2, <2>1
<1>12. Holds(policies', Policy, Owned')
  <2>1. Holds(Moved(policies, s, n, <<>>), Policy, Owned')
    BY <1>7, <1>8, <1>10, MovedOwned
  <2> QED BY <1>2, <2>1
<1> QED BY <1>9, <1>11, <1>12 DEF Contents, Holds

LEMMA StartContents ==
  ASSUME Build, Contents, Start
  PROVE  Contents'
<1>1. /\ routes' = Moved(routes, Top, Shared, <<>>)
      /\ policies' = Moved(policies, Top, Shared, <<>>)
      /\ logger' = Moved(logger, Top, Shared, FALSE)
      /\ place' = [place EXCEPT ![Shared] = "context", ![Top] = "moved"]
      /\ place[Shared] = "unborn"
  BY DEF Start
<1>2. Top \in Objects /\ Shared \in Objects /\ Top # Shared
  BY ObjectsAssumption
<1>3. place \in [Objects -> Places]
  BY DEF Build, BuildInv, Tables
<1>4. \A w \in Objects : place[w] = "moved" => place'[w] = "moved"
  BY <1>1, <1>2, <1>3
<1>5. place'[Shared] = "context"
  BY <1>1, <1>2, <1>3
<1>6. \A w, q \in Objects : <<w, q>> \in Owned => <<w, q>> \in Owned'
  BY <1>1, <1>4 DEF Owned
<1>7. \A w \in Objects : <<w, Top>> \in Owned => <<w, Shared>> \in Owned'
  BY <1>1, <1>2, <1>4, <1>5 DEF Owned
<1>8. logger' \in [Objects -> BOOLEAN]
  <2>1. logger \in [Objects -> BOOLEAN]
    BY DEF Contents
  <2> QED BY <1>1, <1>2, <2>1 DEF Moved
<1>9. Holds(routes, Entry, Owned) /\ Holds(policies, Policy, Owned)
  BY DEF Contents
<1>10. Holds(routes', Entry, Owned')
  <2>1. Holds(Moved(routes, Top, Shared, <<>>), Entry, Owned')
    BY <1>2, <1>6, <1>7, <1>9, MovedOwned
  <2> QED BY <1>1, <2>1
<1>11. Holds(policies', Policy, Owned')
  <2>1. Holds(Moved(policies, Top, Shared, <<>>), Policy, Owned')
    BY <1>2, <1>6, <1>7, <1>9, MovedOwned
  <2> QED BY <1>1, <2>1
<1> QED BY <1>8, <1>10, <1>11 DEF Contents, Holds

\* One step of configuration, whichever it is.
LEMMA ConfigureBuild ==
  ASSUME Build, Contents, Configure
  PROVE  Build' /\ Contents' /\ place[Shared] = "unborn" /\ UNCHANGED walk
<1>1. ASSUME NEW r \in Objects, NEW t \in Targets, NEW kind \in Kind, AddEndpoint(r, kind, t)
      PROVE  Build' /\ Contents' /\ place[Shared] = "unborn" /\ UNCHANGED walk
  BY <1>1, AddEndpointInv DEF AddEndpoint, Configurable
<1>2. ASSUME NEW r \in Objects, NEW t \in Targets,
             Add(r, t) \/ AddFileServing(r, t) \/ AddPreflight(r, t) \/ AddRedirect(r, t) \/ AddWebsocket(r, t)
      PROVE  Build' /\ Contents' /\ place[Shared] = "unborn" /\ UNCHANGED walk
  BY <1>1, <1>2 DEF Add, AddFileServing, AddPreflight, AddRedirect, AddWebsocket, Kind
<1>3. ASSUME NEW r \in Objects, NEW t \in Targets, NEW rejects \in BOOLEAN, AddPolicy(r, t, rejects)
      PROVE  Build' /\ Contents' /\ place[Shared] = "unborn" /\ UNCHANGED walk
  BY <1>3, AddPolicyInv DEF AddPolicy, Configurable
<1>4. ASSUME NEW r \in Objects, SetLogger(r)
      PROVE  Build' /\ Contents' /\ place[Shared] = "unborn" /\ UNCHANGED walk
  BY <1>4, SetLoggerInv DEF SetLogger, Configurable
<1>5. ASSUME NEW p \in Objects, NEW s \in Objects, NEW n \in Objects, NEW b \in Bases, AddSubrouter(p, b, s, n)
      PROVE  Build' /\ Contents' /\ place[Shared] = "unborn" /\ UNCHANGED walk
  <2>1. BuildInv' /\ Shape'
    BY <1>5, AddSubrouterInv, AddSubrouterShape DEF Build
  <2>2. Contents'
    BY <1>5, AddSubrouterContents
  <2> QED BY <1>5, <2>1, <2>2 DEF Build, AddSubrouter, Configurable
<1>6. ASSUME Start
      PROVE  Build' /\ Contents' /\ place[Shared] = "unborn" /\ UNCHANGED walk
  BY <1>6, StartBuild, StartContents DEF Start
<1> QED BY <1>2, <1>3, <1>4, <1>5, <1>6 DEF Configure

-----------------------------------------------------------------------------
(* Dispatch.                                                               *)

Segments == UNION {Range(t) : t \in Targets \cup Bases}
Steps == [router : Objects \cup {None}, rest : Seq(Segments)]

\* What is known of the request being dispatched, if there is one.
Types == /\ request \in Request \cup {None}
         /\ at \in Objects \cup {None}
         /\ rest \in Seq(Segments)
         /\ path \in Seq(Steps)

\* A request is dispatched by a started router, whose tables stay as they are,
\* and goes down links of the tree.
Served == request # None =>
            /\ place[Shared] = "context"
            /\ at \in Objects /\ place[at] # "destroyed" /\ server[at] = TRUE

\* Nothing is left of the last request.
Clean == request = None => path = <<>> /\ answer = Unanswered

\* A request has passed the policies of every router behind it.
Passed == request # None /\ request.kind # "ws" =>
            /\ \A i \in DOMAIN path : Rejecting(path[i].router, path[i].rest) = {}
            /\ answer.by \in Kind => Rejecting(at, rest) = {}

Walk == Types /\ Served /\ Clean /\ Passed /\ ServerFieldSet

IInv == Build /\ Contents /\ Walk

LEMMA InitInv == Init => IInv
<1> SUFFICES ASSUME Init PROVE IInv
  OBVIOUS
<1>1. BuildInv
  BY BuildInit
<1>2. \A q \in Objects : Children(q) = {} /\ place[q] # "stored"
  BY DEF Init, Children, NoSubs
<1>3. Shape
  BY <1>2 DEF Shape
<1>4. Contents
  <2>1. routes \in [Objects -> Seq(Entry)] /\ policies \in [Objects -> Seq(Policy)] /\ logger \in [Objects -> BOOLEAN]
    BY DEF Init
  <2>2. \A q \in Objects : routes[q] = <<>> /\ policies[q] = <<>>
    BY DEF Init
  <2> QED BY <2>1, <2>2 DEF Contents, Holds
<1>5. Types
  BY DEF Init, Types
<1>6. Served /\ Clean /\ Passed
  BY DEF Init, Served, Clean, Passed
<1>7. ServerFieldSet
  BY DEF Init, ServerFieldSet, Unanswered, Answer
<1> QED BY <1>1, <1>3, <1>4, <1>5, <1>6, <1>7 DEF IInv, Build, Walk

\* The router is configured before it is started, so before any request.
LEMMA ConfigureInv ==
  ASSUME IInv, Configure
  PROVE  IInv'
<1>1. Build' /\ Contents' /\ place[Shared] = "unborn" /\ UNCHANGED walk
  BY ConfigureBuild DEF IInv
<1>2. request = None /\ answer = Unanswered
  BY <1>1 DEF IInv, Walk, Served, Clean
<1>3. Types'
  BY <1>1 DEF IInv, Walk, Types, walk
<1>4. Served' /\ Clean' /\ Passed'
  BY <1>1, <1>2 DEF IInv, Walk, Served, Clean, Passed, walk
<1>5. ServerFieldSet'
  BY <1>1, <1>2 DEF ServerFieldSet, Unanswered, Answer, walk
<1> QED BY <1>1, <1>3, <1>4, <1>5 DEF IInv, Walk

\* Dispatch reads the tables only.
LEMMA TablesUnchanged ==
  ASSUME IInv, UNCHANGED tables
  PROVE  Build' /\ Contents'
<1>1. Build'
  BY BuildUnchanged DEF IInv, tables
<1>2. Contents'
  BY DEF IInv, Contents, Holds, Owned, tables
<1> QED BY <1>1, <1>2

LEMMA ReceiveInv ==
  ASSUME IInv, NEW q \in Request, Receive(q)
  PROVE  IInv'
<1>1. /\ place[Shared] = "context" /\ request = None /\ request' = q
      /\ at' = Shared /\ rest' = q.target /\ UNCHANGED <<tables, path, answer>>
  BY DEF Receive
<1>2. q.target \in Seq(Segments) /\ Shared \in Objects
  BY TargetsAssumption, ObjectsAssumption DEF Request, Segments
<1>3. path = <<>> /\ answer = Unanswered
  BY <1>1 DEF IInv, Walk, Clean
<1>4. answer.by \notin Kind
  BY <1>3 DEF Unanswered, Answer, Kind
<1>5. server[Shared] = TRUE
  BY <1>1 DEF IInv, Build, BuildInv, Roots
<1>6. Types'
  BY <1>1, <1>2, <1>3 DEF IInv, Walk, Types
<1>7. Served' /\ Clean'
  BY <1>1, <1>2, <1>3, <1>5, ObjectsAssumption DEF Served, Clean, tables, Request
<1>8. Passed'
  BY <1>1, <1>3, <1>4 DEF Passed
<1>9. ServerFieldSet'
  BY <1>1, <1>3 DEF ServerFieldSet, Unanswered, Answer
<1> QED BY <1>1, <1>6, <1>7, <1>8, <1>9, TablesUnchanged DEF IInv, Walk

\* A router that hands the request on has no policy against it.
LEMMA DescendInv ==
  ASSUME IInv, Descend
  PROVE  IInv'
<1>1. PICK b \in Bases :
        /\ subs[at][b] # None
        /\ at' = subs[at][b]
        /\ rest' = SubSeq(rest, Len(b) + 1, Len(rest))
        /\ path' = Append(path, [router |-> at, rest |-> rest])
  BY DEF Descend, Fitting
<1>2. /\ request # None /\ answer = Unanswered /\ ~Rejected
      /\ UNCHANGED <<tables, request, answer>>
  BY DEF Descend, Walking
<1>3. Types /\ Served /\ Clean /\ Passed /\ subs \in Subs
  BY DEF IInv, Walk, Build, BuildInv, Tables
<1>4. [router |-> at, rest |-> rest] \in Steps
  <2>1. at \in Objects \cup {None} /\ rest \in Seq(Segments)
    BY <1>3 DEF Types
  <2> QED BY <2>1 DEF Steps
<1>5. rest' \in Seq(Segments)
  <2>1. b \in Seq(Segments)
    BY TargetsAssumption DEF Segments
  <2>2. Len(b) \in Nat
    BY <2>1
  <2> QED BY <1>1, <1>3, <2>2 DEF Types
<1>6. Types'
  <2>1. at \in Objects /\ subs \in [Objects -> [Bases -> Objects \cup {None}]]
    BY <1>2, <1>3 DEF Served, Subs
  <2>2. at' \in Objects
    BY <1>1, <2>1
  <2> QED BY <1>1, <1>2, <1>3, <1>4, <1>5, <2>2 DEF Types, tables
<1>7. Served' /\ Clean'
  <2>1. at \in Objects /\ place[at] # "destroyed" /\ server[at] = TRUE /\ place[Shared] = "context"
    BY <1>2, <1>3 DEF Served
  <2>2. at' \in Children(at)
    BY <1>1, ObjectsAssumption DEF Children
  <2>3. place[at'] = "stored" /\ server[at'] = server[at]
    BY <2>1, <2>2 DEF IInv, Build, BuildInv, Forest, OneServerString
  <2>4. at' \in Objects
    BY <2>1, <2>2, <1>3 DEF Children, Subs
  <2> QED BY <1>2, <1>3, <2>1, <2>3, <2>4 DEF Served, Clean, tables
<1>8. Passed'
  <2>1. ASSUME request.kind # "ws"
        PROVE  \A i \in DOMAIN path' : Rejecting(path'[i].router, path'[i].rest) = {}
    <3>1. Rejecting(at, rest) = {}
      BY <1>2, <2>1 DEF Rejected
    <3>2. \A i \in DOMAIN path : Rejecting(path[i].router, path[i].rest) = {}
      BY <1>2, <1>3, <2>1 DEF Passed
    <3>3. /\ DOMAIN path' = 1..(Len(path) + 1) /\ DOMAIN path = 1..Len(path) /\ Len(path) \in Nat
          /\ \A i \in 1..Len(path) : path'[i] = path[i]
          /\ path'[Len(path) + 1] = [router |-> at, rest |-> rest]
      <4>1. path \in Seq(Steps)
        BY <1>3 DEF Types
      <4> QED BY <1>1, <1>4, <4>1
    <3>4. ASSUME NEW i \in DOMAIN path' PROVE Rejecting(path'[i].router, path'[i].rest) = {}
      <4>1. CASE i \in DOMAIN path
        BY <3>2, <3>3, <4>1
      <4>2. CASE i = Len(path) + 1
        <5>1. path'[i].router = at /\ path'[i].rest = rest
          BY <3>3, <4>2
        <5> QED BY <3>1, <5>1
      <4> QED BY <3>3, <4>1, <4>2
    <3> QED BY <3>4
  <2>2. answer'.by \notin Kind
    BY <1>2 DEF Unanswered, Answer, Kind
  <2>3. policies' = policies /\ request' = request
    BY <1>2 DEF tables
  <2> QED BY <2>1, <2>2, <2>3 DEF Passed, Rejecting
<1>9. ServerFieldSet'
  BY <1>2 DEF ServerFieldSet, Unanswered, Answer
<1> QED BY <1>2, <1>6, <1>7, <1>8, <1>9, TablesUnchanged DEF IInv, Walk

\* An answer is given where the request is, by a writer with the right string.
LEMMA AnsweredInv ==
  ASSUME IInv, request # None, UNCHANGED <<tables, request, at, rest, path>>,
         answer'.by \in Kind /\ request.kind # "ws" => Rejecting(at, rest) = {},
         ServerFieldSet'
  PROVE  IInv'
<1>1. Types' /\ Served' /\ Clean'
  BY DEF IInv, Walk, Types, Served, Clean, tables
<1>2. Passed'
  BY DEF IInv, Walk, Passed, Rejecting, tables
<1> QED BY <1>1, <1>2, TablesUnchanged DEF IInv, Walk

\* The router that has the request, and the object that wrote one of its
\* entries.
LEMMA OwnerNamed ==
  ASSUME IInv, request # None, NEW w \in Objects, w = at \/ <<w, at>> \in Owned
  PROVE  server[w] \/ (place[w] = "moved" /\ w # Top)
<1>1. server[at] = TRUE
  BY DEF IInv, Walk, Served
<1>2. server[Top] = TRUE
  BY DEF IInv, Build, BuildInv, Roots
<1> QED BY <1>1, <1>2 DEF Owned

LEMMA FirstIn ==
  ASSUME NEW ks, ks \subseteq Nat, ks # {}
  PROVE  First(ks) \in ks
<1> DEFINE R == OpToRel(<, Nat)
<1>1. IsWellFoundedOn(R, Nat)
  BY NatLessThanWellFounded
<1>2. \A x, y \in Nat : <<x, y>> \in R <=> x < y
  BY DEF OpToRel
<1> HIDE DEF R
<1>3. PICK k \in ks : \A l \in ks : ~(<<l, k>> \in R)
  BY <1>1, WFMin
<1>4. ASSUME NEW l \in ks PROVE k <= l
  <2>1. ~(l < k)
    BY <1>2, <1>3
  <2>2. k \in Nat /\ l \in Nat
    OBVIOUS
  <2> QED BY <2>1, <2>2
<1> QED BY <1>4 DEF First

LEMMA RejectInv ==
  ASSUME IInv, Reject
  PROVE  IInv'
<1> DEFINE k == First(Rejecting(at, rest))
           w == policies[at][k].self
<1>1. /\ request # None /\ Rejecting(at, rest) # {}
      /\ answer' = Answer("policy", w, TRUE)
      /\ UNCHANGED <<tables, request, at, rest, path>>
  BY DEF Reject, Walking, Rejected
<1>2. at \in Objects /\ Holds(policies, Policy, Owned)
  BY <1>1 DEF IInv, Walk, Served, Contents
<1>3. k \in DOMAIN policies[at]
  <2>1. policies[at] \in Seq(Policy)
    BY <1>2 DEF Holds
  <2>2. Rejecting(at, rest) \subseteq DOMAIN policies[at] /\ DOMAIN policies[at] \subseteq Nat
    BY <2>1 DEF Rejecting
  <2> QED BY <1>1, <2>2, FirstIn
<1>4. w \in Objects /\ <<w, at>> \in Owned
  BY <1>2, <1>3 DEF Holds
<1> HIDE DEF w
<1>5. answer'.by = "policy" /\ answer'.writer = w
  BY <1>1 DEF Answer
<1>6. ServerFieldSet'
  BY <1>1, <1>4, <1>5, OwnerNamed DEF ServerFieldSet, tables
<1> QED BY <1>1, <1>5, <1>6, AnsweredInv DEF Kind

LEMMA HandleHttpRequestInv ==
  ASSUME IInv, HandleHttpRequest
  PROVE  IInv'
<1> DEFINE k == First(Matching)
           e == routes[at][k]
           w == IF e.kind = "redirect" THEN at ELSE e.self
           complete == e.kind = "preflight" => Listed(e.self, rest) = Listed(at, rest)
<1>1. /\ request # None /\ ~Rejected /\ Matching # {} /\ request.kind # "ws"
      /\ answer' = Answer(e.kind, w, complete)
      /\ UNCHANGED <<tables, request, at, rest, path>>
  BY DEF HandleHttpRequest, Here, Walking
<1>2. at \in Objects /\ Holds(routes, Entry, Owned)
  BY <1>1 DEF IInv, Walk, Served, Contents
<1>3. k \in DOMAIN routes[at]
  <2>1. routes[at] \in Seq(Entry)
    BY <1>2 DEF Holds
  <2>2. Matching \subseteq DOMAIN routes[at] /\ DOMAIN routes[at] \subseteq Nat
    BY <2>1 DEF Matching
  <2> QED BY <1>1, <2>2, FirstIn
<1>4. w \in Objects /\ (w = at \/ <<w, at>> \in Owned)
  BY <1>2, <1>3 DEF Holds
<1> HIDE DEF w, complete
<1>5. answer'.writer = w
  BY <1>1 DEF Answer
<1>6. ServerFieldSet'
  BY <1>1, <1>4, <1>5, OwnerNamed DEF ServerFieldSet, tables
<1> QED BY <1>1, <1>6, AnsweredInv DEF Rejected

LEMMA NextInv ==
  ASSUME IInv, [Next]_vars
  PROVE  IInv'
<1>1. CASE Configure
  BY <1>1, ConfigureInv
<1>2. CASE \E q \in Request : Receive(q)
  BY <1>2, ReceiveInv
<1>3. CASE Descend
  BY <1>3, DescendInv
<1>4. CASE Reject
  BY <1>4, RejectInv
<1>5. CASE HandleHttpRequest
  BY <1>5, HandleHttpRequestInv
<1>6. CASE UnknownRequest
  <2>1. /\ request # None /\ UNCHANGED <<tables, request, at, rest, path>>
        /\ answer'.by = "router" /\ answer'.writer = at
    BY <1>6 DEF UnknownRequest, Here, Walking, Answer
  <2>2. at \in Objects /\ server[at]
    BY <2>1 DEF IInv, Walk, Served
  <2>3. ServerFieldSet'
    BY <2>1, <2>2 DEF ServerFieldSet, tables
  <2> QED BY <2>1, <2>3, AnsweredInv DEF Kind
<1>7. CASE HandleWsRequest
  <2>1. /\ request # None /\ request.kind = "ws" /\ UNCHANGED <<tables, request, at, rest, path>>
        /\ answer'.by \in {"crash", "socket", "nobody"}
    BY <1>7 DEF HandleWsRequest, Here, Walking, Answer
  <2>2. ServerFieldSet'
    BY <2>1 DEF ServerFieldSet
  <2> QED BY <2>1, <2>2, AnsweredInv
<1>8. CASE Finish
  <2>1. /\ request' = None /\ at' = None /\ rest' = <<>> /\ path' = <<>> /\ answer' = Unanswered
        /\ UNCHANGED tables
    BY <1>8 DEF Finish
  <2>2. Types'
    BY <2>1 DEF Types
  <2>3. Served' /\ Clean' /\ Passed'
    BY <2>1 DEF Served, Clean, Passed
  <2>4. ServerFieldSet'
    BY <2>1 DEF ServerFieldSet, Unanswered, Answer
  <2> QED BY <2>1, <2>2, <2>3, <2>4, TablesUnchanged DEF IInv, Walk
<1>9. CASE UNCHANGED vars
  <2>1. UNCHANGED tables /\ UNCHANGED walk
    BY <1>9 DEF vars
  <2>2. Walk'
    BY <2>1 DEF IInv, Walk, Types, Served, Clean, Passed, ServerFieldSet, Rejecting, tables, walk
  <2> QED BY <2>1, <2>2, TablesUnchanged DEF IInv
<1> QED BY <1>1, <1>2, <1>3, <1>4, <1>5, <1>6, <1>7, <1>8, <1>9 DEF Next, Dispatch

-----------------------------------------------------------------------------
(* Theorems.                                                               *)

\* The inductive invariant holds in every reachable state.
THEOREM Invariance == Spec => []IInv
<1>1. Init => IInv
  BY InitInv
<1>2. IInv /\ [Next]_vars => IInv'
  BY NextInv
<1> QED BY <1>1, <1>2, PTL DEF Spec

\* Types; and a stored router has one parent and is not below itself, whatever
\* was moved into whatever and refused (add_subrouter(), start()).
THEOREM TypeCorrect == Spec => []TypeInv
<1>1. IInv => TypeInv
  <2> SUFFICES ASSUME IInv PROVE TypeInv
    OBVIOUS
  <2>1. Tables /\ Forest /\ Shape /\ Contents /\ Types
    BY DEF IInv, Build, BuildInv, Walk
  <2>2. ASSUME NEW s \in Objects, place[s] = "stored"
        PROVE  Cardinality({e \in Objects \X Bases : subs[e[1]][e[2]] = s}) = 1
    <3>1. PICK q \in Objects, b \in Bases : subs[q][b] = s
      BY <2>1, <2>2 DEF Shape
    <3>2. s # None
      BY ObjectsAssumption
    <3>3. \A q2 \in Objects, b2 \in Bases : subs[q2][b2] = s => q2 = q /\ b2 = b
      BY <2>1, <3>1, <3>2 DEF Forest
    <3>4. {e \in Objects \X Bases : subs[e[1]][e[2]] = s} = {<<q, b>>}
      BY <3>1, <3>3
    <3> QED BY <3>4, FS_Singleton
  <2>3. ASSUME NEW p \in Objects, place[p] # "destroyed", NEW s \in Children(p)
        PROVE  place[s] = "stored" /\ p \notin Tree(s)
    BY <2>1, <2>3 DEF Forest, Shape
  <2> QED BY <2>1, <2>2, <2>3 DEF TypeInv, Tables, Subs, Places, Contents, Holds, Types
<1> QED BY <1>1, Invariance, PTL

\* All routers of one tree have the same server string, in whatever order they
\* were put together, though set_server_string() stops where it finds it.
THEOREM OneString == Spec => []OneServerString
<1>1. IInv => OneServerString
  BY DEF IInv, Build, BuildInv
<1> QED BY <1>1, Invariance, PTL

\* Every HTTP response has the configured Server field, except what a
\* sub-router added by move writes, whichever object its writer captured.
THEOREM FieldSet == Spec => []ServerFieldSet
<1>1. IInv => ServerFieldSet
  BY DEF IInv, Walk
<1> QED BY <1>1, Invariance, PTL

\* However the routers were put together, no HTTP request gets to an endpoint
\* past a policy that refuses it, on any level (handle_request() asks
\* is_handled_by_policies() before it chops the target).
THEOREM PoliciesRespected == Spec => []PoliciesPassed
<1>1. IInv => PoliciesPassed
  BY DEF IInv, Walk, Passed, PoliciesPassed
<1> QED BY <1>1, Invariance, PTL
=============================================================================
