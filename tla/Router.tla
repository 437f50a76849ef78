------------------------------- MODULE Router -------------------------------
(***************************************************************************)
(* malloy::server::router, server/routing/router.hpp and router.cpp, and   *)
(* what routing_context::start() does to it: the tree of router objects    *)
(* its user builds, and the way of one request through it.                 *)
(*                                                                         *)
(* The lambdas that write responses capture `this' when an endpoint or a   *)
(* policy is added; an entry therefore remembers the object it was added   *)
(* to, which moving a router does not change.  Users keep the objects they *)
(* moved from, and may go on configuring a router they have handed over as *)
(* a unique_ptr.  Dispatch is synchronous and changes no table, so one     *)
(* request at a time is enough.                                            *)
(*                                                                         *)
(* A target is a sequence of path segments; queries and fragments, regular *)
(* expressions beyond exact ones, and the content of responses other than  *)
(* the Server field and a preflight's list of methods are left out.        *)
(***************************************************************************)
EXTENDS Naturals, Sequences, SequencesExt, FiniteSets

CONSTANTS Objects,    \* router objects
          Top,        \* m_router of the routing_context
          Shared,     \* the object start() moves it into
          Bases,      \* resources under which sub-routers are added
          Targets,    \* targets of endpoints, policies and requests
          MaxEntries, \* bound on the endpoints and policies of all routers
          None

ASSUME ObjectsAssumption == {Top, Shared} \subseteq Objects /\ Top # Shared /\ None \notin Objects
ASSUME MaxEntriesAssumption == MaxEntries \in Nat
ASSUME TargetsAssumption == Targets \cup Bases \subseteq Seq(UNION {Range(t) : t \in Targets \cup Bases})

VARIABLES
  place,     \* "unborn", "context", "user", "stored", "moved" or "destroyed"
  subs,      \* m_sub_routers
  routes,    \* m_endpoints_http and m_endpoints_websocket
  policies,  \* m_policies
  server,    \* whether m_server_str is the agent string of the configuration
  logger,    \* whether m_logger is set
  request,   \* the request being dispatched, None if there is none
  at,        \* the router that has it
  rest,      \* its target, chopped so far
  path,      \* where it has been
  answer     \* what became of it

tables == <<place, subs, routes, policies, server, logger>>
walk == <<request, at, rest, path, answer>>
vars == <<tables, walk>>

Kind == {"page", "files", "redirect", "preflight", "socket"}
Entry == [kind : Kind, target : Targets, self : Objects]
Policy == [target : Targets, rejects : BOOLEAN, self : Objects]
Request == [kind : {"get", "options", "ws"}, target : Targets]
Answer(by, writer, complete) == [by |-> by, writer |-> writer, complete |-> complete]
Unanswered == Answer("none", None, TRUE)

NoSubs == [b \in Bases |-> None]
Children(r) == {subs[r][b] : b \in Bases} \ {None}

\* r and the routers below it, as far down as they are among some: the least
\* set that has r and the children of its members.
Reach(r, among) ==
  LET Closed(S) == /\ {r} \cap among \subseteq S
                   /\ \A p \in S : Children(p) \cap among \subseteq S
  IN  {q \in among : \A S \in SUBSET among : Closed(S) => q \in S}
Tree(r) == Reach(r, Objects)

Init ==
  /\ place = [r \in Objects |-> IF r = Top THEN "context" ELSE IF r = Shared THEN "unborn" ELSE "user"]
  /\ subs = [r \in Objects |-> NoSubs]
  /\ routes = [r \in Objects |-> <<>>]
  /\ policies = [r \in Objects |-> <<>>]
  /\ server = [r \in Objects |-> r = Top]
  /\ logger = [r \in Objects |-> r = Top]
  /\ request = None /\ at = None /\ rest = <<>> /\ path = <<>> /\ answer = Unanswered

-----------------------------------------------------------------------------
(* Configuration.                                                          *)

Configurable(r) == place[Shared] = "unborn" /\ place[r] \in {"context", "user", "stored"}

Entries == FoldFunction(+, 0, [r \in Objects |-> Len(routes[r]) + Len(policies[r])])

\* add_http_endpoint() and add_websocket_endpoint().
AddEndpoint(r, kind, t) ==
  /\ Configurable(r) /\ Entries < MaxEntries
  /\ routes' = [routes EXCEPT ![r] = Append(@, [kind |-> kind, target |-> t, self |-> r])]
  /\ UNCHANGED <<place, subs, policies, server, logger, walk>>

\* A handler for one method.
Add(r, t) == AddEndpoint(r, "page", t)

AddFileServing(r, t) == AddEndpoint(r, "files", t)

\* A handler for OPTIONS that looks at the endpoints of its router.
AddPreflight(r, t) == AddEndpoint(r, "preflight", t)

\* Refused unless the resource starts with a slash.
AddRedirect(r, t) == t # <<>> /\ AddEndpoint(r, "redirect", t)

AddWebsocket(r, t) == AddEndpoint(r, "socket", t)

AddPolicy(r, t, rejects) ==
  /\ Configurable(r) /\ Entries < MaxEntries
  /\ policies' = [policies EXCEPT ![r] = Append(@, [target |-> t, rejects |-> rejects, self |-> r])]
  /\ UNCHANGED <<place, subs, routes, server, logger, walk>>

\* set_logger(): r, and its sub-routers, of which only those without a logger
\* are changed.
LoggedWith(r) == Children(r)

SetLogger(r) == /\ Configurable(r)
                /\ logger' = [q \in Objects |-> logger[q] \/ q = r \/ q \in LoggedWith(r)]
                /\ UNCHANGED <<place, subs, routes, policies, server, walk>>

\* Mutant: the string is not passed on.
DifferingItself(r, str) == {q \in {r} : server[q] # str}

\* set_server_string(): down the tree, as far as the string differs.
Differing(r, str) == Reach(r, {q \in Objects : server[q] # str})

\* Mutant: the object moved from keeps what it had.
MovedAndKept(f, from, to, empty) == [f EXCEPT ![to] = f[from]]

\* The move constructor of router: what f says of `from' goes over.
Moved(f, from, to, empty) == IF from = to THEN f ELSE [f EXCEPT ![to] = f[from], ![from] = empty]

NewObject(n) == /\ place[n] = "user" /\ subs[n] = NoSubs /\ ~logger[n]
                /\ routes[n] = <<>> /\ policies[n] = <<>>

\* add_subrouter() of s: n is s itself if it comes as a unique_ptr, and a new
\* object if it comes as an rvalue.  An empty resource is refused.  try_emplace()
\* leaves an existing resource alone; the sub-router goes with the argument
\* then, and the caller is told that all is well.
AddSubrouter(p, b, s, n) ==
  /\ Configurable(p) /\ place[s] = "user" /\ p \notin Tree(s)
  /\ n = s \/ (NewObject(n) /\ n \notin {p, s})
  /\ b # <<>>
  /\ logger' = [q \in Objects |-> \/ Moved(logger, s, n, FALSE)[q]
                                  \/ logger[p] /\ q \in {n} \cup LoggedWith(s)]
  /\ server' = [q \in Objects |-> IF q \in {n} \cup (Differing(s, server[p]) \ {s})
                                    THEN server[p] ELSE server[q]]
  /\ routes' = Moved(routes, s, n, <<>>)
  /\ policies' = Moved(policies, s, n, <<>>)
  /\ LET taken == subs[p][b] # None
         gone == {n} \cup (Tree(s) \ {s})
     IN  /\ subs' = [Moved(subs, s, n, NoSubs) EXCEPT ![p][b] = IF taken THEN @ ELSE n]
         /\ place' = [q \in Objects |-> IF taken /\ q \in gone THEN "destroyed"
                                        ELSE IF q = n THEN "stored"
                                        ELSE IF q = s THEN "moved"
                                        ELSE place[q]]
  /\ UNCHANGED walk

\* Mutant: the new object does not take the string over.
StartUnnamed ==
  /\ place[Shared] = "unborn"
  /\ place' = [place EXCEPT ![Shared] = "context", ![Top] = "moved"]
  /\ subs' = Moved(subs, Top, Shared, NoSubs)
  /\ routes' = Moved(routes, Top, Shared, <<>>)
  /\ policies' = Moved(policies, Top, Shared, <<>>)
  /\ logger' = Moved(logger, Top, Shared, FALSE)
  /\ UNCHANGED <<server, walk>>

\* start() moves the router of the context into an object of its own.
Start ==
  /\ place[Shared] = "unborn"
  /\ place' = [place EXCEPT ![Shared] = "context", ![Top] = "moved"]
  /\ subs' = Moved(subs, Top, Shared, NoSubs)
  /\ routes' = Moved(routes, Top, Shared, <<>>)
  /\ policies' = Moved(policies, Top, Shared, <<>>)
  /\ server' = [server EXCEPT ![Shared] = server[Top]]
  /\ logger' = Moved(logger, Top, Shared, FALSE)
  /\ UNCHANGED walk

Configure == \/ \E r \in Objects, t \in Targets :
                  \/ Add(r, t) \/ AddFileServing(r, t) \/ AddPreflight(r, t)
                  \/ AddRedirect(r, t) \/ AddWebsocket(r, t)
                  \/ \E rejects \in BOOLEAN : AddPolicy(r, t, rejects)
             \/ \E r \in Objects : SetLogger(r)
             \/ \E p, s, n \in Objects, b \in Bases : AddSubrouter(p, b, s, n)
             \/ Start

-----------------------------------------------------------------------------
(* Dispatch: handle_request(), from router to router.                      *)

Receive(q) == /\ place[Shared] = "context" /\ request = None
              /\ request' = q
              /\ at' = Shared
              /\ rest' = q.target
              /\ UNCHANGED <<tables, path, answer>>

First(ks) == CHOOSE k \in ks : \A l \in ks : k <= l

Walking == request # None /\ answer = Unanswered

\* The first policy of r that matches target and answers in its own right.
Rejecting(r, target) == {k \in DOMAIN policies[r] : /\ policies[r][k].rejects
                                                    /\ policies[r][k].target = target}

\* is_handled_by_policies(): HTTP requests only.
Rejected == request.kind # "ws" /\ Rejecting(at, rest) # {}

Reject ==
  /\ Walking /\ Rejected
  /\ answer' = Answer("policy", policies[at][First(Rejecting(at, rest))].self, TRUE)
  /\ UNCHANGED <<tables, request, at, rest, path>>

\* The sub-routers whose resource the target starts with; an unordered_map
\* gives them in any order, and the first one takes the request for good.
Fitting == {b \in Bases : subs[at][b] # None /\ IsPrefix(b, rest)}

\* Mutant: policies are looked at only where the request ends.
DescendUnchecked ==
  /\ Walking
  /\ \E b \in Fitting :
       /\ at' = subs[at][b]
       /\ rest' = SubSeq(rest, Len(b) + 1, Len(rest))
       /\ path' = Append(path, [router |-> at, rest |-> rest])
  /\ UNCHANGED <<tables, request, answer>>

Descend ==
  /\ Walking /\ ~Rejected
  /\ \E b \in Fitting :
       /\ at' = subs[at][b]
       /\ rest' = SubSeq(rest, Len(b) + 1, Len(rest))
       /\ path' = Append(path, [router |-> at, rest |-> rest])
  /\ UNCHANGED <<tables, request, answer>>

\* matches() of each kind of endpoint; a redirect and files take any method.
MatchesRegex(e, kind, target) ==
  /\ \/ e.kind = "page" /\ kind = "get"
     \/ e.kind = "preflight" /\ kind = "options"
  /\ target = e.target
MatchesFiles(e, kind, target) == e.kind = "files" /\ kind # "ws" /\ IsPrefix(e.target, target)
MatchesRedirect(e, kind, target) == e.kind = "redirect" /\ kind # "ws" /\ target = e.target
MatchesSocket(e, kind, target) == e.kind = "socket" /\ kind = "ws" /\ target = e.target

Matches(e, kind, target) == \/ MatchesRegex(e, kind, target) \/ MatchesFiles(e, kind, target)
                            \/ MatchesRedirect(e, kind, target) \/ MatchesSocket(e, kind, target)

Matching == {k \in DOMAIN routes[at] : Matches(routes[at][k], request.kind, rest)}

Here == Walking /\ ~Rejected /\ Fitting = {}

\* The methods a preflight lists: those of the regex endpoints it finds for the
\* target in the router that its lambda captured.
Listed(r, target) ==
  {routes[r][k].kind : k \in {j \in DOMAIN routes[r] : /\ routes[r][j].kind \in {"page", "preflight"}
                                                       /\ routes[r][j].target = target}}

\* handle_http_request(): the first endpoint that matches.  A redirect is
\* returned, and written by the router that has the request; the others are
\* written by the lambda.
HandleHttpRequest ==
  /\ Here /\ request.kind # "ws" /\ Matching # {}
  /\ LET e == routes[at][First(Matching)] IN
       answer' = Answer(e.kind, IF e.kind = "redirect" THEN at ELSE e.self,
                        e.kind = "preflight" => Listed(e.self, rest) = Listed(at, rest))
  /\ UNCHANGED <<tables, request, at, rest, path>>

\* No endpoint matches: "unknown request".
UnknownRequest ==
  /\ Here /\ request.kind # "ws" /\ Matching = {}
  /\ answer' = Answer("router", at, TRUE)
  /\ UNCHANGED <<tables, request, at, rest, path>>

\* handle_ws_request(): the first endpoint, or nobody.  It needs a logger.
HandleWsRequest ==
  /\ Here /\ request.kind = "ws"
  /\ answer' = Answer(IF ~logger[at] THEN "crash" ELSE IF Matching # {} THEN "socket" ELSE "nobody", None, TRUE)
  /\ UNCHANGED <<tables, request, at, rest, path>>

\* The next request.
Finish == /\ answer # Unanswered
          /\ request' = None /\ at' = None /\ rest' = <<>> /\ path' = <<>> /\ answer' = Unanswered
          /\ UNCHANGED tables

Dispatch == (\E q \in Request : Receive(q)) \/ Reject \/ Descend \/ HandleHttpRequest \/ UnknownRequest \/ HandleWsRequest
            \/ Finish

Next == Configure \/ Dispatch

Spec == Init /\ [][Next]_vars

-----------------------------------------------------------------------------
(* What should be true.                                                    *)

\* Types; and the objects form a forest: a stored router has one parent, and is
\* not its own descendant.
TypeInv ==
  /\ place \in [Objects -> {"unborn", "context", "user", "stored", "moved", "destroyed"}]
  /\ subs \in [Objects -> [Bases -> Objects \cup {None}]]
  /\ routes \in [Objects -> Seq(Entry)] /\ policies \in [Objects -> Seq(Policy)]
  /\ server \in [Objects -> BOOLEAN] /\ logger \in [Objects -> BOOLEAN]
  /\ request \in Request \cup {None} /\ at \in Objects \cup {None}
  /\ \A s \in Objects : place[s] = "stored" =>
       Cardinality({e \in Objects \X Bases : subs[e[1]][e[2]] = s}) = 1
  /\ \A p \in Objects : place[p] # "destroyed" =>
       \A s \in Children(p) : place[s] = "stored" /\ p \notin Tree(s)

\* All routers of one tree have the same server string, in whatever order they
\* were put together: set_server_string() stops at a router that has it
\* already (router.cpp:106).
OneServerString ==
  \A p \in Objects : place[p] # "destroyed" => \A s \in Children(p) : server[s] = server[p]

\* Every HTTP response carries the configured Server field ("Set as the Server
\* field in http headers", routing_context.hpp:67), also after start() moved the
\* router that wrote it.  Only a sub-router added by move escapes: its lambdas
\* read the string of the object the user moved from.
ServerFieldSet ==
  answer.by \in {"policy", "router", "page", "files", "redirect", "preflight"} =>
    \/ server[answer.writer]
    \/ place[answer.writer] = "moved" /\ answer.writer # Top

\* An HTTP request gets to an endpoint only past the policies of every router on
\* its way, each of which sees the target as chopped so far.
PoliciesPassed ==
  request # None /\ request.kind # "ws" /\ answer.by \in Kind =>
    /\ Rejecting(at, rest) = {}
    /\ \A i \in DOMAIN path : Rejecting(path[i].router, path[i].rest) = {}

\* A preflight looks for "matching endpoints" (router.cpp:126) of the router
\* that answers it.
PreflightListsMethods == answer.complete
=============================================================================
