-------------------------------- MODULE Url --------------------------------
(***************************************************************************)
(* build_request() (core/http/url.hpp) and build_endpoint()                *)
(* (core/websocket/url.hpp): where a URL leads to.                         *)
(*                                                                         *)
(* A URL is a record of a scheme ("none" for text that is no URL), a port, *)
(* 0 if it names none, and a target, which is "" if it has none.  Parsing  *)
(* the text is Boost.URL's, and the host is taken as it is.  An optional   *)
(* result is a set of at most one element.                                 *)
(***************************************************************************)
EXTENDS Naturals

\* url::port_number(): 0 stands for none, and for one that 16 bits do not hold.
PortNumber(u) == IF u.port <= 65535 THEN u.port ELSE 0

\* The port a URL names, or that of its scheme.
PortOf(u, secure) ==
  IF PortNumber(u) # 0 THEN PortNumber(u) ELSE IF u.scheme = secure THEN 443 ELSE 80

TargetOf(u) == IF u.target = "" THEN "/" ELSE u.target

Destination(u, plain, secure) ==
  {[tls |-> s = secure, port |-> PortOf(u, secure), target |-> TargetOf(u)] :
     s \in {u.scheme} \cap {plain, secure}}

BuildRequest(u) == Destination(u, "http", "https")

BuildEndpoint(u) == Destination(u, "ws", "wss")
=============================================================================
