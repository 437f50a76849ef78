------------------------------ MODULE MCClient ------------------------------
(***************************************************************************)
(* Client with one URL for each way the builders go: plain and secure      *)
(* schemes, with a port, without, and with one over 16 bits, and text that *)
(* is no URL.                                                              *)
(***************************************************************************)
EXTENDS Client

MCUrls == {[scheme |-> "http", port |-> 8080, target |-> "/x"],
           [scheme |-> "http", port |-> 65536, target |-> ""],
           [scheme |-> "https", port |-> 65535, target |-> "/x"],
           [scheme |-> "https", port |-> 0, target |-> ""],
           [scheme |-> "ws", port |-> 8080, target |-> "/x"],
           [scheme |-> "ws", port |-> 0, target |-> ""],
           [scheme |-> "wss", port |-> 8443, target |-> "/x"],
           [scheme |-> "none", port |-> 0, target |-> ""]}
=============================================================================
