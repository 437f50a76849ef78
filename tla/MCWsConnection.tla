--------------------------- MODULE MCWsConnection ---------------------------
(***************************************************************************)
(* WsConnection with few calls.  The safety runs take calls of one kind    *)
(* for interchangeable.                                                    *)
(***************************************************************************)
EXTENDS WsConnection, TLC

CallSymmetry == Permutations(Sends) \cup Permutations(Reads)
                  \cup Permutations(Closers) \cup Permutations(Forcers)

SafetySpec == Init /\ [][Next]_vars
=============================================================================
