------------------------------ MODULE MCRouter ------------------------------
(***************************************************************************)
(* Router with two routers of the user's, which are interchangeable, and   *)
(* two resources of which one is the start of the other: what is left of a *)
(* target after the shorter one is the other target, after the longer one  *)
(* nothing is left.                                                        *)
(***************************************************************************)
EXTENDS Router, TLC

MCBases == {<<>>, <<"a">>, <<"a", "a">>}
MCTargets == {<<"a">>, <<"a", "a">>}

SubSymmetry == Permutations(Objects \ {Top, Shared})
=============================================================================
