---------------------------- MODULE MCEngineABCI ----------------------------
(***************************************************************************)
(* Three validators for TLC: two have the votes, the third follows.        *)
(***************************************************************************)
EXTENDS EngineABCI

CONSTANTS va, vb, vc

TwoOfThree == {{va, vb}, {va, vb, vc}}
=============================================================================
