------------------------------ MODULE MCAgent ------------------------------
(***************************************************************************)
(* Small instances of Agent for TLC: the configurations Agent_*.cfg give   *)
(* the constants their values.                                             *)
(***************************************************************************)
EXTENDS Agent, TLC

\* Sound for the safety runs: no definition tells one token from another.
Symmetry == Permutations(Symbols)
=============================================================================
