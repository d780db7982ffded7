-------------------------- MODULE MCCircuitBreaker --------------------------
(***************************************************************************)
(* The wallet that TLC reads: its balances in the order wallet_breakdown   *)
(* takes them, the tokens as the list of eligible tokens has them.         *)
(***************************************************************************)
EXTENDS CircuitBreaker

OneToken == <<"cash", "a">>
=============================================================================
