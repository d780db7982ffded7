------------------------------- MODULE OnChain -------------------------------
(***************************************************************************)
(* Filter 2: what the chain and the aggregator must answer before a token  *)
(* is bought (bnb_validation.py, with the aggregator as its quoter, which  *)
(* is how run_agent wires it).                                             *)
(*                                                                         *)
(* A venue is what they answer for one token: eligible (on the list of the *)
(* competition), depth of its pool in dollars, buy (the worth, at the      *)
(* price of CMC, of the tokens the quote gives for 1000 of money; 0 when   *)
(* there is no route), sell (what the quote pays back for 1000 of the      *)
(* token) and impact, when the quote carries one, in tenths of a per cent. *)
(***************************************************************************)
EXTENDS Playbook

Whitelisted(v) == v.eligible
\* Deep enough, and the trade (in cents) at most its share of the pool.
Deep(v, size) == v.depth >= Cfg.minPool /\ size <= v.depth * Cfg.poolShare
\* The round trip as the code measures it: the sell quote alone, of as much money as is spent.
Retains(v, size) == size > 0 /\ v.sell >= 970
\* mutant: only a route dearer than the reference is refused when it is twice as far
LaxOracle(v, priced) ==
  ~priced \/ 1000 * Most(1000 - v.buy, v.buy - 1000) <= 2 * Cfg.divergence * v.buy
OracleAgrees(v, priced) ==
  ~priced \/ 1000 * Most(1000 - v.buy, v.buy - 1000) <= Cfg.divergence * v.buy
\* priced: CMC gave a price to compare the route with.
Validated(v, size, priced) ==
  /\ Whitelisted(v)
  /\ Deep(v, size)
  /\ v.buy > 0
  /\ Retains(v, size)
  /\ OracleAgrees(v, priced)
Slippage(v) == OrElse(v.impact, 1000 - v.sell)
=============================================================================
