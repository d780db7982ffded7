-------------------------------- MODULE Brain --------------------------------
(***************************************************************************)
(* What AttentionAnalyzer hands to a scan cycle: the readings of the       *)
(* market, each from a host that may fail and whose failure is swallowed,  *)
(* and the verdict on one candidate.                                       *)
(*                                                                         *)
(* A feed tells which of the five calls are answered; the fear and greed   *)
(* index has two hosts, and is answered when one of them is.               *)
(***************************************************************************)
EXTENDS Playbook, FiniteSets

Feeds == [quotes : BOOLEAN, movers : BOOLEAN, fng : BOOLEAN, funding : BOOLEAN, batch : BOOLEAN]
MoversKept == 8

\* One call for the whole basket.
gather_quotes(market, focus, feed) ==
  [s \in {x \in DOMAIN market \cap focus : feed.quotes} |-> market[s]]

\* The best gainers of the day, of 5 % and more.
gather_movers(market, feed) ==
  LET gainers == {s \in DOMAIN market : feed.movers /\ \E x \in market[s].p24 : x >= 50}
      Ahead(s) == {t \in gainers : \E x \in market[t].p24, y \in market[s].p24 : x > y}
  IN [s \in {x \in gainers : Cardinality(Ahead(x)) < MoversKept} |-> market[s]]

\* Without quotes of the basket the cycle ends; a mover never replaces a quote.
Gathered(market, focus, feed) ==
  LET quotes == gather_quotes(market, focus, feed)
      movers == gather_movers(market, feed)
  IN IF DOMAIN quotes = {} THEN << >>
     ELSE [s \in DOMAIN quotes \cup DOMAIN movers |->
             IF s \in DOMAIN quotes THEN quotes[s] ELSE movers[s]]

\* BTC and the stable's price come from one call.
gather_macro(m, feed) ==
  [btc |-> {x \in m.btc : feed.batch}, depeg |-> {x \in m.depeg : feed.batch},
   fng |-> {x \in m.fng : feed.fng}, funding |-> {x \in m.funding : feed.funding},
   drift |-> m.drift]

\* The brain's score, 0 when it has not used its tool, decides against the bar of the code and
\* not by its word.
Score(answer) == OrElse(answer, 0)
IsBuy(answer, cut) == Score(answer) >= cut
=============================================================================
