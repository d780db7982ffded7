----------------------------- MODULE MCDecision -----------------------------
(***************************************************************************)
(* A small instance of Decision for TLC.                                   *)
(***************************************************************************)
EXTENDS Decision

MCCfg == [minConfidence |-> 58, base |-> 2500, maxPosition |-> 5000, floor |-> 100,
          minPortfolio |-> 100, maxPositions |-> 3, maxEntry24h |-> 250, minPool |-> 15000,
          poolShare |-> 1, divergence |-> 25, moverImpact |-> 7, depeg |-> 100]

\* Candles: a rise that enters in every regime up to DEFENSIVE, one that enters in NEUTRAL only, a
\* vertical candle, noise, and a token without candles.
Candle(o, c, v) == [open |-> o, close |-> c, high |-> IF o > c THEN o + 2 ELSE c + 2,
                    low |-> IF o > c THEN c - 2 ELSE o - 2, volume |-> v]
FromCloses(p) == [i \in 1 .. Len(p) |-> Candle(IF i = 1 THEN p[1] ELSE p[i - 1], p[i], 10 + (i % 3))]
Stairs(n) == [i \in 1 .. 40 |-> 1000 + 2 * i + (30 * ((i + 2) % n)) \div n]
Vertical == [i \in 1 .. 40 |-> IF i < 38 THEN 1000 + (i % 3) ELSE 1000 + 90 * (i - 38)]
Noise == [i \in 1 .. 40 |-> 1000 + ((7 * i) % 5)]
MCCharts == {FromCloses(Stairs(8)), FromCloses(Stairs(5)), FromCloses(Vertical), FromCloses(Noise), <<>>}

Q(p1, p24, p7, vol) == [p1 |-> {p1}, p24 |-> {p24}, p7 |-> {p7}, vol |-> vol, priced |-> TRUE]
Thrust == Q(40, 90, 120, 500)
Rebound == Q(20, -150, -200, 900)
Dip == Q(-30, 60, 30, 100)
Late == Q(40, 300, 400, 800)
Calm == Q(8, -10, 10, -100)
NoPrice == [Thrust EXCEPT !.priced = FALSE]
MCUniverse == <<"a", "b", "m">>
MCMarkets == {
  <<>>,
  [s \in {"a", "b"} |-> IF s = "a" THEN Thrust ELSE Rebound],
  [s \in {"a", "b", "m"} |-> IF s = "a" THEN Dip ELSE IF s = "b" THEN Rebound ELSE Late],
  [s \in {"a", "m"} |-> IF s = "a" THEN Calm ELSE NoPrice]}

M(btc, fng, drift, funding, depeg) ==
  [btc |-> {btc}, fng |-> {fng}, drift |-> drift, funding |-> {funding}, depeg |-> {depeg}]
MCMacros == {M(35, 60, 0, 0, 2), M(0, 50, 5, -3, 2), M(-60, 20, -5, 0, 2), M(-60, 40, 0, 0, 2),
             M(0, 20, 0, 0, 2), M(0, 80, -5, 6, 2), M(0, 50, 0, 0, 150),
             [btc |-> {}, fng |-> {}, drift |-> 0, funding |-> {}, depeg |-> {}]}
Answering == [quotes |-> TRUE, movers |-> TRUE, fng |-> TRUE, funding |-> TRUE, batch |-> TRUE]
MCAnswers == {Answering, [Answering EXCEPT !.quotes = FALSE], [Answering EXCEPT !.movers = FALSE],
              [Answering EXCEPT !.batch = FALSE], [Answering EXCEPT !.fng = FALSE],
              [Answering EXCEPT !.funding = FALSE]}
MCWallets == {[equity |-> 10000, stable |-> 9000], [equity |-> 40000, stable |-> 400],
              [equity |-> 150, stable |-> 120]}
MCScores == {10, 40, 62, 90}
V(eligible, depth, buy, sell, impact) ==
  [eligible |-> eligible, depth |-> depth, buy |-> buy, sell |-> sell, impact |-> impact]
MCVenues == {V(TRUE, 60000, 995, 985, {3}), V(TRUE, 20000, 976, 970, {}), V(TRUE, 20000, 960, 975, {5}),
             V(TRUE, 60000, 1030, 990, {}), V(FALSE, 60000, 1000, 990, {}), V(TRUE, 60000, 0, 0, {})}
=============================================================================
