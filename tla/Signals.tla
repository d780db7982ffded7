------------------------------- MODULE Signals -------------------------------
(***************************************************************************)
(* The technical reading of a token: the indicators computed from its      *)
(* candles and the confluence vote that lets an entry pass, holds it back  *)
(* or vetoes it. All of it is a function of the candles and of the label   *)
(* of the regime.                                                          *)
(*                                                                         *)
(* Prices are whole ticks, below 3000 of them; averages are kept in        *)
(* hundredths of a tick, votes and weights in tenths, the score in tenths  *)
(* of a point. A reading that needs more candles than there are is the     *)
(* empty set.                                                              *)
(***************************************************************************)
EXTENDS Integers, Sequences, FiniteSetsExt

LOCAL Top(x, y) == IF x >= y THEN x ELSE y
LOCAL Total(f(_), from, to) == MapThenSumSet(f, from .. to)
LOCAL Positive(x) == Top(x, 0)
LOCAL Abs(x) == Top(x, -x)
\* The first n elements of s summed; the running value after each further one.
LOCAL SumFirst(s, n) == LET At(i) == s[i] IN Total(At, 1, n)
LOCAL Running(s, n, first, next(_, _)) ==
  LET r[i \in n .. Len(s)] == IF i = n THEN first ELSE next(r[i - 1], s[i])
  IN r

Series(k, field) == [i \in 1 .. Len(k) |-> 100 * k[i][field]]

(***************************************************************************)
(* indicators.py                                                           *)
(***************************************************************************)
ema_series(s, period) ==
  LET Next(prev, x) == (2 * x + (period - 1) * prev) \div (period + 1)
  IN Running(s, period, SumFirst(s, period) \div period, Next)
Wilder(s, period) ==
  LET Next(prev, x) == (prev * (period - 1) + x) \div period
  IN Running(s, period, SumFirst(s, period) \div period, Next)[Len(s)]

ema_cross(s) ==
  IF Len(s) < 21 THEN {} ELSE {ema_series(s, 9)[Len(s)] > ema_series(s, 21)[Len(s)]}

\* The sign of the least-squares slope of the last 20 closes, with a dead zone of 0.05 % a bar.
linreg_slope(k) ==
  LET y(i) == k[Len(k) - 20 + i].close
      Lever(i) == (2 * i - 21) * y(i)
      num == 4000 * Total(Lever, 1, 20)
      bar == 133 * Total(y, 1, 20)
  IN IF Len(k) < 20 THEN {}
     ELSE {IF num > bar THEN 1 ELSE IF num < -bar THEN -1 ELSE 0}

Up(k, i) == 100 * (k[i + 1].high - k[i].high)
Down(k, i) == 100 * (k[i].low - k[i + 1].low)
adx(k) ==
  LET moves == Len(k) - 1
      plus == [i \in 1 .. moves |-> IF Up(k, i) > Down(k, i) THEN Positive(Up(k, i)) ELSE 0]
      minus == [i \in 1 .. moves |-> IF Down(k, i) > Up(k, i) THEN Positive(Down(k, i)) ELSE 0]
      Next(prev, x) == prev - prev \div 14 + x
      sp == Running(plus, 14, SumFirst(plus, 14), Next)
      sm == Running(minus, 14, SumFirst(minus, 14), Next)
      dx == [j \in 1 .. moves - 13 |->
               LET p == sp[j + 13]  m == sm[j + 13]
               IN IF p + m = 0 THEN 0 ELSE 100 * ((100 * Abs(p - m)) \div (p + m))]
  IN IF Len(k) < 29 THEN {} ELSE {[adx |-> Wilder(dx, 14), up |-> sp[moves] > sm[moves]]}

rsi(s) ==
  LET moves == Len(s) - 1
      gain == Wilder([i \in 1 .. moves |-> Positive(s[i + 1] - s[i])], 14)
      loss == Wilder([i \in 1 .. moves |-> Positive(s[i] - s[i + 1])], 14)
  IN IF Len(s) < 15 THEN {}
     ELSE {IF loss = 0 THEN 100 ELSE (100 * gain) \div (gain + loss)}

\* The sign of the histogram.
macd(s) ==
  LET fast == ema_series(s, 12)
      slow == ema_series(s, 26)
      line == [j \in 1 .. Len(s) - 25 |-> fast[j + 25] - slow[j + 25]]
  IN IF Len(s) < 35 THEN {} ELSE {line[Len(line)] > ema_series(line, 9)[Len(line)]}

\* The last close against the mean of 20, as the deviation and the variance: the z-score is
\* dev / sqrt(var), and the Bollinger %b is 1/2 + z/4.
Stretch(k) ==
  LET x(i) == k[Len(k) - 20 + i].close
      mean == Total(x, 1, 20) \div 20
      Square(i) == (x(i) - mean) * (x(i) - mean)
  IN IF Len(k) < 20 THEN {} ELSE {[dev |-> x(20) - mean, var |-> Total(Square, 1, 20) \div 20]}
Above(z, tenths) == z.dev > 0 /\ 100 * z.dev * z.dev > tenths * tenths * z.var /\ z.var > 0
Below(z, tenths) == z.dev < 0 /\ 100 * z.dev * z.dev > tenths * tenths * z.var /\ z.var > 0

vwap_dist(k) ==
  LET Paid(i) == (k[i].high + k[i].low + k[i].close) * k[i].volume
      Volume(i) == k[i].volume
  IN IF Total(Volume, 1, Len(k)) = 0 THEN {}
     ELSE {3 * k[Len(k)].close * Total(Volume, 1, Len(k)) > Total(Paid, 1, Len(k))}

volume_surge(k) ==
  LET n == Len(k)
      Volume(i) == k[i].volume
      base == Total(Volume, n - 10, n - 1)
  IN n >= 11 /\ base > 0 /\ 20 * k[n].volume > 3 * base

\* Where the last closed candle stands on the retracement of the recent swing.
fibonacci(k) ==
  LET d == SubSeq(k, 1, Len(k) - 1)
      n == Len(d)
      peak == CHOOSE i \in 1 .. n : /\ \A j \in 1 .. n : d[j].high <= d[i].high
                                    /\ \A j \in 1 .. i - 1 : d[j].high < d[i].high
      low == Min({d[j].low : j \in 1 .. (IF peak = 1 THEN n ELSE peak)})
      move == d[peak].high - low
      price == d[n].close
      back == 1000 * (d[peak].high - price)
      level(lv) == 1000 * d[peak].high - lv * move
      recentLow == Min({d[j].low : j \in n - 2 .. n})
      Bounces(lv) == /\ d[n].close > d[n].open
                     /\ 1000 * price > level(lv)
                     /\ 100000 * recentLow <= 102 * level(lv)
  IN CASE n < 8 -> "UNKNOWN"
       [] n >= 8 /\ (move <= 0 \/ low <= 0 \/ 100 * move < 3 * low) -> "UNKNOWN"
       [] OTHER -> IF 100 * (price - d[n].open) > 6 * d[n].open THEN "CHASING_PUMP"
                   ELSE IF back < 150 * move THEN "NO_RETRACE"
                   ELSE IF back > 786 * move THEN "BREAKDOWN"
                   ELSE IF Bounces(618) THEN "GOLDEN_POCKET"
                   ELSE IF Bounces(500) \/ Bounces(382) THEN "FIB_SUPPORT"
                   ELSE "NEUTRAL"

compute_indicators(k) ==
  LET s == Series(k, "close")
  IN [ema |-> ema_cross(s), slope |-> linreg_slope(k), adx |-> adx(k), rsi |-> rsi(s),
      macd |-> macd(s), stretch |-> Stretch(k), vwap |-> vwap_dist(k),
      surge |-> volume_surge(k), fib |-> fibonacci(k)]

(***************************************************************************)
(* confluence.py                                                           *)
(***************************************************************************)
Pillars == {"trend", "momentum", "meanrev", "volume", "structure"}
Weight(mode) ==
  CASE mode = "TREND" -> [trend |-> 15, momentum |-> 12, structure |-> 12, meanrev |-> 5, volume |-> 10]
    [] mode = "RANGE" -> [trend |-> 5, momentum |-> 10, structure |-> 12, meanrev |-> 15, volume |-> 10]
    [] OTHER -> [trend |-> 10, momentum |-> 10, structure |-> 11, meanrev |-> 10, volume |-> 10]

micro_mode(ind) ==
  CASE \E a \in ind.adx : a.adx >= 2500 -> "TREND"
    [] \E a \in ind.adx : a.adx < 2000 -> "RANGE"
    [] OTHER -> "TRANSITION"

When(condition, pillar, name, vote) ==
  IF condition THEN {[pillar |-> pillar, name |-> name, vote |-> vote]} ELSE {}

trend_signals(ind) ==
  When(TRUE \in ind.ema, "trend", "ema", 6) \cup When(FALSE \in ind.ema, "trend", "ema", -6)
  \cup When(\E a \in ind.adx : a.adx >= 2500 /\ a.up, "trend", "adx", 7)
  \cup When(\E a \in ind.adx : a.adx >= 2500 /\ ~a.up, "trend", "adx", -7)
  \cup When(\E a \in ind.adx : a.adx < 2000, "trend", "adx", 0)
  \cup When(1 \in ind.slope, "trend", "slope", 4) \cup When(-1 \in ind.slope, "trend", "slope", -4)

momentum_signals(ind, mode) ==
  When(\E r \in ind.rsi : r < 30, "momentum", "rsi", 8)
  \cup When(\E r \in ind.rsi : r > 70, "momentum", "rsi", -7)
  \cup When(mode = "TREND" /\ \E r \in ind.rsi : r \in 50 .. 68, "momentum", "rsi", 4)
  \cup When(TRUE \in ind.macd, "momentum", "macd", 6)
  \cup When(FALSE \in ind.macd, "momentum", "macd", -6)

meanrev_signals(ind) ==
  When(\E z \in ind.stretch : Below(z, 16), "meanrev", "bbands", 8)
  \cup When(\E z \in ind.stretch : Above(z, 16), "meanrev", "bbands", -6)
  \cup When(\E z \in ind.stretch : Below(z, 15), "meanrev", "zscore", 6)
  \cup When(\E z \in ind.stretch : Above(z, 20), "meanrev", "zscore", -5)

volume_signals(ind) ==
  When(ind.surge, "volume", "surge", 4)
  \cup When(TRUE \in ind.vwap, "volume", "vwap", 3) \cup When(FALSE \in ind.vwap, "volume", "vwap", -2)

structure_signals(ind) ==
  When(ind.fib = "GOLDEN_POCKET", "structure", "fib", 10)
  \cup When(ind.fib = "FIB_SUPPORT", "structure", "fib", 6)
  \cup When(ind.fib = "BREAKDOWN", "structure", "fib", -8)
  \cup When(ind.fib = "NO_RETRACE", "structure", "fib", 0)
  \cup When(ind.fib = "CHASING_PUMP", "structure", "fib", -10)

Bump(macro) ==
  CASE macro = "RISK_OFF" -> 180 [] macro = "DEFENSIVE" -> 80 [] macro = "BULL" -> -40
    [] OTHER -> 0

evaluate_confluence(ind, macro) ==
  LET mode == micro_mode(ind)
      signals == trend_signals(ind) \cup momentum_signals(ind, mode) \cup meanrev_signals(ind)
                 \cup volume_signals(ind) \cup structure_signals(ind)
      Push(s) == s.vote * Weight(mode)[s.pillar]
      Pull(s) == Weight(mode)[s.pillar]
      num == MapThenSumSet(Push, signals)
      den == MapThenSumSet(Pull, signals)
      score == IF den = 0 THEN 500 ELSE 500 + (100 * num + den) \div (2 * den)
      Vote(s) == s.vote
      Net(p) == MapThenSumSet(Vote, {s \in signals : s.pillar = p})
      positive == {p \in Pillars : Net(p) > 0}
      decision == IF ind.fib = "CHASING_PUMP" THEN "AVOID"
                  ELSE IF score >= 600 + Bump(macro) /\ Cardinality(positive) >= 3 THEN "ENTER"
                  ELSE "WAIT"
  IN [decision |-> decision, score |-> score, mode |-> mode, positive |-> positive]
=============================================================================
