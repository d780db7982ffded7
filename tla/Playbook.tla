------------------------------ MODULE Playbook ------------------------------
(***************************************************************************)
(* The deterministic rules of an entry: which strategy a token's numbers   *)
(* trigger, what the regime of the market allows, how high the brain's bar *)
(* is and how much is bet.                                                 *)
(*                                                                         *)
(* A reading that may be missing (None) is a set of at most one number.    *)
(* Changes in per cent are in tenths of a per cent, sizes in per cent are  *)
(* in hundredths, dollars in cents, funding in units of 0.01 %.            *)
(***************************************************************************)
EXTENDS Integers

CONSTANT Cfg  \* the settings of config.json that the entry depends on

ASSUME CfgAssumption ==
  /\ Cfg \in [minConfidence : Nat, base : Nat, maxPosition : Nat, floor : Nat,
              minPortfolio : Nat, maxPositions : Nat, maxEntry24h : Nat, minPool : Nat,
              poolShare : Nat, divergence : Nat, moverImpact : Nat, depeg : Nat]
  /\ Cfg.floor > 0 /\ Cfg.base <= 10000 /\ Cfg.maxPosition <= 10000 /\ Cfg.poolShare <= 100

Least(a, b) == IF a <= b THEN a ELSE b
Most(a, b) == IF a >= b THEN a ELSE b
Clip(lo, x, hi) == Most(lo, Least(x, hi))
IsReading(r) == r \subseteq Int /\ \A x, y \in r : x = y
IsQuote(q) == (\A r \in {q.p1, q.p24, q.p7} : IsReading(r)) /\ q.vol \in Int /\ q.priced \in BOOLEAN
OrElse(reading, default) == IF reading = {} THEN default ELSE CHOOSE x \in reading : TRUE

(***************************************************************************)
(* The strategies.                                                         *)
(***************************************************************************)
RiskTrade == {"momentum", "mean_reversion", "trend_follow", "vol_squeeze"}

\* F&G below 25 while BTC is not known to be above -2 %.
Fear(fng) == \E x \in fng : x < 25
Falling(btc) == \A x \in btc : x <= -20

Triggers(loose) ==
  IF loose
  THEN [mom1 |-> 5, mom24 |-> -20, momVol |-> -300, rev1 |-> -5, rev24 |-> -20, revVol |-> 1200]
  ELSE [mom1 |-> 25, mom24 |-> 0, momVol |-> 200, rev1 |-> -20, rev24 |-> 40, revVol |-> 400]

Rebounds(q) == \E p1 \in q.p1, p24 \in q.p24 : p24 < -100 /\ p1 > 5
Thrusts(q, t) == \E p1 \in q.p1, p24 \in q.p24 : p1 > t.mom1 /\ p24 > t.mom24 /\ q.vol >= t.momVol
Dips(q, t) == \E p1 \in q.p1, p24 \in q.p24 : p1 < t.rev1 /\ p24 > t.rev24 /\ q.vol <= t.revVol

select_strategy(fng, q, btc, loose) ==
  LET t == Triggers(loose)
      lockdown == Fear(fng) /\ Falling(btc) /\ ~loose
  IN CASE lockdown /\ Rebounds(q) -> "dca"
       [] ~lockdown /\ Thrusts(q, t) -> "momentum"
       [] ~lockdown /\ ~Thrusts(q, t) /\ Dips(q, t) -> "mean_reversion"
       [] OTHER -> "none"

\* The order in which the candidates reach the brain (tenths of a point).
setup_strength(spec, q) ==
  LET p1 == OrElse(q.p1, 0)
      p24 == OrElse(q.p24, 0)
  IN CASE spec = "momentum" -> 500 + 2 * Least(p1, 100) + (3 * Clip(0, q.vol, 1000)) \div 10
       [] spec = "mean_reversion" -> 400 + Least(p24, 200) + Least(-p1, 100)
       [] OTHER -> 300 + Least(-p24, 400)

(***************************************************************************)
(* The regime.                                                             *)
(***************************************************************************)
Posture(label, mult, positions, allowed) ==
  [label |-> label, mult |-> mult, positions |-> positions, allowed |-> allowed]

regime_posture(fng, btc, funding) ==
  LET defensive == \/ \E x \in btc : x <= -20
                   \/ \E x \in fng : x >= 78
                   \/ \E x \in funding : x >= 5
  IN CASE Fear(fng) /\ Falling(btc) -> Posture("PANIC", 70, 2, {"dca"})
       [] Fear(fng) /\ ~Falling(btc) -> Posture("FEAR_STABLE", 50, 2, RiskTrade)
       [] ~Fear(fng) /\ (\E x \in btc : x <= -50) -> Posture("RISK_OFF", 0, 0, {})
       [] OTHER -> IF defensive THEN Posture("DEFENSIVE", 60, 2, RiskTrade)
                   ELSE IF \E x \in btc : x >= 30 THEN Posture("BULL", 100, 3, RiskTrade)
                   ELSE Posture("NEUTRAL", 85, 3, RiskTrade)

\* The points the regime adds to the brain's bar; drift is how far F&G stands from its own
\* moving average.
market_regime(m) ==
  (CASE \E x \in m.btc : x >= 30 -> -5
     [] \E x \in m.btc : x <= -20 -> 8
     [] OTHER -> 0)
  + (CASE \E x \in m.fng : x >= 78 -> 5
       [] \E x \in m.fng : x <= 22 -> 4
       [] OTHER -> 0)
  + (CASE \E x \in m.funding : x >= 5 -> 6
       [] \E x \in m.funding : x <= -2 -> -3
       [] OTHER -> 0)
CutAdjust(m) ==
  market_regime(m) + (CASE \E x \in m.fng : m.drift >= 4 /\ x <= 55 -> -2
                        [] \E x \in m.fng : m.drift <= -4 /\ x >= 50 -> 2
                        [] OTHER -> 0)

\* What the regime is called when it is handed to the confluence gate.
macro_label(mult) ==
  CASE mult <= 0 -> "RISK_OFF"
    [] mult > 0 /\ mult < 100 -> "DEFENSIVE"
    [] mult > 100 -> "BULL"
    [] OTHER -> "NEUTRAL"

(***************************************************************************)
(* The brain's bar.                                                        *)
(***************************************************************************)
\* percent_change_1h above the average pace of the day
accelerating(q) == \E p1 \in q.p1, p24 \in q.p24 : 24 * p1 > p24
Aligned(q, sign) == \E p1 \in q.p1, p24 \in q.p24, p7 \in q.p7 :
  sign * p1 > 0 /\ sign * p24 > 0 /\ sign * p7 > 0

momentum_prescore(q) ==
  LET p1 == OrElse(q.p1, 0)
      p24 == OrElse(q.p24, 0)
      fresh == IF p1 > 0 /\ 24 * p1 > p24 THEN 80 ELSE 0
      late == IF p24 > 120 THEN (3 * (p24 - 120)) \div 2 ELSE 0
      score == Clip(0, q.vol, 1000) \div 2 + 2 * Clip(0, p24, 80)
               + (5 * Clip(0, p1, 40)) \div 2 + fresh - late
  IN Clip(0, IF q.vol < 0 \/ p24 < 0 THEN Least(score, 200) ELSE score, 1000) \div 10

effective_cut(q, adjust, spec) ==
  LET bonus == Least((18 * momentum_prescore(q)) \div 100, 15)
      chop == IF spec # "momentum" THEN 0
              ELSE IF Aligned(q, -1) THEN 8
              ELSE IF ~Aligned(q, 1) /\ ~accelerating(q) THEN 4
              ELSE 0
  IN Most(Cfg.minConfidence - bonus + adjust + chop, 52)

(***************************************************************************)
(* The bet.                                                                *)
(***************************************************************************)
conviction_size_pct(base, score) ==
  Least((base * Clip(60, 100 + 3 * (score - 62), 200)) \div 100, Cfg.maxPosition)

\* In hundredths: 1.0 up to +10 % in a day, falling to 0.5 at +25 %.
overextension_factor(change) ==
  IF change <= 100 THEN 100 ELSE Most(50, 100 - (change - 100) \div 3)

\* 3 % of the stable stays behind, whatever the size asked for.
\* mutant: the swap may ask for the whole balance
WholeBalance(stable) == stable
Spendable(stable) == (97 * stable) \div 100
AtLeastFloor(size) == IF size < Cfg.floor THEN 0 ELSE size
\* With a size of the caller's own (override_pct) the cap does not apply.
position_size_usd(equity, stable, pct) ==
  LET share == Most((equity * Clip(0, pct, 10000)) \div 10000, Cfg.floor)
  IN AtLeastFloor(Least(share, Spendable(stable)))
DefaultSize(equity, stable) ==
  LET share == Most((equity * Cfg.base) \div 10000, Cfg.floor)
  IN AtLeastFloor(Least(Least(share, (equity * Cfg.maxPosition) \div 10000), Spendable(stable)))

\* The part of can_open_position that is not about the halt flag.
can_open_position(equity, stable, open, posture, recent) ==
  /\ equity > Cfg.minPortfolio
  /\ open < Least(Cfg.maxPositions, posture.positions)
  /\ ~recent
  /\ DefaultSize(equity, stable) > 0
=============================================================================
