--------------------------- MODULE Decision_proofs ---------------------------
(***************************************************************************)
(* What holds of every order of a scan cycle, for any tokens, quotes,      *)
(* readings, scores, candles, venues, wallets and settings: its bounds,    *)
(* what a crash leaves to buy, what the quoted legs give back, and that a  *)
(* token whose swap failed stays off.                                      *)
(***************************************************************************)
EXTENDS Decision, FiniteSetTheorems, SequenceTheorems, TLAPS

-----------------------------------------------------------------------------
(* The order of the candidates *)

LEMMA RankIsInjective ==
  ASSUME NEW f, IsFiniteSet(DOMAIN f), DOMAIN f \subseteq Int, \A i \in DOMAIN f : f[i] \in Int,
         NEW i \in DOMAIN f, NEW j \in DOMAIN f, i # j
  PROVE  Cardinality(Before(f, i)) # Cardinality(Before(f, j))
  <1>1. \A k \in DOMAIN f : /\ Before(f, k) \in SUBSET DOMAIN f /\ k \notin Before(f, k)
                            /\ IsFiniteSet(Before(f, k)) /\ Cardinality(Before(f, k)) \in Nat
    <2> TAKE k \in DOMAIN f
    <2>1. Before(f, k) \in SUBSET DOMAIN f
      BY DEF Before
    <2>2. k \notin Before(f, k)
      BY DEF Before
    <2> QED
      BY <2>1, <2>2, FS_Subset, FS_CardinalityType
  <1>2. ASSUME NEW a \in DOMAIN f, NEW b \in DOMAIN f, a \in Before(f, b)
        PROVE  Cardinality(Before(f, a)) < Cardinality(Before(f, b))
    <2>1. f[a] \in Int /\ f[b] \in Int /\ a \in Int /\ b \in Int
      OBVIOUS
    <2>2. f[a] > f[b] \/ (f[a] = f[b] /\ a < b)
      BY <1>2 DEF Before
    <2>3. Before(f, a) \subseteq Before(f, b)
      <3> SUFFICES ASSUME NEW c \in DOMAIN f, f[c] > f[a] \/ (f[c] = f[a] /\ c < a)
                   PROVE  f[c] > f[b] \/ (f[c] = f[b] /\ c < b)
        BY DEF Before
      <3>1. f[c] \in Int /\ c \in Int
        OBVIOUS
      <3> QED
        BY <2>1, <2>2, <3>1
    <2>4. Before(f, a) \cup {a} \in SUBSET Before(f, b)
      BY <1>2, <2>3
    <2>5. Cardinality(Before(f, a) \cup {a}) = Cardinality(Before(f, a)) + 1
      BY <1>1, FS_AddElement
    <2>6. Cardinality(Before(f, a) \cup {a}) <= Cardinality(Before(f, b))
      BY <1>1, <2>4, FS_Subset
    <2> QED
      BY <1>1, <2>5, <2>6
  <1>3. i \in Before(f, j) \/ j \in Before(f, i)
    <2>1. f[i] \in Int /\ f[j] \in Int /\ i \in Int /\ j \in Int
      OBVIOUS
    <2>2. f[i] > f[j] \/ (f[i] = f[j] /\ i < j) \/ f[j] > f[i] \/ (f[j] = f[i] /\ j < i)
      BY <2>1
    <2> QED
      BY <2>2 DEF Before
  <1>4. \/ Cardinality(Before(f, i)) < Cardinality(Before(f, j))
        \/ Cardinality(Before(f, j)) < Cardinality(Before(f, i))
    BY <1>2, <1>3
  <1> QED
    BY <1>1, <1>4

\* Every rank is taken, by one place.
LEMMA PlaceIs ==
  ASSUME NEW f, IsFiniteSet(DOMAIN f), DOMAIN f \subseteq Int, \A i \in DOMAIN f : f[i] \in Int,
         NEW n \in 1 .. Cardinality(DOMAIN f)
  PROVE  Place(f, n) \in DOMAIN f /\ Cardinality(Before(f, Place(f, n))) = n - 1
  <1> DEFINE D == DOMAIN f
             N == Cardinality(D)
             rank == [i \in D |-> Cardinality(Before(f, i))]
  <1>1. N \in Nat
    BY FS_CardinalityType
  <1>2. \A i \in D : rank[i] \in 0 .. N - 1
    <2> TAKE i \in D
    <2>1. Before(f, i) \in SUBSET (D \ {i})
      BY DEF Before
    <2>2. IsFiniteSet(D \ {i}) /\ Cardinality(D \ {i}) = N - 1
      BY FS_RemoveElement
    <2>3. IsFiniteSet(Before(f, i)) /\ Cardinality(Before(f, i)) <= N - 1
      BY <2>1, <2>2, FS_Subset
    <2>4. Cardinality(Before(f, i)) \in Nat
      BY <2>3, FS_CardinalityType
    <2> QED
      BY <1>1, <2>3, <2>4
  <1>3. rank \in [D -> 0 .. N - 1]
    BY <1>2
  <1>4. \A a, b \in D : rank[a] = rank[b] => a = b
    BY RankIsInjective
  <1>5. rank \in Injection(D, 0 .. N - 1)
    <2> HIDE DEF rank, D, N
    <2> QED
      BY <1>3, <1>4 DEF Injection, IsInjective
  <1>6. IsFiniteSet(0 .. N - 1) /\ Cardinality(0 .. N - 1) = N
    <2> HIDE DEF N
    <2>1. /\ IsFiniteSet(0 .. N - 1)
          /\ Cardinality(0 .. N - 1) = IF 0 > N - 1 THEN 0 ELSE N - 1 - 0 + 1
      BY <1>1, FS_Interval
    <2> QED
      BY <1>1, <2>1
  <1>7. rank \in Surjection(D, 0 .. N - 1)
    BY <1>5, <1>6, FS_Injection
  <1>8. n - 1 \in 0 .. N - 1
    BY <1>1
  <1>9. \E i \in D : rank[i] = n - 1
    BY <1>7, <1>8 DEF Surjection
  <1> QED
    BY <1>9 DEF Place

LEMMA PlacesDiffer ==
  ASSUME NEW f, IsFiniteSet(DOMAIN f), DOMAIN f \subseteq Int, \A i \in DOMAIN f : f[i] \in Int,
         NEW n \in 1 .. Cardinality(DOMAIN f), NEW k \in 1 .. Cardinality(DOMAIN f), n # k
  PROVE  Place(f, n) # Place(f, k)
  <1>1. /\ Cardinality(Before(f, Place(f, n))) = n - 1
        /\ Cardinality(Before(f, Place(f, k))) = k - 1
    BY PlaceIs
  <1>2. n - 1 # k - 1
    BY FS_CardinalityType
  <1> QED
    BY <1>1, <1>2

-----------------------------------------------------------------------------
(* The bet *)

LEMMA TimesMonotone ==
  ASSUME NEW a \in Nat, NEW b \in Nat, NEW c \in Nat, b <= c
  PROVE  a * b <= a * c /\ a * b \in Nat
  OBVIOUS

LEMMA HundredthMonotone ==
  ASSUME NEW a \in Int, NEW b \in Int, a <= b
  PROVE  a \div 100 <= b \div 100
  OBVIOUS

LEMMA ShareOf ==   \* at most a whole of it is taken
  ASSUME NEW a \in Nat, NEW p \in 0 .. 100
  PROVE  (a * p) \div 100 \in 0 .. a
  <1>1. a * p <= a * 100 /\ a * p \in Nat
    BY TimesMonotone
  <1>2. PICK x \in Nat : x = a * p
    BY <1>1
  <1>3. x <= 100 * a
    BY <1>1, <1>2
  <1>4. x \div 100 \in 0 .. a
    BY <1>3
  <1> QED
    BY <1>2, <1>4

LEMMA OrElseIs ==
  ASSUME NEW r, IsReading(r)
  PROVE  OrElse(r, 0) \in Int
  <1>1. CASE r = {}
    BY <1>1 DEF OrElse
  <1>2. CASE r # {}
    <2>1. (CHOOSE x \in r : TRUE) \in r
      BY <1>2
    <2> QED
      BY <1>2, <2>1 DEF OrElse, IsReading
  <1> QED
    BY <1>1, <1>2

LEMMA MaxPositionType == Cfg.maxPosition \in Nat /\ Cfg.floor \in Nat /\ Cfg.floor > 0
  <1>1. Cfg.maxPosition \in Nat
    BY CfgAssumption
  <1>2. Cfg.floor \in Nat
    BY CfgAssumption
  <1>3. Cfg.floor > 0
    BY CfgAssumption
  <1> QED
    BY <1>1, <1>2, <1>3

LEMMA BoldIs ==
  ASSUME NEW base \in Nat, NEW score \in Int
  PROVE  conviction_size_pct(base, score) \in 0 .. Cfg.maxPosition
  <1>1. Clip(60, 100 + 3 * (score - 62), 200) \in 60 .. 200
    BY DEF Clip, Least, Most
  <1>2. PICK k \in Nat : k = Clip(60, 100 + 3 * (score - 62), 200)
    BY <1>1
  <1>3. base * k \in Nat
    BY TimesMonotone
  <1>4. PICK x \in Nat : x = base * k
    BY <1>3
  <1>5. PICK y \in Nat : y = x \div 100
    OBVIOUS
  <1>6. PICK m \in Nat : m = Cfg.maxPosition
    BY MaxPositionType
  <1>7. conviction_size_pct(base, score) = Least(y, m)
    BY <1>2, <1>4, <1>5, <1>6 DEF conviction_size_pct
  <1>8. Least(y, m) \in 0 .. m
    BY DEF Least
  <1> QED
    BY <1>6, <1>7, <1>8

LEMMA FactorIs ==
  ASSUME NEW change \in Int
  PROVE  overextension_factor(change) \in 0 .. 100
  BY DEF overextension_factor, Most

LEMMA Fits ==
  ASSUME NEW pct \in 0 .. Cfg.maxPosition
  PROVE  /\ (pct * 115) \div 100 \in 0 .. (115 * Cfg.maxPosition) \div 100
         /\ (pct * 75) \div 100 \in 0 .. (115 * Cfg.maxPosition) \div 100
         /\ pct \in 0 .. (115 * Cfg.maxPosition) \div 100
  <1>1. PICK m \in Nat : m = Cfg.maxPosition
    BY MaxPositionType
  <1>2. pct \in Nat /\ pct <= m
    BY <1>1
  <1>3. (pct * 115) \div 100 \in 0 .. (115 * m) \div 100
    BY <1>2
  <1>4. (pct * 75) \div 100 \in 0 .. (115 * m) \div 100
    BY <1>2
  <1>5. pct \in 0 .. (115 * m) \div 100
    BY <1>2
  <1> QED
    BY <1>1, <1>3, <1>4, <1>5

\* A bet within the bounds, for the reading of the wallet it was made from.
SoundBet(w, size) ==
  /\ size >= Cfg.floor
  /\ 100 * size <= 97 * w.stable
  /\ size <= Most(Cfg.floor, (w.equity * ((115 * Cfg.maxPosition) \div 100)) \div 10000)
WalletOK(w) == w.equity \in Nat /\ w.stable \in Nat
SizeOK(w, size) == size \in Nat /\ (size > 0 => SoundBet(w, size))

LEMMA BetIsSound ==
  ASSUME NEW w, WalletOK(w), NEW pct \in 0 .. (115 * Cfg.maxPosition) \div 100
  PROVE  SizeOK(w, position_size_usd(w.equity, w.stable, pct))
  <1>1. PICK e \in Nat, st \in Nat : e = w.equity /\ st = w.stable
    BY DEF WalletOK
  <1>2. PICK b \in Nat : b = (115 * Cfg.maxPosition) \div 100
    <2>1. PICK m \in Nat : m = Cfg.maxPosition
      BY MaxPositionType
    <2>2. (115 * m) \div 100 \in Nat
      OBVIOUS
    <2> QED
      BY <2>1, <2>2
  <1>3. PICK fl \in Nat : fl = Cfg.floor /\ fl > 0
    BY MaxPositionType
  <1>4. pct \in Int /\ pct >= 0 /\ pct <= b
    BY <1>2
  <1>5. PICK c \in Nat : c = Clip(0, pct, 10000) /\ c <= b
    <2>1. Clip(0, pct, 10000) \in Nat /\ Clip(0, pct, 10000) <= pct
      BY <1>4 DEF Clip, Least, Most
    <2> QED
      BY <1>4, <2>1
  <1>6. e * c <= e * b /\ e * c \in Nat /\ e * b \in Nat
    BY <1>5, TimesMonotone
  <1>7. PICK ec \in Nat, eb \in Nat : ec = e * c /\ eb = e * b /\ ec <= eb
    BY <1>6
  <1>8. ec \div 10000 \in Nat /\ ec \div 10000 <= eb \div 10000 /\ eb \div 10000 \in Nat
    BY <1>7
  <1>9. PICK share \in Nat : share = Most((e * c) \div 10000, fl)
    BY <1>7, <1>8 DEF Most
  <1>10. share <= Most(fl, (e * b) \div 10000)
    BY <1>7, <1>8, <1>9 DEF Most
  <1>11. PICK sp \in Nat : sp = Spendable(st) /\ 100 * sp <= 97 * st
    <2>1. Spendable(st) \in Nat /\ 100 * Spendable(st) <= 97 * st
      BY DEF Spendable
    <2> QED
      BY <2>1
  <1>12. PICK l \in Nat : l = Least(share, sp) /\ l <= share /\ l <= sp
    BY DEF Least
  <1>13. position_size_usd(w.equity, w.stable, pct) = IF l < fl THEN 0 ELSE l
    BY <1>1, <1>3, <1>5, <1>9, <1>11, <1>12 DEF position_size_usd, AtLeastFloor
  <1>14. PICK size \in Nat : size = position_size_usd(w.equity, w.stable, pct)
    BY <1>13
  <1>15. size > 0 => size = l /\ size >= fl
    BY <1>13, <1>14
  <1>16. ASSUME size > 0 PROVE SoundBet(w, size)
    <2>1. size >= fl /\ 100 * size <= 97 * st
      BY <1>11, <1>12, <1>15, <1>16
    <2>2. size <= share
      BY <1>12, <1>15, <1>16
    <2>3. Most(fl, (e * b) \div 10000) \in Nat
      BY <1>7, <1>8 DEF Most
    <2>4. size <= Most(fl, (e * b) \div 10000)
      BY <1>10, <2>2, <2>3
    <2> QED
      BY <1>1, <1>2, <1>3, <2>1, <2>4 DEF SoundBet
  <1> QED
    BY <1>14, <1>16 DEF SizeOK

-----------------------------------------------------------------------------
(* The candidates *)

Specs == {"dca", "momentum", "mean_reversion"}
Found == [symbol : Symbols, spec : Specs]
Scored == [symbol : Symbols, spec : Specs, score : 0 .. 100, isBuy : BOOLEAN]

\* The quotes of a market; no token twice in a list; what a list may hold.
MarketOK(market) == DOMAIN market \subseteq Symbols /\ \A s \in DOMAIN market : IsQuote(market[s])
Apart(list) == \A i, j \in 1 .. Len(list) : list[i].symbol = list[j].symbol => i = j
CanBe(c, market, off, crash) ==
  c.symbol \in DOMAIN market /\ c.symbol \notin off /\ (crash => c.spec = "dca")
ListOK(list, market, off, crash) ==
  Apart(list) /\ \A i \in 1 .. Len(list) : CanBe(list[i], market, off, crash)

LEMMA UniverseIs ==
  /\ Len(Universe) \in Nat /\ DOMAIN Universe = 1 .. Len(Universe)
  /\ Universe \in [DOMAIN Universe -> Symbols]
  /\ \A i, j \in DOMAIN Universe : Universe[i] = Universe[j] => i = j
  <1>1. Universe \in Seq(Symbols)
    BY DecisionAssumption
  <1>2. \A i, j \in DOMAIN Universe : Universe[i] = Universe[j] => i = j
    BY DecisionAssumption
  <1> QED
    BY <1>1, <1>2

LEMMA SymbolsFinite == IsFiniteSet(Symbols)
  <1>1. IsFiniteSet(DOMAIN Universe)
    BY UniverseIs, FS_Interval
  <1>2. Universe \in Surjection(DOMAIN Universe, Symbols)
    BY UniverseIs DEF Surjection, Symbols
  <1> QED
    BY <1>1, <1>2, FS_Surjection

LEMMA GatheredOK ==
  ASSUME NEW quoted \in Markets, NEW feed
  PROVE  MarketOK(Gathered(quoted, Focus, feed))
  <1> DEFINE g == Gathered(quoted, Focus, feed)
             quotes == gather_quotes(quoted, Focus, feed)
             movers == gather_movers(quoted, feed)
  <1>1. DOMAIN quoted \subseteq Symbols /\ \A s \in DOMAIN quoted : IsQuote(quoted[s])
    BY DecisionAssumption
  <1>2. DOMAIN quotes \subseteq DOMAIN quoted /\ \A s \in DOMAIN quotes : quotes[s] = quoted[s]
    BY DEF gather_quotes
  <1>3. DOMAIN movers \subseteq DOMAIN quoted /\ \A s \in DOMAIN movers : movers[s] = quoted[s]
    BY DEF gather_movers
  <1>4. g = IF DOMAIN quotes = {} THEN << >>
            ELSE [s \in DOMAIN quotes \cup DOMAIN movers |->
                    IF s \in DOMAIN quotes THEN quotes[s] ELSE movers[s]]
    BY DEF Gathered
  <1> HIDE DEF g, quotes, movers
  <1>5. DOMAIN g \subseteq DOMAIN quoted /\ \A s \in DOMAIN g : g[s] = quoted[s]
    <2>1. CASE DOMAIN quotes = {}
      <3>1. DOMAIN g = {}
        BY <1>4, <2>1
      <3> QED
        BY <3>1
    <2>2. CASE DOMAIN quotes # {}
      BY <1>2, <1>3, <1>4, <2>2
    <2> QED
      BY <2>1, <2>2
  <1> QED
    BY <1>1, <1>5 DEF MarketOK, g

LEMMA StrengthIs ==
  ASSUME NEW spec, NEW q, IsQuote(q)
  PROVE  setup_strength(spec, q) \in Int
  <1>1. PICK p1 \in Int : p1 = OrElse(q.p1, 0)
    BY OrElseIs DEF IsQuote
  <1>2. PICK p24 \in Int : p24 = OrElse(q.p24, 0)
    BY OrElseIs DEF IsQuote
  <1>3. PICK v \in Int : v = Clip(0, q.vol, 1000)
    <2>1. q.vol \in Int
      BY DEF IsQuote
    <2> QED
      BY <2>1 DEF Clip, Least, Most
  <1>4. /\ 500 + 2 * Least(p1, 100) + (3 * v) \div 10 \in Int
        /\ 400 + Least(p24, 200) + Least(-p1, 100) \in Int
        /\ 300 + Least(-p24, 400) \in Int
    BY DEF Least
  <1> QED
    BY <1>1, <1>2, <1>3, <1>4 DEF setup_strength

LEMMA TriggeredIs ==
  ASSUME NEW market, NEW m, NEW s, Triggered(market, m, s) # "none"
  PROVE  /\ s \notin cooled
         /\ Triggered(market, m, s) = select_strategy(m.fng, market[s], m.btc, copilot)
         /\ Triggered(market, m, s) \in Specs
  BY DEF Triggered, select_strategy, Specs

LEMMA FiredIs ==
  ASSUME NEW market, MarketOK(market), NEW m, NEW posture
  PROVE  /\ Fired(market, m, posture) \in Seq(Found)
         /\ Apart(Fired(market, m, posture))
         /\ \A n \in 1 .. Len(Fired(market, m, posture)) :
              LET c == Fired(market, m, posture)[n]
              IN /\ c.symbol \in DOMAIN market /\ c.symbol \notin cooled
                 /\ c.spec = select_strategy(m.fng, market[c.symbol], m.btc, copilot)
  <1> DEFINE Trigger(s) == Triggered(market, m, s)
             Fires(s) == s \in DOMAIN market /\ Trigger(s) # "none"
                         /\ (copilot \/ Trigger(s) \in posture.allowed)
             D == {i \in DOMAIN Universe : Fires(Universe[i])}
             strength == [i \in D |-> setup_strength(Trigger(Universe[i]), market[Universe[i]])]
             fired == Fired(market, m, posture)
             N == Cardinality(D)
  <1>1. DOMAIN strength = D
    OBVIOUS
  <1>2. Len(Universe) \in Nat /\ DOMAIN Universe = 1 .. Len(Universe)
    BY UniverseIs
  <1>3. D \in SUBSET DOMAIN Universe
    OBVIOUS
  <1>4. IsFiniteSet(DOMAIN Universe)
    BY <1>2, FS_Interval
  <1>5. IsFiniteSet(D) /\ N \in Nat /\ D \subseteq Int
    <2> HIDE DEF D
    <2> QED
      BY <1>2, <1>3, <1>4, FS_Subset, FS_CardinalityType
  <1>6. \A i \in D : strength[i] \in Int
    <2> TAKE i \in D
    <2>1. IsQuote(market[Universe[i]])
      BY DEF MarketOK
    <2>2. strength[i] = setup_strength(Trigger(Universe[i]), market[Universe[i]])
      OBVIOUS
    <2> HIDE DEF strength, Trigger
    <2> QED
      BY <2>1, <2>2, StrengthIs
  <1>7. fired = [n \in 1 .. N |-> [symbol |-> Universe[Place(strength, n)],
                                  spec |-> Trigger(Universe[Place(strength, n)])]]
    BY <1>1 DEF Fired
  <1>8. \A n \in 1 .. N : Place(strength, n) \in D
    <2> TAKE n \in 1 .. N
    <2> HIDE DEF strength, D
    <2> QED
      BY <1>1, <1>5, <1>6, PlaceIs
  <1>9. \A n, k \in 1 .. N : n # k => Place(strength, n) # Place(strength, k)
    <2> SUFFICES ASSUME NEW n \in 1 .. N, NEW k \in 1 .. N, n # k
                 PROVE  Place(strength, n) # Place(strength, k)
      OBVIOUS
    <2> HIDE DEF strength, D
    <2> QED
      BY <1>1, <1>5, <1>6, PlacesDiffer
  <1>10. \A i \in D : /\ Universe[i] \in DOMAIN market /\ Universe[i] \in Symbols
                       /\ Universe[i] \notin cooled /\ Trigger(Universe[i]) \in Specs
                       /\ Trigger(Universe[i]) = select_strategy(m.fng, market[Universe[i]], m.btc, copilot)
    BY TriggeredIs DEF MarketOK
  <1>11. \A i, j \in D : Universe[i] = Universe[j] => i = j
    BY UniverseIs
  <1> HIDE DEF strength, D, Fires, Trigger, N, fired
  <1>12. fired \in Seq(Found)
    <2>1. \A n \in 1 .. N : fired[n] \in Found
      BY <1>7, <1>8, <1>10 DEF Found
    <2>2. fired \in [1 .. N -> Found]
      BY <1>7, <2>1
    <2> QED
      BY <1>5, <2>2
  <1>13. Len(fired) = N
    BY <1>5, <1>7
  <1>14. Apart(fired)
    <2> SUFFICES ASSUME NEW i \in 1 .. N, NEW j \in 1 .. N, fired[i].symbol = fired[j].symbol
                 PROVE  i = j
      BY <1>13 DEF Apart
    <2>1. Universe[Place(strength, i)] = Universe[Place(strength, j)]
      BY <1>7
    <2>2. Place(strength, i) = Place(strength, j)
      BY <1>8, <1>11, <2>1
    <2> QED
      BY <1>9, <2>2
  <1>15. \A n \in 1 .. Len(fired) :
           /\ fired[n].symbol \in DOMAIN market /\ fired[n].symbol \notin cooled
           /\ fired[n].spec = select_strategy(m.fng, market[fired[n].symbol], m.btc, copilot)
    BY <1>7, <1>8, <1>10, <1>13
  <1> QED
    BY <1>12, <1>14, <1>15 DEF fired

LEMMA HeadOK ==
  ASSUME NEW S, NEW list \in Seq(S), list # << >>, NEW market, NEW off, NEW crash,
         ListOK(list, market, off, crash)
  PROVE  /\ Head(list) = list[1] /\ list[1] \in S /\ Len(list) \in Nat /\ Len(list) >= 1
         /\ CanBe(list[1], market, off, crash)
  <1>1. Len(list) \in Nat /\ Len(list) >= 1 /\ Head(list) = list[1] /\ list[1] \in S
    BY EmptySeq, HeadTailProperties
  <1> QED
    BY <1>1 DEF ListOK

\* What is left of a list after its first, which may then be put off the radar.
LEMMA TailOK ==
  ASSUME NEW S, NEW list \in Seq(S), list # << >>, NEW market, NEW off, NEW crash,
         ListOK(list, market, off, crash), NEW less, less \subseteq off \cup {Head(list).symbol}
  PROVE  /\ Tail(list) \in Seq(S) /\ Len(Tail(list)) = Len(list) - 1
         /\ ListOK(Tail(list), market, less, crash)
  <1>1. /\ Tail(list) \in Seq(S) /\ Len(list) \in Nat /\ Len(Tail(list)) = Len(list) - 1
        /\ \A i \in 1 .. Len(Tail(list)) : Tail(list)[i] = list[i + 1]
    BY HeadTailProperties
  <1>2. Head(list) = list[1] /\ Len(list) >= 1
    BY HeadOK
  <1>3. PICK n \in Nat : n = Len(list) - 1 /\ Len(Tail(list)) = n
    <2>1. Len(list) - 1 \in Nat
      BY <1>1, <1>2
    <2> QED
      BY <1>1, <2>1
  <1>4. Apart(Tail(list))
    <2> SUFFICES ASSUME NEW i \in 1 .. n, NEW j \in 1 .. n, Tail(list)[i].symbol = Tail(list)[j].symbol
                 PROVE  i = j
      BY <1>3 DEF Apart
    <2>1. i + 1 \in 1 .. Len(list) /\ j + 1 \in 1 .. Len(list)
      BY <1>1, <1>3
    <2>2. list[i + 1].symbol = list[j + 1].symbol
      BY <1>1, <1>3
    <2>3. i + 1 = j + 1
      BY <2>1, <2>2 DEF ListOK, Apart
    <2> QED
      BY <2>3
  <1>5. ASSUME NEW i \in 1 .. n
        PROVE  CanBe(Tail(list)[i], market, less, crash)
    <2>1. i + 1 \in 1 .. Len(list) /\ 1 \in 1 .. Len(list) /\ i + 1 # 1
      BY <1>1, <1>3
    <2>2. Tail(list)[i] = list[i + 1]
      BY <1>1, <1>3
    <2>3. list[i + 1].symbol # list[1].symbol
      BY <2>1 DEF ListOK, Apart
    <2>4. CanBe(list[i + 1], market, off, crash)
      BY <2>1 DEF ListOK
    <2> QED
      BY <1>2, <2>2, <2>3, <2>4 DEF CanBe
  <1> QED
    BY <1>1, <1>3, <1>4, <1>5 DEF ListOK

\* The strongest of a list.
LEMMA FirstOK ==
  ASSUME NEW S, NEW list \in Seq(S), NEW k \in 1 .. Len(list), Apart(list), NEW market, NEW off,
         NEW crash, \A i \in 1 .. k : CanBe(list[i], market, off, crash)
  PROVE  /\ SubSeq(list, 1, k) \in Seq(S) /\ SubSeq(list, 1, k) # << >>
         /\ ListOK(SubSeq(list, 1, k), market, off, crash)
  <1>1. Len(list) \in Nat /\ \A i \in 1 .. k : list[i] \in S
    OBVIOUS
  <1>2. PICK t : t = SubSeq(list, 1, k)
    OBVIOUS
  <1>3. t \in Seq(S) /\ Len(t) = k /\ \A i \in 1 .. k : t[i] = list[i]
    <2>1. /\ SubSeq(list, 1, k) \in Seq(S)
          /\ Len(SubSeq(list, 1, k)) = IF 1 <= k THEN k - 1 + 1 ELSE 0
          /\ \A i \in 1 .. k - 1 + 1 : SubSeq(list, 1, k)[i] = list[1 + i - 1]
      BY <1>1, SubSeqProperties
    <2> QED
      BY <1>1, <1>2, <2>1
  <1>4. t # << >>
    BY <1>3
  <1>5. Apart(t)
    BY <1>1, <1>3 DEF Apart
  <1> QED
    BY <1>2, <1>3, <1>4, <1>5 DEF ListOK

LEMMA InsertIs ==
  ASSUME NEW S, NEW buys \in Seq(S), NEW v \in S
  PROVE  /\ Insert(v, buys) \in Seq(S) /\ Len(Insert(v, buys)) = Len(buys) + 1
         /\ \E k \in 0 .. Len(buys) : \A i \in 1 .. Len(buys) + 1 :
              Insert(v, buys)[i] = IF i <= k THEN buys[i] ELSE IF i = k + 1 THEN v ELSE buys[i - 1]
  <1> DEFINE better == {i \in 1 .. Len(buys) : buys[i].score >= v.score}
  <1>1. PICK n \in Nat : n = Len(buys) /\ \A i \in 1 .. n : buys[i] \in S
    OBVIOUS
  <1>2. Cardinality(better) \in 0 .. n
    <2>1. better \in SUBSET (1 .. n)
      BY <1>1
    <2>2. IsFiniteSet(1 .. n) /\ Cardinality(1 .. n) = n
      <3>1. IsFiniteSet(1 .. n) /\ Cardinality(1 .. n) = IF 1 > n THEN 0 ELSE n - 1 + 1
        BY FS_Interval
      <3> QED
        BY <3>1
    <2> HIDE DEF better
    <2>3. IsFiniteSet(better) /\ Cardinality(better) <= n
      BY <2>1, <2>2, FS_Subset
    <2> QED
      BY <2>3, FS_CardinalityType
  <1>3. PICK k \in 0 .. n : k = Cardinality(better)
    BY <1>2
  <1>4. PICK a : a = SubSeq(buys, 1, k)
    OBVIOUS
  <1>5. PICK b : b = SubSeq(buys, k + 1, n)
    OBVIOUS
  <1>6. a \in Seq(S) /\ Len(a) = k /\ \A i \in 1 .. k : a[i] = buys[i]
    <2>1. /\ SubSeq(buys, 1, k) \in Seq(S)
          /\ Len(SubSeq(buys, 1, k)) = IF 1 <= k THEN k - 1 + 1 ELSE 0
          /\ \A i \in 1 .. k - 1 + 1 : SubSeq(buys, 1, k)[i] = buys[1 + i - 1]
      BY <1>1, SubSeqProperties
    <2> QED
      BY <1>4, <2>1
  <1>7. b \in Seq(S) /\ Len(b) = n - k /\ \A i \in 1 .. n - k : b[i] = buys[k + i]
    <2>1. PICK m \in Nat : m = k + 1
      OBVIOUS
    <2>2. \A i \in m .. n : buys[i] \in S
      BY <1>1, <2>1
    <2>3. /\ SubSeq(buys, m, n) \in Seq(S)
          /\ Len(SubSeq(buys, m, n)) = IF m <= n THEN n - m + 1 ELSE 0
          /\ \A i \in 1 .. n - m + 1 : SubSeq(buys, m, n)[i] = buys[m + i - 1]
      BY <2>2, SubSeqProperties
    <2>4. b = SubSeq(buys, m, n)
      BY <1>5, <2>1
    <2>5. n - m + 1 = n - k /\ \A i \in 1 .. n - k : m + i - 1 = k + i
      BY <2>1
    <2> QED
      BY <2>1, <2>3, <2>4, <2>5
  <1>8. PICK c : c = a \o <<v>>
    OBVIOUS
  <1>9. /\ c \in Seq(S) /\ Len(c) = k + 1
        /\ \A i \in 1 .. k + 1 : c[i] = IF i <= k THEN buys[i] ELSE v
    <2>1. <<v>> \in Seq(S) /\ Len(<<v>>) = 1 /\ <<v>>[1] = v
      OBVIOUS
    <2>2. /\ a \o <<v>> \in Seq(S) /\ Len(a \o <<v>>) = Len(a) + Len(<<v>>)
          /\ \A i \in 1 .. Len(a) + Len(<<v>>) :
               (a \o <<v>>)[i] = IF i <= Len(a) THEN a[i] ELSE <<v>>[i - Len(a)]
      BY <1>6, <2>1, ConcatProperties
    <2> QED
      BY <1>6, <1>8, <2>1, <2>2
  <1>10. PICK r : r = c \o b
    OBVIOUS
  <1>11. /\ r \in Seq(S) /\ Len(r) = n + 1
         /\ \A i \in 1 .. n + 1 : r[i] = IF i <= k + 1 THEN c[i] ELSE b[i - (k + 1)]
    <2>1. /\ c \o b \in Seq(S) /\ Len(c \o b) = Len(c) + Len(b)
          /\ \A i \in 1 .. Len(c) + Len(b) :
               (c \o b)[i] = IF i <= Len(c) THEN c[i] ELSE b[i - Len(c)]
      BY <1>7, <1>9, ConcatProperties
    <2>2. Len(c) + Len(b) = n + 1
      BY <1>7, <1>9
    <2> QED
      BY <1>9, <1>10, <2>1, <2>2
  <1>12. \A i \in 1 .. n + 1 :
           r[i] = IF i <= k THEN buys[i] ELSE IF i = k + 1 THEN v ELSE buys[i - 1]
    <2> TAKE i \in 1 .. n + 1
    <2>1. CASE i <= k + 1
      BY <1>9, <1>11, <2>1
    <2>2. CASE i > k + 1
      <3>1. r[i] = b[i - (k + 1)]
        BY <1>11, <2>2
      <3>2. i - (k + 1) \in 1 .. n - k /\ k + (i - (k + 1)) = i - 1
        BY <2>2
      <3>3. b[i - (k + 1)] = buys[i - 1]
        BY <1>7, <3>2
      <3> QED
        BY <2>2, <3>1, <3>3
    <2> QED
      BY <2>1, <2>2
  <1>13. Insert(v, buys) = r
    BY <1>1, <1>3, <1>4, <1>5, <1>8, <1>10 DEF Insert
  <1> QED
    BY <1>1, <1>11, <1>12, <1>13

LEMMA InsertOK ==
  ASSUME NEW S, NEW buys \in Seq(S), NEW v \in S, NEW market, NEW off, NEW crash,
         ListOK(buys, market, off, crash), CanBe(v, market, off, crash),
         \A i \in 1 .. Len(buys) : buys[i].symbol # v.symbol
  PROVE  /\ Insert(v, buys) \in Seq(S) /\ Insert(v, buys) # << >>
         /\ ListOK(Insert(v, buys), market, off, crash)
         /\ \A i \in 1 .. Len(Insert(v, buys)) :
              Insert(v, buys)[i] = v \/ \E j \in 1 .. Len(buys) : Insert(v, buys)[i] = buys[j]
  <1>1. PICK r : r = Insert(v, buys)
    OBVIOUS
  <1>2. PICK n \in Nat : n = Len(buys)
    OBVIOUS
  <1>3. r \in Seq(S) /\ Len(r) = n + 1
    BY <1>1, <1>2, InsertIs
  <1>4. PICK k \in 0 .. n : \A i \in 1 .. n + 1 :
          r[i] = IF i <= k THEN buys[i] ELSE IF i = k + 1 THEN v ELSE buys[i - 1]
    <2>1. \E k \in 0 .. Len(buys) : \A i \in 1 .. Len(buys) + 1 :
            Insert(v, buys)[i] = IF i <= k THEN buys[i] ELSE IF i = k + 1 THEN v ELSE buys[i - 1]
      BY InsertIs
    <2> QED
      BY <1>1, <1>2, <2>1
  <1>5. \A i \in 1 .. n + 1 : r[i] = v \/ \E j \in 1 .. n : r[i] = buys[j]
    BY <1>4
  <1>6. \A i, j \in 1 .. n : buys[i].symbol = buys[j].symbol => i = j
    BY <1>2 DEF ListOK, Apart
  <1>7. \A i \in 1 .. n : buys[i].symbol # v.symbol
    BY <1>2
  <1>8. \A i, j \in 1 .. n + 1 : r[i].symbol = r[j].symbol => i = j
    <2> SUFFICES ASSUME NEW i \in 1 .. n + 1, NEW j \in 1 .. n + 1, r[i].symbol = r[j].symbol, i # j
                 PROVE  FALSE
      OBVIOUS
    <2>1. CASE i = k + 1
      BY <1>4, <1>7, <2>1
    <2>2. CASE j = k + 1
      BY <1>4, <1>7, <2>2
    <2>3. CASE i # k + 1 /\ j # k + 1
      <3> DEFINE old(h) == IF h <= k THEN h ELSE h - 1
      <3>1. old(i) \in 1 .. n /\ old(j) \in 1 .. n /\ old(i) # old(j)
        BY <2>3
      <3>2. r[i] = buys[old(i)] /\ r[j] = buys[old(j)]
        BY <1>4, <2>3
      <3> HIDE DEF old
      <3> QED
        BY <1>6, <3>1, <3>2
    <2> QED
      BY <2>1, <2>2, <2>3
  <1>9. \A i \in 1 .. n : CanBe(buys[i], market, off, crash)
    BY <1>2 DEF ListOK
  <1>10. \A i \in 1 .. n + 1 : CanBe(r[i], market, off, crash)
    BY <1>5, <1>9
  <1>11. r # << >>
    BY <1>3
  <1> QED
    BY <1>1, <1>2, <1>3, <1>5, <1>8, <1>10, <1>11 DEF ListOK, Apart

-----------------------------------------------------------------------------
(* The regime *)

LEMMA PostureIs ==
  ASSUME NEW fng, NEW btc, NEW funding
  PROVE  LET p == regime_posture(fng, btc, funding)
         IN /\ p.mult \in 0 .. 100 /\ p.positions \in Nat
            /\ p.label = "RISK_OFF" => p.positions = 0
            /\ Fear(fng) /\ Falling(btc) => p.label = "PANIC"
  BY DEF regime_posture, Posture

\* A rebound is looked for in the one regime that takes a single candidate.
LEMMA ReboundIs ==
  ASSUME NEW fng, NEW q, NEW btc, NEW loose \in BOOLEAN, select_strategy(fng, q, btc, loose) = "dca"
  PROVE  Fear(fng) /\ Falling(btc)
  BY DEF select_strategy

LEMMA TopIs ==
  ASSUME NEW posture
  PROVE  TopK(posture) \in 1 .. 3 /\ (posture.label = "PANIC" => TopK(posture) = 1)
  BY DEF TopK

-----------------------------------------------------------------------------
(* The inductive invariant *)

\* What a cycle keeps of its readings and of the tokens to buy.
CycleOK(c, off) ==
  /\ {"wallet", "market", "posture", "crash", "buys"} \subseteq DOMAIN c
  /\ WalletOK(c.wallet) /\ MarketOK(c.market)
  /\ c.posture.mult \in 0 .. 100 /\ c.posture.label # "RISK_OFF"
  /\ c.buys \in Seq(Scored) /\ ListOK(c.buys, c.market, off, c.crash)

\* No token is both judged and still to be judged.
Between(list, other) ==
  \A i \in 1 .. Len(list), j \in 1 .. Len(other) : list[i].symbol # other[j].symbol
JudgingOK(c, off) ==
  /\ "fired" \in DOMAIN c /\ c.fired \in Seq(Found) /\ c.fired # << >>
  /\ ListOK(c.fired, c.market, off, c.crash) /\ Between(c.fired, c.buys)

PaysBack(buy, sell) == buy * sell >= 946000
LegsOK(o) == Cfg.divergence <= 25 /\ o.priced => PaysBack(o.venue.buy, o.venue.sell)
OrderOK(o, off) ==
  \/ o = NoOrder
  \/ /\ o.kind \in {"swap", "proposal"}
     /\ SoundBet(o.wallet, o.size) /\ o.size <= o.venue.depth * Cfg.poolShare
     /\ (o.crash => o.spec = "dca") /\ o.symbol \notin off
     /\ LegsOK(o)

Judged == {"picking", "confirming", "validating", "swapping"}
Basic ==
  /\ copilot \in BOOLEAN /\ sizePct \in Sizes /\ recent \in BOOLEAN
  /\ book \subseteq Symbols /\ cooled \subseteq Symbols
  /\ step \in Steps /\ toggles \in 0 .. Toggles
Inv ==
  /\ Basic
  /\ step = "gathering" => WalletOK(cyc.wallet)
  /\ step \in Judged \cup {"judging"} => CycleOK(cyc, cooled)
  /\ step = "judging" => JudgingOK(cyc, cooled)
  /\ step \in Judged => cyc.buys # << >>
  /\ step \in {"validating", "swapping"} => SizeOK(cyc.wallet, cyc.size)
  /\ OrderOK(order, cooled) /\ ((order.kind = "swap") <=> (step = "swapping"))

LEMMA ScoresAre == Scores \subseteq 0 .. 100
  BY DecisionAssumption

LEMMA SizesAre == Sizes \subseteq Nat
  <1>1. Sizes \subseteq 0 .. 10000
    BY DecisionAssumption
  <1> QED
    BY <1>1

LEMMA TogglesAre == Toggles \in Nat
  BY DecisionAssumption

LEMMA WalletsAre == \A w \in Wallets : WalletOK(w)
  <1>1. \A w \in Wallets : w.equity \in Nat /\ w.stable \in Nat
    BY DecisionAssumption
  <1> QED
    BY <1>1 DEF WalletOK

LEMMA VenuesAre == \A v \in Venues : v.depth \in Nat /\ v.buy \in Nat /\ v.sell \in Nat
  <1>1. \A v \in Venues : {v.depth, v.buy, v.sell} \subseteq Nat
    BY DecisionAssumption
  <1> QED
    BY <1>1

LEMMA InitInv == Init => Inv
  <1> SUFFICES ASSUME Init PROVE Inv
    OBVIOUS
  <1>1. Basic
    <2>1. 0 \in 0 .. Toggles
      BY TogglesAre
    <2> QED
      BY <2>1 DEF Init, Basic, Steps
  <1>2. OrderOK(order, cooled) /\ order.kind = "none"
    BY DEF Init, OrderOK, NoOrder
  <1>3. step = "idle"
    BY DEF Init
  <1> QED
    BY <1>1, <1>2, <1>3 DEF Inv, Judged

\* Between two cycles nothing is kept of the one before but its order.
LEMMA EndOfCycle ==
  ASSUME Basic', step' = "idle", OrderOK(order', cooled'), order'.kind # "swap"
  PROVE  Inv'
  BY DEF Inv, Judged

LEMMA BetPctIs ==
  ASSUME Basic, CycleOK(cyc, cooled), cyc.buys # << >>, NEW opinion
  PROVE  BetPct(opinion) \in 0 .. (115 * Cfg.maxPosition) \div 100
  <1>1. Candidate \in Scored /\ Candidate.symbol \in DOMAIN cyc.market
    <2>1. Head(cyc.buys) \in Scored /\ CanBe(Head(cyc.buys), cyc.market, cooled, cyc.crash)
      BY HeadOK DEF CycleOK
    <2> QED
      BY <2>1 DEF Candidate, CanBe
  <1>2. PICK change \in Int : change = Change24h
    <2>1. IsReading(Quote.p24)
      BY <1>1 DEF CycleOK, MarketOK, Quote, IsQuote
    <2> QED
      BY <2>1, OrElseIs DEF Change24h
  <1>3. PICK base \in Nat : base = sizePct
    <2>1. sizePct \in Nat
      BY SizesAre DEF Basic
    <2> QED
      BY <2>1
  <1>4. PICK score \in 0 .. 100 : score = Candidate.score
    BY <1>1 DEF Scored
  <1>5. PICK mult \in 0 .. 100 : mult = cyc.posture.mult
    <2>1. cyc.posture.mult \in 0 .. 100
      BY DEF CycleOK
    <2> QED
      BY <2>1
  <1>6. PICK bold \in 0 .. Cfg.maxPosition : bold = conviction_size_pct(base, score)
    <2>1. score \in Int
      OBVIOUS
    <2>2. conviction_size_pct(base, score) \in 0 .. Cfg.maxPosition
      BY <2>1, BoldIs
    <2> QED
      BY <2>2
  <1>7. bold \in Nat /\ \A x \in 0 .. bold : x \in 0 .. Cfg.maxPosition /\ x \in Nat
    <2>1. PICK most \in Nat : most = Cfg.maxPosition
      BY MaxPositionType
    <2>2. bold \in 0 .. most
      BY <2>1
    <2>3. bold \in Nat /\ \A x \in 0 .. bold : x \in 0 .. most /\ x \in Nat
      BY <2>2
    <2> QED
      BY <2>1, <2>3
  <1>8. PICK factor \in 0 .. 100 : factor = overextension_factor(change)
    <2>1. overextension_factor(change) \in 0 .. 100
      BY FactorIs
    <2> QED
      BY <2>1
  <1>9. (bold * factor) \div 100 \in 0 .. bold
    BY <1>7, ShareOf
  <1>10. PICK young \in 0 .. bold :
           young = IF Candidate.spec = "momentum" THEN (bold * factor) \div 100 ELSE bold
    BY <1>7, <1>9
  <1>11. PICK fitted \in 0 .. young : fitted = (young * mult) \div 100
    BY <1>7, ShareOf
  <1>12. fitted \in 0 .. Cfg.maxPosition
    BY <1>7, MaxPositionType
  <1>13. /\ (fitted * 115) \div 100 \in 0 .. (115 * Cfg.maxPosition) \div 100
         /\ (fitted * 75) \div 100 \in 0 .. (115 * Cfg.maxPosition) \div 100
         /\ fitted \in 0 .. (115 * Cfg.maxPosition) \div 100
    BY <1>12, Fits
  <1>14. CASE copilot
    <2>1. BetPct(opinion) = Least(base, Cfg.maxPosition)
      BY <1>3, <1>14 DEF BetPct
    <2>2. Least(base, Cfg.maxPosition) \in 0 .. Cfg.maxPosition
      BY MaxPositionType DEF Least
    <2> QED
      BY <2>1, <2>2, Fits
  <1>15. CASE ~copilot
    <2>1. BetPct(opinion) = CASE opinion = "ENTER" -> (fitted * 115) \div 100
                              [] opinion = "WAIT" -> (fitted * 75) \div 100
                              [] OTHER -> fitted
      BY <1>2, <1>3, <1>4, <1>5, <1>6, <1>8, <1>10, <1>11, <1>15 DEF BetPct
    <2> QED
      BY <1>13, <2>1
  <1> QED
    BY <1>14, <1>15

\* The candidate that is passed over is gone; the next one takes its place.
LEMMA NextCandidate ==
  ASSUME NEW c, NEW off, CycleOK(c, off), c.buys # << >>, Len(c.buys) # 1,
         NEW d, d = [f \in DOMAIN c \ {"size"} |-> IF f = "buys" THEN Tail(c.buys) ELSE c[f]],
         NEW less, less \subseteq off \cup {Head(c.buys).symbol}
  PROVE  CycleOK(d, less) /\ d.buys # << >>
  <1>1. /\ d.wallet = c.wallet /\ d.market = c.market /\ d.posture = c.posture
        /\ d.buys = Tail(c.buys)
        /\ {"wallet", "market", "posture", "crash", "buys"} \subseteq DOMAIN d
    BY DEF CycleOK
  <1>2. d.crash = c.crash
    BY DEF CycleOK
  <1>3. /\ Tail(c.buys) \in Seq(Scored) /\ Len(Tail(c.buys)) = Len(c.buys) - 1
        /\ ListOK(Tail(c.buys), c.market, less, c.crash)
    BY TailOK DEF CycleOK
  <1>4. Len(c.buys) \in Nat /\ Len(c.buys) >= 1
    <2>1. c.buys \in Seq(Scored)
      BY DEF CycleOK
    <2> QED
      BY <2>1, EmptySeq
  <1>5. d.buys # << >>
    <2>1. Len(Tail(c.buys)) # 0
      BY <1>3, <1>4
    <2>2. PICK tail \in Seq(Scored) : tail = Tail(c.buys)
      BY <1>3
    <2>3. tail # << >>
      BY <2>1, <2>2, EmptySeq
    <2> QED
      BY <1>1, <2>2, <2>3, Zenon
  <1>6. ListOK(d.buys, d.market, less, d.crash)
    BY <1>1, <1>2, <1>3
  <1> QED
    BY <1>1, <1>3, <1>5, <1>6 DEF CycleOK

LEMMA PassesOverStep ==
  ASSUME CycleOK(cyc, cooled), cyc.buys # << >>, PassesOver, Basic',
         cooled' \subseteq cooled \cup {Candidate.symbol}
  PROVE  Inv'
  <1>1. order' = NoOrder /\ OrderOK(order', cooled') /\ order'.kind = "none"
    BY DEF PassesOver, OrderOK, NoOrder
  <1>2. CASE Len(cyc.buys) = 1
    BY <1>1, <1>2, EndOfCycle DEF PassesOver, Finishes
  <1>3. CASE Len(cyc.buys) # 1
    <2>1. /\ step' = "picking"
          /\ cyc' = [f \in DOMAIN cyc \ {"size"} |-> IF f = "buys" THEN Tail(cyc.buys) ELSE cyc[f]]
      BY <1>3 DEF PassesOver
    <2>2. CycleOK(cyc', cooled') /\ cyc'.buys # << >>
      <3>1. PICK c, off, d, less : c = cyc /\ off = cooled /\ d = cyc' /\ less = cooled'
        OBVIOUS
      <3>2. d = [f \in DOMAIN c \ {"size"} |-> IF f = "buys" THEN Tail(c.buys) ELSE c[f]]
        BY <2>1, <3>1
      <3>3. CycleOK(c, off) /\ c.buys # << >> /\ Len(c.buys) # 1
        BY <1>3, <3>1
      <3>4. less \subseteq off \cup {Head(c.buys).symbol}
        BY <3>1 DEF Candidate
      <3>5. CycleOK(d, less) /\ d.buys # << >>
        BY <3>2, <3>3, <3>4, NextCandidate
      <3> QED
        BY <3>1, <3>5
    <2> QED
      BY <1>1, <2>1, <2>2 DEF Inv, Judged
  <1> QED
    BY <1>2, <1>3

LEMMA ScanBeginsStep == Inv /\ ScanBegins => Inv'
  <1> SUFFICES ASSUME Inv, ScanBegins PROVE Inv'
    OBVIOUS
  <1>1. PICK w \in Wallets : cyc' = [wallet |-> w]
    BY DEF ScanBegins
  <1>2. WalletOK(cyc'.wallet)
    BY <1>1, WalletsAre
  <1>3. Basic'
    BY DEF Inv, Basic, ScanBegins, Steps, kept, owners
  <1>4. OrderOK(order', cooled') /\ order'.kind = "none"
    BY DEF ScanBegins, OrderOK, NoOrder
  <1>5. step' = "gathering"
    BY DEF ScanBegins
  <1> QED
    BY <1>2, <1>3, <1>4, <1>5 DEF Inv, Judged

LEMMA FinishesStep ==
  ASSUME Inv, step # "swapping", Finishes, UNCHANGED <<book, kept, owners, order>>
  PROVE  Inv'
  <1>1. Basic'
    BY DEF Inv, Basic, Finishes, Steps, kept, owners
  <1>2. OrderOK(order', cooled') /\ order'.kind # "swap"
    BY DEF Inv, kept
  <1>3. step' = "idle"
    BY DEF Finishes
  <1> QED
    BY <1>1, <1>2, <1>3, EndOfCycle

LEMMA GathersStep == Inv /\ Gathers => Inv'
  <1> SUFFICES ASSUME Inv, Gathers PROVE Inv'
    OBVIOUS
  <1>1. step = "gathering" /\ UNCHANGED <<book, kept, owners, order>>
    BY DEF Gathers
  <1>2. CASE Finishes
    BY <1>1, <1>2, FinishesStep
  <1>3. CASE ~Finishes
    <2>1. PICK quoted \in Markets, told \in Macros, feed \in Answers :
            LET market == Gathered(quoted, Focus, feed)
                m == gather_macro(told, feed)
                posture == regime_posture(m.fng, m.btc, m.funding)
                fired == Fired(market, m, posture)
                gate == can_open_position(cyc.wallet.equity, cyc.wallet.stable, Cardinality(book),
                                          posture, recent)
            IN /\ gate /\ ~Blocked(m, fired) /\ fired # << >>
               /\ step' = "judging"
               /\ cyc' = [wallet |-> cyc.wallet, market |-> market, posture |-> posture,
                          adjust |-> CutAdjust(m), crash |-> \E x \in m.btc : x <= -50,
                          fired |-> SubSeq(fired, 1, Least(TopK(posture), Len(fired))),
                          buys |-> << >>]
      BY <1>3 DEF Gathers
    <2>2. PICK market : market = Gathered(quoted, Focus, feed)
      OBVIOUS
    <2>3. PICK m : m = gather_macro(told, feed)
      OBVIOUS
    <2>4. PICK posture : posture = regime_posture(m.fng, m.btc, m.funding)
      OBVIOUS
    <2>5. PICK fired : fired = Fired(market, m, posture)
      OBVIOUS
    <2> DEFINE crash == \E x \in m.btc : x <= -50
    <2>6. PICK k : k = Least(TopK(posture), Len(fired))
      OBVIOUS
    <2>7. /\ can_open_position(cyc.wallet.equity, cyc.wallet.stable, Cardinality(book), posture, recent)
          /\ ~Blocked(m, fired) /\ fired # << >> /\ step' = "judging"
      BY <2>1, <2>2, <2>3, <2>4, <2>5
    <2>8. cyc' = [wallet |-> cyc.wallet, market |-> market, posture |-> posture,
                  adjust |-> CutAdjust(m), crash |-> crash, fired |-> SubSeq(fired, 1, k),
                  buys |-> << >>]
      BY <2>1, <2>2, <2>3, <2>4, <2>5, <2>6
    <2>9. MarketOK(market)
      BY <2>2, GatheredOK
    <2>10. /\ posture.mult \in 0 .. 100 /\ posture.positions \in Nat
           /\ posture.label = "RISK_OFF" => posture.positions = 0
           /\ Fear(m.fng) /\ Falling(m.btc) => posture.label = "PANIC"
      BY <2>4, PostureIs
    <2>11. posture.label # "RISK_OFF"
      <3>1. Cardinality(book) \in Nat
        <4>1. IsFiniteSet(book)
          BY SymbolsFinite, FS_Subset DEF Inv, Basic
        <4> QED
          BY <4>1, FS_CardinalityType
      <3>2. Cardinality(book) < Least(Cfg.maxPositions, posture.positions)
        BY <2>7 DEF can_open_position
      <3>3. Cfg.maxPositions \in Nat
        BY CfgAssumption
      <3>4. posture.positions # 0
        BY <3>1, <3>2, <3>3 DEF Least
      <3> QED
        BY <2>10, <3>4
    <2>12. /\ fired \in Seq(Found) /\ Apart(fired)
           /\ \A n \in 1 .. Len(fired) :
                /\ fired[n].symbol \in DOMAIN market /\ fired[n].symbol \notin cooled
                /\ fired[n].spec = select_strategy(m.fng, market[fired[n].symbol], m.btc, copilot)
      BY <2>5, <2>9, FiredIs
    <2>13. Len(fired) \in Nat /\ Len(fired) >= 1
      BY <2>7, <2>12, EmptySeq
    <2>14. k \in 1 .. Len(fired) /\ (posture.label = "PANIC" => k = 1)
      BY <2>6, <2>13, TopIs DEF Least
    <2>15. ASSUME crash PROVE fired[1].spec = "dca" /\ k = 1
      <3>1. fired[1].spec = "dca"
        BY <2>7, <2>15 DEF Blocked
      <3>2. copilot \in BOOLEAN
        BY DEF Inv, Basic
      <3>3. fired[1].spec = select_strategy(m.fng, market[fired[1].symbol], m.btc, copilot)
        BY <2>12, <2>13
      <3>4. Fear(m.fng) /\ Falling(m.btc)
        BY <3>1, <3>2, <3>3, ReboundIs
      <3> QED
        BY <2>10, <2>14, <3>1, <3>4
    <2> HIDE DEF crash
    <2>16. \A i \in 1 .. k : CanBe(fired[i], market, cooled, crash)
      <3> TAKE i \in 1 .. k
      <3>1. i \in 1 .. Len(fired)
        BY <2>13, <2>14
      <3>2. crash => fired[i].spec = "dca"
        BY <2>14, <2>15
      <3> QED
        BY <2>12, <3>1, <3>2 DEF CanBe
    <2>17. /\ SubSeq(fired, 1, k) \in Seq(Found) /\ SubSeq(fired, 1, k) # << >>
           /\ ListOK(SubSeq(fired, 1, k), market, cooled, crash)
      BY <2>12, <2>14, <2>16, FirstOK
    <2>18. PICK first : first = SubSeq(fired, 1, k)
      OBVIOUS
    <2>19. /\ cyc'.wallet = cyc.wallet /\ cyc'.market = market /\ cyc'.posture = posture
           /\ cyc'.fired = first /\ cyc'.buys = << >>
           /\ {"wallet", "market", "posture", "crash", "buys", "fired"} \subseteq DOMAIN cyc'
      BY <2>8, <2>18
    <2>20. cyc'.crash = crash
      BY <2>8
    <2>21. cooled' = cooled
      BY <1>1 DEF kept
    <2>22. CycleOK(cyc', cooled')
      <3>1. WalletOK(cyc'.wallet)
        BY <1>1, <2>19 DEF Inv
      <3>2. cyc'.buys \in Seq(Scored) /\ ListOK(cyc'.buys, cyc'.market, cooled', cyc'.crash)
        BY <2>19 DEF ListOK, Apart
      <3> QED
        BY <2>9, <2>10, <2>11, <2>19, <3>1, <3>2 DEF CycleOK
    <2>23. JudgingOK(cyc', cooled')
      <3>1. first \in Seq(Found) /\ first # << >> /\ ListOK(first, market, cooled, crash)
        BY <2>17, <2>18
      <3>2. Between(first, << >>)
        BY DEF Between
      <3>3. ListOK(cyc'.fired, cyc'.market, cooled', cyc'.crash)
        BY <2>19, <2>20, <2>21, <3>1
      <3> QED
        BY <2>19, <3>1, <3>2, <3>3 DEF JudgingOK
    <2>24. Basic'
      BY <1>1, <2>7 DEF Inv, Basic, Steps, kept, owners
    <2>25. OrderOK(order', cooled') /\ order'.kind # "swap"
      BY <1>1, <2>21 DEF Inv
    <2> QED
      BY <2>7, <2>22, <2>23, <2>24, <2>25 DEF Inv, Judged
  <1> QED
    BY <1>2, <1>3

LEMMA ScoreIs ==
  ASSUME NEW answer \in {{x} : x \in Scores} \cup {{}}
  PROVE  Score(answer) \in 0 .. 100
  <1>1. CASE answer = {}
    BY <1>1 DEF Score, OrElse
  <1>2. CASE answer # {}
    <2>1. PICK x \in Scores : answer = {x}
      BY <1>2
    <2>2. (CHOOSE y \in {x} : TRUE) = x
      OBVIOUS
    <2>3. Score(answer) = x
      BY <1>2, <2>1, <2>2 DEF Score, OrElse
    <2> QED
      BY <2>3, ScoresAre
  <1> QED
    BY <1>1, <1>2

LEMMA JudgesStep == Inv /\ Judges => Inv'
  <1> SUFFICES ASSUME Inv, Judges PROVE Inv'
    OBVIOUS
  <1>1. step = "judging" /\ UNCHANGED <<book, kept, owners, order>>
    BY DEF Judges
  <1>2. CycleOK(cyc, cooled) /\ JudgingOK(cyc, cooled)
    BY <1>1 DEF Inv
  <1>3. PICK answer \in {{x} : x \in Scores} \cup {{}} :
          LET c == Head(cyc.fired)
              cut == effective_cut(cyc.market[c.symbol], IF c.spec = "momentum" THEN cyc.adjust ELSE 0,
                                   c.spec)
              score == Score(answer)
              isBuy == IsBuy(answer, cut)
              v == [symbol |-> c.symbol, spec |-> c.spec, score |-> score, isBuy |-> isBuy]
              buys == IF isBuy \/ (copilot /\ score >= 20) THEN Insert(v, cyc.buys) ELSE cyc.buys
              last == Len(cyc.fired) = 1 \/ (isBuy /\ score >= 78)
          IN CASE last /\ buys = << >> -> Finishes
               [] last /\ buys # << >> ->
                    /\ step' = "picking"
                    /\ cyc' = [wallet |-> cyc.wallet, market |-> cyc.market, posture |-> cyc.posture,
                               crash |-> cyc.crash, buys |-> buys, held |-> book]
               [] OTHER -> /\ cyc' = [cyc EXCEPT !.fired = Tail(@), !.buys = buys]
                           /\ UNCHANGED step
    BY DEF Judges
  <1>4. PICK c \in Found : c = Head(cyc.fired) /\ c = cyc.fired[1]
    BY <1>2, HeadTailProperties DEF JudgingOK
  <1>5. CanBe(c, cyc.market, cooled, cyc.crash) /\ Len(cyc.fired) \in Nat /\ Len(cyc.fired) >= 1
    <2>1. /\ cyc.fired \in Seq(Found) /\ cyc.fired # << >>
          /\ ListOK(cyc.fired, cyc.market, cooled, cyc.crash)
      BY <1>2 DEF JudgingOK
    <2>2. /\ Head(cyc.fired) = cyc.fired[1] /\ Len(cyc.fired) \in Nat /\ Len(cyc.fired) >= 1
          /\ CanBe(cyc.fired[1], cyc.market, cooled, cyc.crash)
      BY <2>1, HeadOK
    <2> QED
      BY <1>4, <2>2
  <1>6. PICK score \in 0 .. 100 : score = Score(answer)
    <2>1. Score(answer) \in 0 .. 100
      BY ScoreIs
    <2> QED
      BY <2>1
  <1> DEFINE isBuy == IsBuy(answer, effective_cut(cyc.market[c.symbol],
                                    IF c.spec = "momentum" THEN cyc.adjust ELSE 0, c.spec))
  <1>7. isBuy \in BOOLEAN
    BY DEF IsBuy
  <1> HIDE DEF isBuy
  <1>8. PICK v : v = [symbol |-> c.symbol, spec |-> c.spec, score |-> score, isBuy |-> isBuy]
    OBVIOUS
  <1>9. v \in Scored /\ v.symbol = c.symbol /\ v.spec = c.spec
    <2>1. c.symbol \in Symbols /\ c.spec \in Specs
      BY <1>4 DEF Found
    <2> QED
      BY <1>7, <1>8, <2>1 DEF Scored
  <1>10. PICK buys :
           buys = IF isBuy \/ (copilot /\ score >= 20) THEN Insert(v, cyc.buys) ELSE cyc.buys
    OBVIOUS
  <1> DEFINE last == Len(cyc.fired) = 1 \/ (isBuy /\ score >= 78)
  <1>11. (CASE last /\ buys = << >> -> Finishes
           [] last /\ buys # << >> ->
                /\ step' = "picking"
                /\ cyc' = [wallet |-> cyc.wallet, market |-> cyc.market, posture |-> cyc.posture,
                           crash |-> cyc.crash, buys |-> buys, held |-> book]
           [] OTHER -> /\ cyc' = [cyc EXCEPT !.fired = Tail(@), !.buys = buys]
                       /\ UNCHANGED step)
    BY <1>3, <1>4, <1>6, <1>8, <1>10 DEF isBuy
  <1> HIDE DEF last
  <1>12. ~last => Len(cyc.fired) # 1
    BY DEF last
  <1>13. /\ cyc.fired \in Seq(Found) /\ ListOK(cyc.fired, cyc.market, cooled, cyc.crash)
         /\ cyc.buys \in Seq(Scored) /\ ListOK(cyc.buys, cyc.market, cooled, cyc.crash)
         /\ \A i \in 1 .. Len(cyc.fired), j \in 1 .. Len(cyc.buys) :
              cyc.fired[i].symbol # cyc.buys[j].symbol
    BY <1>2 DEF CycleOK, JudgingOK, Between
  <1>14. CanBe(v, cyc.market, cooled, cyc.crash)
    BY <1>5, <1>9 DEF CanBe
  <1>15. \A j \in 1 .. Len(cyc.buys) : cyc.buys[j].symbol # v.symbol
    BY <1>4, <1>5, <1>9, <1>13
  <1>16. /\ buys \in Seq(Scored) /\ ListOK(buys, cyc.market, cooled, cyc.crash)
         /\ \A i \in 1 .. Len(buys) :
              buys[i] = v \/ \E j \in 1 .. Len(cyc.buys) : buys[i] = cyc.buys[j]
    <2>1. /\ Insert(v, cyc.buys) \in Seq(Scored)
          /\ ListOK(Insert(v, cyc.buys), cyc.market, cooled, cyc.crash)
          /\ \A i \in 1 .. Len(Insert(v, cyc.buys)) :
               \/ Insert(v, cyc.buys)[i] = v
               \/ \E j \in 1 .. Len(cyc.buys) : Insert(v, cyc.buys)[i] = cyc.buys[j]
      BY <1>9, <1>13, <1>14, <1>15, InsertOK
    <2>2. buys = Insert(v, cyc.buys) \/ buys = cyc.buys
      BY <1>10
    <2> QED
      BY <1>13, <2>1, <2>2
  <1>17. cooled' = cooled
    BY <1>1 DEF kept
  <1>18. OrderOK(order', cooled') /\ order'.kind # "swap"
    BY <1>1, <1>17 DEF Inv
  <1>19. CASE last /\ buys = << >>
    <2>1. Finishes
      BY <1>11, <1>19
    <2> QED
      BY <1>1, <2>1, FinishesStep
  <1>20. CASE last /\ buys # << >>
    <2>1. /\ step' = "picking"
          /\ cyc' = [wallet |-> cyc.wallet, market |-> cyc.market, posture |-> cyc.posture,
                     crash |-> cyc.crash, buys |-> buys, held |-> book]
      BY <1>11, <1>20
    <2>2. /\ cyc'.wallet = cyc.wallet /\ cyc'.market = cyc.market /\ cyc'.posture = cyc.posture
          /\ cyc'.buys = buys
          /\ {"wallet", "market", "posture", "crash", "buys"} \subseteq DOMAIN cyc'
      BY <2>1
    <2>3. cyc'.crash = cyc.crash
      BY <2>1
    <2>4. ListOK(cyc'.buys, cyc'.market, cooled', cyc'.crash)
      BY <1>16, <1>17, <2>2, <2>3
    <2>5. CycleOK(cyc', cooled')
      BY <1>2, <1>16, <2>2, <2>4 DEF CycleOK
    <2>6. Basic'
      BY <1>1, <2>1 DEF Inv, Basic, Steps, kept, owners
    <2> QED
      BY <1>18, <1>20, <2>1, <2>2, <2>5, <2>6 DEF Inv, Judged
  <1>21. CASE ~last
    <2>1. cyc' = [cyc EXCEPT !.fired = Tail(@), !.buys = buys] /\ step' = step
      BY <1>11, <1>21
    <2>2. {"wallet", "market", "posture", "crash", "buys", "fired"} \subseteq DOMAIN cyc
      BY <1>2 DEF CycleOK, JudgingOK
    <2>3. /\ cyc'.wallet = cyc.wallet /\ cyc'.market = cyc.market /\ cyc'.posture = cyc.posture
          /\ cyc'.buys = buys /\ cyc'.fired = Tail(cyc.fired)
          /\ {"wallet", "market", "posture", "crash", "buys", "fired"} \subseteq DOMAIN cyc'
      BY <2>1, <2>2
    <2>4. cyc'.crash = cyc.crash
      BY <2>1, <2>2
    <2>5. /\ Tail(cyc.fired) \in Seq(Found) /\ Len(Tail(cyc.fired)) = Len(cyc.fired) - 1
          /\ ListOK(Tail(cyc.fired), cyc.market, cooled, cyc.crash)
      <3>1. cyc.fired # << >> /\ cooled \subseteq cooled \cup {Head(cyc.fired).symbol}
        BY <1>2 DEF JudgingOK
      <3> QED
        BY <1>13, <3>1, TailOK
    <2>6. PICK tail \in Seq(Found) : tail = Tail(cyc.fired)
      BY <2>5
    <2>7. tail # << >>
      <3>1. Len(tail) # 0
        BY <1>5, <1>12, <1>21, <2>5, <2>6
      <3> QED
        BY <3>1, EmptySeq
    <2>8. Between(tail, buys)
      <3> SUFFICES ASSUME NEW i \in 1 .. Len(tail), NEW j \in 1 .. Len(buys)
                   PROVE  tail[i].symbol # buys[j].symbol
        BY DEF Between
      <3>1. tail[i] = cyc.fired[i + 1]
        BY <1>13, <2>6, HeadTailProperties
      <3>2. i + 1 \in 1 .. Len(cyc.fired) /\ i + 1 # 1
        BY <1>5, <2>5, <2>6
      <3>3. CASE buys[j] = v
        <4>1. cyc.fired[i + 1].symbol # cyc.fired[1].symbol
          BY <1>5, <1>13, <3>2 DEF ListOK, Apart
        <4> QED
          BY <1>4, <1>9, <3>1, <3>3, <4>1
      <3>4. CASE \E h \in 1 .. Len(cyc.buys) : buys[j] = cyc.buys[h]
        BY <1>13, <3>1, <3>2, <3>4
      <3> QED
        BY <1>16, <3>3, <3>4
    <2>9. CycleOK(cyc', cooled')
      <3>1. ListOK(cyc'.buys, cyc'.market, cooled', cyc'.crash)
        BY <1>16, <1>17, <2>3, <2>4
      <3> QED
        BY <1>2, <1>16, <2>3, <3>1 DEF CycleOK
    <2>10. JudgingOK(cyc', cooled')
      <3>1. ListOK(cyc'.fired, cyc'.market, cooled', cyc'.crash)
        BY <1>17, <2>3, <2>4, <2>5
      <3> QED
        BY <2>3, <2>6, <2>7, <2>8, <3>1 DEF JudgingOK
    <2>11. Basic'
      BY <1>1, <2>1 DEF Inv, Basic, Steps, kept, owners
    <2> QED
      BY <1>1, <1>18, <2>1, <2>9, <2>10, <2>11 DEF Inv, Judged
  <1> QED
    BY <1>19, <1>20, <1>21

LEMMA JudgeFailsStep == Inv /\ JudgeFails => Inv'
  BY FinishesStep DEF JudgeFails

\* What the next candidate is, where there is one.
LEMMA CandidateIs ==
  ASSUME CycleOK(cyc, cooled), cyc.buys # << >>
  PROVE  Candidate \in Scored /\ CanBe(Candidate, cyc.market, cooled, cyc.crash)
  <1>1. Head(cyc.buys) \in Scored /\ CanBe(Head(cyc.buys), cyc.market, cooled, cyc.crash)
    BY HeadOK DEF CycleOK
  <1> QED
    BY <1>1 DEF Candidate

\* A cycle that goes on as it is.
LEMMA GoesOnStep ==
  ASSUME Inv, step \in Judged, step' \in Judged \ {"swapping"}, cyc' = cyc, Basic',
         step' = "validating" => SizeOK(cyc.wallet, cyc.size),
         cooled' = cooled, OrderOK(order', cooled'), order'.kind # "swap"
  PROVE  Inv'
  BY DEF Inv, Judged

LEMMA PicksStep == Inv /\ Picks => Inv'
  <1> SUFFICES ASSUME Inv, Picks PROVE Inv'
    OBVIOUS
  <1>1. step = "picking" /\ UNCHANGED <<book, kept, owners>>
    BY DEF Picks
  <1>2. CycleOK(cyc, cooled) /\ cyc.buys # << >>
    BY <1>1 DEF Inv, Judged
  <1>3. step' \in {"idle", "picking", "confirming"}
    BY DEF Picks, PassesOver, Finishes
  <1>4. Basic' /\ cooled' = cooled
    BY <1>1, <1>3 DEF Inv, Basic, Steps, kept, owners
  <1>5. CASE PassesOver
    BY <1>2, <1>4, <1>5, PassesOverStep
  <1>6. CASE step' = "confirming" /\ UNCHANGED <<cyc, order>>
    <2>1. OrderOK(order', cooled') /\ order'.kind # "swap"
      BY <1>1, <1>4, <1>6 DEF Inv
    <2> QED
      BY <1>1, <1>4, <1>6, <2>1, GoesOnStep DEF Judged
  <1> QED
    BY <1>5, <1>6 DEF Picks

LEMMA ConfirmsStep == Inv /\ Confirms => Inv'
  <1> SUFFICES ASSUME Inv, Confirms PROVE Inv'
    OBVIOUS
  <1>1. step = "confirming" /\ UNCHANGED <<book, kept, owners>>
    BY DEF Confirms
  <1>2. CycleOK(cyc, cooled) /\ cyc.buys # << >> /\ Basic
    BY <1>1 DEF Inv, Judged
  <1>3. PICK opinion :
          IF opinion = "AVOID" THEN PassesOver
          ELSE /\ step' = "validating"
               /\ cyc' = [f \in DOMAIN cyc \cup {"size"} |->
                            IF f = "size" THEN position_size_usd(cyc.wallet.equity, cyc.wallet.stable,
                                                                 BetPct(opinion))
                            ELSE cyc[f]]
               /\ UNCHANGED order
    BY DEF Confirms
  <1>4. cooled' = cooled
    BY <1>1 DEF kept
  <1>5. CASE opinion = "AVOID"
    <2>1. PassesOver
      BY <1>3, <1>5
    <2>2. Basic'
      BY <1>1, <2>1 DEF Inv, Basic, Steps, kept, owners, PassesOver, Finishes
    <2> QED
      BY <1>2, <1>4, <2>1, <2>2, PassesOverStep
  <1>6. CASE opinion # "AVOID"
    <2>1. PICK size : size = position_size_usd(cyc.wallet.equity, cyc.wallet.stable, BetPct(opinion))
      OBVIOUS
    <2>2. SizeOK(cyc.wallet, size)
      <3>1. BetPct(opinion) \in 0 .. (115 * Cfg.maxPosition) \div 100
        BY <1>2, BetPctIs
      <3>2. PICK w, pct : w = cyc.wallet /\ pct = BetPct(opinion)
        OBVIOUS
      <3>3. WalletOK(w) /\ pct \in 0 .. (115 * Cfg.maxPosition) \div 100
        BY <1>2, <3>1, <3>2 DEF CycleOK
      <3>4. SizeOK(w, position_size_usd(w.equity, w.stable, pct))
        BY <3>3, BetIsSound
      <3> QED
        BY <2>1, <3>2, <3>4
    <2>3. /\ step' = "validating" /\ UNCHANGED order
          /\ cyc' = [f \in DOMAIN cyc \cup {"size"} |-> IF f = "size" THEN size ELSE cyc[f]]
      BY <1>3, <1>6, <2>1
    <2>4. {"wallet", "market", "posture", "crash", "buys"} \subseteq DOMAIN cyc
      BY <1>2 DEF CycleOK
    <2>5. /\ cyc'.wallet = cyc.wallet /\ cyc'.market = cyc.market /\ cyc'.posture = cyc.posture
          /\ cyc'.buys = cyc.buys /\ cyc'.size = size
          /\ {"wallet", "market", "posture", "crash", "buys"} \subseteq DOMAIN cyc'
      BY <2>3, <2>4
    <2>6. cyc'.crash = cyc.crash
      BY <2>3, <2>4
    <2>7. CycleOK(cyc', cooled')
      <3>1. ListOK(cyc'.buys, cyc'.market, cooled', cyc'.crash)
        BY <1>2, <1>4, <2>5, <2>6 DEF CycleOK
      <3> QED
        BY <1>2, <2>5, <3>1 DEF CycleOK
    <2>8. SizeOK(cyc'.wallet, cyc'.size)
      BY <2>2, <2>5
    <2>9. Basic'
      BY <1>1, <2>3 DEF Inv, Basic, Steps, kept, owners
    <2>10. OrderOK(order', cooled') /\ order'.kind # "swap"
      BY <1>1, <1>4, <2>3 DEF Inv
    <2> QED
      BY <1>2, <2>3, <2>5, <2>7, <2>8, <2>9, <2>10 DEF Inv, Judged
  <1> QED
    BY <1>5, <1>6

\* The dearest quote of the purchase, and the cheapest of the sale, that Filter 2 lets through.
Near(buy, far) == 1000 * Most(1000 - buy, buy - 1000) <= far * buy
LEMMA LegsAre ==
  ASSUME NEW buy \in Nat, NEW sell \in Nat, NEW far \in Nat, far <= 25, sell >= 970, buy > 0,
         Near(buy, far)
  PROVE  PaysBack(buy, sell)
  <1>1. 1000 * (1000 - buy) <= far * buy
    <2>1. 1000 - buy <= Most(1000 - buy, buy - 1000) /\ Most(1000 - buy, buy - 1000) \in Int
      BY DEF Most
    <2>2. PICK m \in Int : m = Most(1000 - buy, buy - 1000)
      BY <2>1
    <2>3. far * buy \in Nat
      BY TimesMonotone
    <2> QED
      BY <2>1, <2>2, <2>3 DEF Near
  <1>2. buy * far <= buy * 25 /\ buy * far \in Nat
    BY TimesMonotone
  <1>3. far * buy = buy * far
    OBVIOUS
  <1>4. buy >= 976
    BY <1>1, <1>2, <1>3
  <1>5. buy * 970 <= buy * sell /\ buy * 970 \in Nat
    BY TimesMonotone
  <1>6. buy * sell \in Nat
    BY TimesMonotone
  <1> QED
    BY <1>4, <1>5, <1>6, SMT DEF PaysBack

\* The order that is made of the candidate.
LEMMA OrderIsSound ==
  ASSUME CycleOK(cyc, cooled), cyc.buys # << >>, SizeOK(cyc.wallet, cyc.size),
         NEW v \in Venues, Validated(v, cyc.size, Quote.priced), NEW kind \in {"swap", "proposal"}
  PROVE  OrderOK(Order(kind, v), cooled) /\ Order(kind, v).kind = kind
  <1>1. PICK o : o = Order(kind, v)
    OBVIOUS
  <1>2. /\ o.kind = kind /\ o.symbol = Candidate.symbol /\ o.spec = Candidate.spec
        /\ o.size = cyc.size /\ o.venue = v /\ o.wallet = cyc.wallet
    BY <1>1 DEF Order
  <1>3. o.priced = Quote.priced
    BY <1>1 DEF Order
  <1>4. o.crash = cyc.crash
    BY <1>1 DEF Order
  <1>5. Candidate.symbol \notin cooled /\ (cyc.crash => Candidate.spec = "dca")
    BY CandidateIs DEF CanBe
  <1>6. SoundBet(cyc.wallet, cyc.size)
    BY DEF SizeOK, Validated, Retains
  <1>7. cyc.size <= v.depth * Cfg.poolShare
    BY DEF Validated, Deep
  <1>8. LegsOK(o)
    <2> SUFFICES ASSUME Cfg.divergence <= 25, o.priced PROVE PaysBack(v.buy, v.sell)
      BY <1>2 DEF LegsOK
    <2>1. Quote.priced
      BY <1>3
    <2>2. 1000 * Most(1000 - v.buy, v.buy - 1000) <= Cfg.divergence * v.buy
      BY <2>1 DEF Validated, OracleAgrees
    <2>3. v.sell >= 970 /\ v.buy > 0
      BY DEF Validated, Retains
    <2>4. PICK buy \in Nat, sell \in Nat : buy = v.buy /\ sell = v.sell
      BY VenuesAre
    <2>5. Cfg.divergence \in Nat
      BY CfgAssumption
    <2>6. PICK far \in Nat : far = Cfg.divergence
      BY <2>5
    <2>7. PaysBack(buy, sell)
      <3>1. far <= 25 /\ sell >= 970 /\ buy > 0
        BY <2>3, <2>4, <2>6
      <3>2. Near(buy, far)
        BY <2>2, <2>4, <2>6 DEF Near
      <3> QED
        BY <3>1, <3>2, LegsAre
    <2> QED
      BY <2>4, <2>7
  <1>9. o.kind \in {"swap", "proposal"} /\ (o.crash => o.spec = "dca") /\ o.symbol \notin cooled
    BY <1>2, <1>4, <1>5
  <1>10. SoundBet(o.wallet, o.size) /\ o.size <= o.venue.depth * Cfg.poolShare
    BY <1>2, <1>6, <1>7
  <1> QED
    BY <1>1, <1>2, <1>8, <1>9, <1>10 DEF OrderOK

LEMMA ValidatesStep == Inv /\ Validates => Inv'
  <1> SUFFICES ASSUME Inv, Validates PROVE Inv'
    OBVIOUS
  <1>1. step = "validating" /\ UNCHANGED <<book, kept, owners>>
    BY DEF Validates
  <1>2. /\ CycleOK(cyc, cooled) /\ cyc.buys # << >> /\ SizeOK(cyc.wallet, cyc.size)
    BY <1>1 DEF Inv, Judged
  <1>3. PICK v \in Venues :
          IF ~Validated(v, cyc.size, Quote.priced) \/ Thin(v) THEN PassesOver
          ELSE IF copilot THEN order' = Order("proposal", v) /\ Finishes
          ELSE order' = Order("swap", v) /\ step' = "swapping" /\ UNCHANGED cyc
    BY DEF Validates
  <1>4. cooled' = cooled
    BY <1>1 DEF kept
  <1>5. step' \in Steps
    BY <1>3 DEF Steps, PassesOver, Finishes
  <1>6. Basic'
    BY <1>1, <1>5 DEF Inv, Basic, kept, owners
  <1>7. CASE PassesOver
    BY <1>2, <1>4, <1>6, <1>7, PassesOverStep
  <1>8. CASE Validated(v, cyc.size, Quote.priced) /\ order' = Order("proposal", v) /\ Finishes
    <2>1. OrderOK(Order("proposal", v), cooled) /\ Order("proposal", v).kind = "proposal"
      BY <1>2, <1>8, OrderIsSound
    <2>2. OrderOK(order', cooled') /\ order'.kind = "proposal"
      BY <1>4, <1>8, <2>1
    <2> QED
      BY <1>6, <1>8, <2>2, EndOfCycle DEF Finishes
  <1>9. CASE /\ Validated(v, cyc.size, Quote.priced) /\ order' = Order("swap", v)
             /\ step' = "swapping" /\ UNCHANGED cyc
    <2>1. OrderOK(Order("swap", v), cooled) /\ Order("swap", v).kind = "swap"
      BY <1>2, <1>9, OrderIsSound
    <2>2. OrderOK(order', cooled') /\ order'.kind = "swap"
      BY <1>4, <1>9, <2>1
    <2>3. CycleOK(cyc', cooled') /\ cyc'.buys # << >> /\ SizeOK(cyc'.wallet, cyc'.size)
      BY <1>2, <1>4, <1>9
    <2> QED
      BY <1>6, <1>9, <2>2, <2>3 DEF Inv, Judged
  <1> QED
    BY <1>3, <1>7, <1>8, <1>9

LEMMA SwapLandsStep == Inv /\ SwapLands => Inv'
  <1> SUFFICES ASSUME Inv, SwapLands PROVE Inv'
    OBVIOUS
  <1>1. CycleOK(cyc, cooled) /\ cyc.buys # << >>
    BY DEF Inv, Judged, SwapLands
  <1>2. Candidate.symbol \in Symbols
    BY <1>1, CandidateIs DEF Scored
  <1>3. Basic'
    BY <1>2 DEF Inv, Basic, Steps, SwapLands, Finishes, owners
  <1>4. OrderOK(order', cooled') /\ order'.kind = "none" /\ step' = "idle"
    BY DEF SwapLands, Finishes, OrderOK, NoOrder
  <1> QED
    BY <1>3, <1>4, EndOfCycle

LEMMA SwapFailsStep == Inv /\ SwapFails => Inv'
  <1> SUFFICES ASSUME Inv, SwapFails PROVE Inv'
    OBVIOUS
  <1>1. CycleOK(cyc, cooled) /\ cyc.buys # << >>
    BY DEF Inv, Judged, SwapFails
  <1>2. Candidate.symbol \in Symbols
    BY <1>1, CandidateIs DEF Scored
  <1>3. Basic'
    BY <1>2 DEF Inv, Basic, Steps, SwapFails, PassesOver, Finishes, owners
  <1>4. cooled' \subseteq cooled \cup {Candidate.symbol} /\ PassesOver
    BY DEF SwapFails
  <1> QED
    BY <1>1, <1>3, <1>4, PassesOverStep

LEMMA SwapRaisesStep == Inv /\ SwapRaises => Inv'
  <1> SUFFICES ASSUME Inv, SwapRaises PROVE Inv'
    OBVIOUS
  <1>1. CycleOK(cyc, cooled) /\ cyc.buys # << >>
    BY DEF Inv, Judged, SwapRaises
  <1>2. Candidate.symbol \in Symbols
    BY <1>1, CandidateIs DEF Scored
  <1>3. Basic'
    BY <1>2 DEF Inv, Basic, Steps, SwapRaises, Finishes, owners, kept
  <1>4. OrderOK(order', cooled') /\ order'.kind = "none" /\ step' = "idle"
    BY DEF SwapRaises, Finishes, OrderOK, NoOrder
  <1> QED
    BY <1>3, <1>4, EndOfCycle

\* The owner and the monitor leave the cycle alone.
LEMMA AsideStep ==
  ASSUME Inv, Basic', UNCHANGED <<cooled, step, cyc, order>>
  PROVE  Inv'
  BY DEF Inv, Judged

LEMMA set_copilotStep == Inv /\ set_copilot => Inv'
  <1> SUFFICES ASSUME Inv, set_copilot PROVE Inv'
    OBVIOUS
  <1>1. toggles' \in 0 .. Toggles
    BY TogglesAre DEF Inv, Basic, set_copilot
  <1>2. copilot' \in BOOLEAN
    BY DEF set_copilot
  <1>3. UNCHANGED <<sizePct, cooled, recent, book, step, cyc, order>>
    BY DEF set_copilot, kept
  <1>4. Basic'
    BY <1>1, <1>2, <1>3 DEF Inv, Basic
  <1> QED
    BY <1>3, <1>4, AsideStep

LEMMA PositionClosesStep == Inv /\ PositionCloses => Inv'
  <1> SUFFICES ASSUME Inv, PositionCloses PROVE Inv'
    OBVIOUS
  <1>1. Basic'
    BY DEF Inv, Basic, PositionCloses, kept, owners
  <1> QED
    BY <1>1, AsideStep DEF PositionCloses, kept

LEMMA CooldownLapsesStep == Inv /\ CooldownLapses => Inv'
  <1> SUFFICES ASSUME Inv, CooldownLapses PROVE Inv'
    OBVIOUS
  <1>1. cooled' \subseteq cooled /\ recent' \in BOOLEAN /\ step = "idle"
    BY DEF CooldownLapses, Inv, Basic
  <1>2. UNCHANGED <<sizePct, book, owners, step, cyc, order>>
    BY DEF CooldownLapses
  <1>3. Basic'
    BY <1>1, <1>2 DEF Inv, Basic, owners
  <1>4. OrderOK(order', cooled') /\ order'.kind # "swap"
    BY <1>1, <1>2 DEF Inv, OrderOK
  <1> QED
    BY <1>1, <1>2, <1>3, <1>4, EndOfCycle

LEMMA StutterStep == Inv /\ UNCHANGED vars => Inv'
  <1> SUFFICES ASSUME Inv, UNCHANGED vars PROVE Inv'
    OBVIOUS
  <1>1. Basic'
    BY DEF Inv, Basic, vars
  <1> QED
    BY <1>1, AsideStep DEF vars

LEMMA InvHolds == Spec => []Inv
  <1>1. Inv /\ [Next]_vars => Inv'
    BY ScanBeginsStep, GathersStep, JudgesStep, JudgeFailsStep, PicksStep, ConfirmsStep,
       ValidatesStep, SwapLandsStep, SwapFailsStep, SwapRaisesStep, set_copilotStep,
       PositionClosesStep, CooldownLapsesStep, StutterStep DEF Next
  <1> QED
    BY InitInv, <1>1, PTL DEF Spec

-----------------------------------------------------------------------------
(* The theorems *)

\* The variables keep their types; a cycle that goes on has left the regime in which nothing is
\* bought, has a token to buy and a size once it has one to confirm, and an order is a swap
\* exactly while run_cycle waits for one.
THEOREM Typed == Spec => []TypeOK
  <1>1. Inv => TypeOK
    BY DEF Inv, Basic, TypeOK, Steps, Judged, CycleOK, SizeOK
  <1> QED
    BY InvHolds, <1>1, PTL

\* Whatever the wallet, the settings, the score and the regime are, the bet of an order is at
\* least the floor, leaves 3 % of the stable, is within its share of the pool, and is at most
\* 1.15 times the owner's maximum, or the floor (position_size_usd and run_cycle).
THEOREM BetsAreBounded == Spec => []BetWithinBounds
  <1>1. Inv => BetWithinBounds
    BY DEF Inv, OrderOK, NoOrder, SoundBet, BetWithinBounds, Bet
  <1> QED
    BY InvHolds, <1>1, PTL

\* With BTC known to be down 5 % only rebounds are ordered, for any markets and any number of
\* tokens: a rebound can be the strongest candidate in PANIC alone, which takes one candidate.
THEOREM CrashBuysRebounds == Spec => []CrashOnlyRebounds
  <1>1. Inv => CrashOnlyRebounds
    BY DEF Inv, OrderOK, NoOrder, CrashOnlyRebounds
  <1> QED
    BY InvHolds, <1>1, PTL

\* With the oracle's divergence as config.json has it, or below, the two quoted legs of an order
\* that CMC gives a price for give back 94.6 % of the money.
THEOREM LegsAreCovered ==
  ASSUME Cfg.divergence <= 25
  PROVE  Spec => []LegsCovered
  <1>1. Inv => LegsCovered
    BY DEF Inv, OrderOK, NoOrder, LegsOK, PaysBack, LegsCovered
  <1> QED
    BY InvHolds, <1>1, PTL

\* A token whose swap has come back as failed is in no order before its cooldown lapses: the candidates of a
\* cycle are different tokens, so the next one tried is never the one that failed.
THEOREM FailedAreLeftAlone == Spec => []FailedStaysOff
  <1>1. Inv => FailedStaysOff
    BY DEF Inv, OrderOK, NoOrder, FailedStaysOff
  <1> QED
    BY InvHolds, <1>1, PTL
=============================================================================
