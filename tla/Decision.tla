------------------------------ MODULE Decision ------------------------------
(***************************************************************************)
(* How a scan cycle comes to an order: the readings it gathers, the        *)
(* strategies they trigger, the brain's score of the strongest candidates, *)
(* the confluence gate, the size of the bet, Filter 2, and the order: a    *)
(* swap, or a proposal to the owner when co-pilot is on.                   *)
(*                                                                         *)
(* Every await of run_cycle ends an action, because the owner's commands   *)
(* and the monitor run there. The checks the cycle makes before it looks   *)
(* for an entry are in Agent and in CircuitBreaker.                        *)
(***************************************************************************)
EXTENDS OnChain, Brain, Signals

CONSTANTS
  Universe,    \* the tokens, in the order of the cycle's universe
  Focus,       \* the tokens of the owner's basket; the others are movers
  Markets,     \* the quotes there are: functions from some of Symbols
  Answers,     \* which of the feeds answer
  Macros,      \* the macro readings: btc, fng, drift, funding, depeg
  Wallets,     \* the accepted readings of the wallet: equity and stable, in cents
  Sizes,       \* the bet sizes the owner may have set
  Scores,      \* the confidence scores the brain may answer
  Charts,      \* the candles the market data host may answer
  Venues,      \* the answers of the chain and of the aggregator
  Toggles      \* bound: how often the owner switches co-pilot

Symbols == {Universe[i] : i \in DOMAIN Universe}

ASSUME DecisionAssumption ==
  /\ Focus \subseteq Symbols /\ Answers \subseteq Feeds
  /\ Scores \subseteq 0 .. 100 /\ Sizes \subseteq 0 .. 10000 /\ Toggles \in Nat
  /\ \A w \in Wallets : w.equity \in Nat /\ w.stable \in Nat
  \* dict.fromkeys: no token twice
  /\ Universe \in Seq(Symbols) /\ \A i, j \in DOMAIN Universe : Universe[i] = Universe[j] => i = j
  /\ \A q \in Markets : DOMAIN q \subseteq Symbols /\ \A s \in DOMAIN q : IsQuote(q[s])
  /\ \A m \in Macros : /\ m.drift \in Int
                       /\ \A r \in {m.btc, m.fng, m.funding, m.depeg} : IsReading(r)
  /\ \A v \in Venues : {v.depth, v.buy, v.sell} \subseteq Nat

VARIABLES
  copilot,   \* _copilot
  sizePct,   \* position_size_pct
  book,      \* the symbols of positions
  cooled,    \* _exec_cooldown: the symbols that are off the radar
  recent,    \* the last trade is younger than trade_cooldown_seconds
  step,      \* where run_cycle waits
  cyc,       \* its local variables
  order,     \* the order it has just given
  toggles    \* how often co-pilot was switched
vars == <<copilot, sizePct, book, cooled, recent, step, cyc, order, toggles>>

Steps == {"idle", "gathering", "judging", "picking", "confirming", "validating", "swapping"}
NoCycle == [wallet |-> [equity |-> 0, stable |-> 0]]
NoOrder == [kind |-> "none"]

\* Type invariant.
TypeOK ==
  /\ copilot \in BOOLEAN /\ sizePct \in Sizes /\ recent \in BOOLEAN
  /\ book \subseteq Symbols /\ cooled \subseteq Symbols
  /\ step \in Steps /\ toggles \in 0 .. Toggles
  /\ step \in {"idle", "gathering"} \/ cyc.posture.label # "RISK_OFF"
  /\ step \in {"confirming", "validating", "swapping"} => cyc.buys # <<>>
  /\ step \in {"validating", "swapping"} => cyc.size \in Nat
  /\ (order.kind = "swap") <=> (step = "swapping")

Init ==
  /\ copilot \in BOOLEAN /\ sizePct \in Sizes /\ toggles = 0
  /\ book = {} /\ cooled = {} /\ recent = FALSE
  /\ step = "idle" /\ cyc = NoCycle /\ order = NoOrder

kept == <<sizePct, cooled, recent>>
owners == <<copilot, toggles>>

(***************************************************************************)
(* The readings, and who may be a candidate.                               *)
(***************************************************************************)
Finishes == step' = "idle" /\ cyc' = NoCycle

\* An accepted reading of the wallet; the order of the cycle before is history.
ScanBegins ==
  /\ step = "idle"
  /\ \E w \in Wallets : cyc' = [wallet |-> w]
  /\ step' = "gathering" /\ order' = NoOrder
  /\ UNCHANGED <<book, kept, owners>>

\* The strategy a token's numbers trigger; a token in execution cooldown is passed over.
\* mutant: the cooldown of a failed swap is forgotten
EverythingTriggers(market, m, s) == select_strategy(m.fng, market[s], m.btc, copilot)
Triggered(market, m, s) ==
  IF s \in cooled THEN "none" ELSE select_strategy(m.fng, market[s], m.btc, copilot)

\* The place of the nth strongest; those of the same strength keep their order.
Before(strength, i) ==
  {j \in DOMAIN strength : strength[j] > strength[i] \/ (strength[j] = strength[i] /\ j < i)}
Place(strength, n) == CHOOSE i \in DOMAIN strength : Cardinality(Before(strength, i)) = n - 1

\* The candidates, the strongest first. A strategy whose expectancy turned negative would be
\* left out here, but no closed trade carries the name of its strategy.
Fired(market, m, posture) ==
  LET Trigger(s) == Triggered(market, m, s)
      Fires(s) == s \in DOMAIN market /\ Trigger(s) # "none"
                  /\ (copilot \/ Trigger(s) \in posture.allowed)
      strength == [i \in {i \in DOMAIN Universe : Fires(Universe[i])} |->
                     setup_strength(Trigger(Universe[i]), market[Universe[i]])]
      Nth(n) == Universe[Place(strength, n)]
  IN [n \in 1 .. Cardinality(DOMAIN strength) |-> [symbol |-> Nth(n), spec |-> Trigger(Nth(n))]]
TopK(posture) ==
  CASE posture.label = "BULL" -> 3 [] posture.label = "NEUTRAL" -> 2 [] OTHER -> 1

\* The trade stable off its peg, or BTC down 5 % unless the strongest candidate is a rebound.
\* mutant: a crash blocks nothing
OnlyDepegBlocks(m, fired) == \E d \in m.depeg : Cfg.depeg > 0 /\ d >= Cfg.depeg
Blocked(m, fired) ==
  \/ \E d \in m.depeg : Cfg.depeg > 0 /\ d >= Cfg.depeg
  \/ (\E x \in m.btc : x <= -50) /\ ~(fired # <<>> /\ fired[1].spec = "dca")

Gathers ==
  /\ step = "gathering"
  /\ \E quoted \in Markets, told \in Macros, feed \in Answers :
       LET market == Gathered(quoted, Focus, feed)
           m == gather_macro(told, feed)
           posture == regime_posture(m.fng, m.btc, m.funding)
           fired == Fired(market, m, posture)
           gate == can_open_position(cyc.wallet.equity, cyc.wallet.stable, Cardinality(book),
                                     posture, recent)
       IN IF DOMAIN market # {} /\ gate /\ ~Blocked(m, fired) /\ fired # <<>>
          THEN /\ step' = "judging"
               /\ cyc' = [wallet |-> cyc.wallet, market |-> market, posture |-> posture,
                          adjust |-> CutAdjust(m), crash |-> \E x \in m.btc : x <= -50,
                          fired |-> SubSeq(fired, 1, Least(TopK(posture), Len(fired))),
                          buys |-> <<>>]
          ELSE Finishes
  /\ UNCHANGED <<book, kept, owners, order>>

(***************************************************************************)
(* The brain.                                                              *)
(***************************************************************************)
\* Best score first, equal scores in the order in which they were judged.
Insert(v, buys) ==
  LET better == {i \in 1 .. Len(buys) : buys[i].score >= v.score}
  IN SubSeq(buys, 1, Cardinality(better)) \o <<v>>
     \o SubSeq(buys, Cardinality(better) + 1, Len(buys))

\* The brain answers a score, or nothing that can be read. After the last candidate, or after a
\* clearly strong one, the book is read for the tokens held.
Judges ==
  /\ step = "judging"
  /\ \E answer \in {{x} : x \in Scores} \cup {{}} :
       LET c == Head(cyc.fired)
           cut == effective_cut(cyc.market[c.symbol], IF c.spec = "momentum" THEN cyc.adjust ELSE 0,
                                c.spec)
           score == Score(answer)
           isBuy == IsBuy(answer, cut)
           v == [symbol |-> c.symbol, spec |-> c.spec, score |-> score, isBuy |-> isBuy]
           buys == IF isBuy \/ (copilot /\ score >= 20) THEN Insert(v, cyc.buys) ELSE cyc.buys
           last == Len(cyc.fired) = 1 \/ (isBuy /\ score >= 78)
       IN CASE last /\ buys = <<>> -> Finishes
            [] last /\ buys # <<>> ->
                 /\ step' = "picking"
                 /\ cyc' = [wallet |-> cyc.wallet, market |-> cyc.market, posture |-> cyc.posture,
                            crash |-> cyc.crash, buys |-> buys, held |-> book]
            [] OTHER -> /\ cyc' = [cyc EXCEPT !.fired = Tail(@), !.buys = buys]
                        /\ UNCHANGED step
  /\ UNCHANGED <<book, kept, owners, order>>

\* The call to the model raises: the cycle is lost, the candidates it has found included.
JudgeFails ==
  /\ step = "judging" /\ Finishes
  /\ UNCHANGED <<book, kept, owners, order>>

(***************************************************************************)
(* The order.                                                              *)
(***************************************************************************)
Candidate == Head(cyc.buys)
Quote == cyc.market[Candidate.symbol]
Change24h == OrElse(Quote.p24, 0)

\* On to the next candidate, if there is one.
\* mutant: the failed order stays on the books of the cycle
KeepsOrder ==
  /\ UNCHANGED order
  /\ IF Len(cyc.buys) = 1 THEN Finishes
     ELSE step' = "picking" /\ cyc' = [cyc EXCEPT !.buys = Tail(@)]
PassesOver ==
  /\ order' = NoOrder
  /\ IF Len(cyc.buys) = 1 THEN Finishes
     ELSE /\ step' = "picking"
          /\ cyc' = [f \in DOMAIN cyc \ {"size"} |->
                       IF f = "buys" THEN Tail(cyc.buys) ELSE cyc[f]]

Overextended == Candidate.spec = "momentum" /\ Change24h > Cfg.maxEntry24h
Picks ==
  /\ step = "picking"
  /\ IF Candidate.symbol \in cyc.held \/ (Overextended /\ ~copilot)
     THEN PassesOver
     ELSE step' = "confirming" /\ UNCHANGED <<cyc, order>>
  /\ UNCHANGED <<book, kept, owners>>

\* The confluence gate, per set of candles and label of the regime; fewer than 30 candles give
\* no opinion.
Labels == {"RISK_OFF", "DEFENSIVE", "NEUTRAL", "BULL"}
Opinion == [k \in Charts |-> [macro \in Labels |->
  IF Len(k) < 30 THEN "none" ELSE evaluate_confluence(compute_indicators(k), macro).decision]]

\* In co-pilot the owner's size; else the size grown by conviction, and cut by overextension,
\* by the regime and by a lukewarm confluence.
BetPct(opinion) ==
  LET bold == conviction_size_pct(sizePct, Candidate.score)
      young == IF Candidate.spec = "momentum" THEN (bold * overextension_factor(Change24h)) \div 100
               ELSE bold
      fitted == (young * cyc.posture.mult) \div 100
  IN IF copilot THEN Least(sizePct, Cfg.maxPosition)
     ELSE CASE opinion = "ENTER" -> (fitted * 115) \div 100
            [] opinion = "WAIT" -> (fitted * 75) \div 100
            [] OTHER -> fitted

Confirms ==
  /\ step = "confirming"
  /\ \E k \in Charts :
       LET opinion == Opinion[k][macro_label(cyc.posture.mult)]
       IN IF opinion = "AVOID" THEN PassesOver
          ELSE /\ step' = "validating"
               /\ cyc' = [f \in DOMAIN cyc \cup {"size"} |->
                            IF f = "size" THEN position_size_usd(cyc.wallet.equity, cyc.wallet.stable,
                                                                 BetPct(opinion))
                            ELSE cyc[f]]
               /\ UNCHANGED order
  /\ UNCHANGED <<book, kept, owners>>

\* A mover must be quoted with less impact than a token of the basket.
Thin(v) == Candidate.symbol \notin Focus /\ Slippage(v) > Cfg.moverImpact

Order(kind, v) ==
  [kind |-> kind, symbol |-> Candidate.symbol, spec |-> Candidate.spec, isBuy |-> Candidate.isBuy,
   size |-> cyc.size, venue |-> v, priced |-> Quote.priced, wallet |-> cyc.wallet,
   crash |-> cyc.crash, allowed |-> Candidate.spec \in cyc.posture.allowed]

\* Filter 2 answered: a proposal ends the cycle, a swap goes out.
Validates ==
  /\ step = "validating"
  /\ \E v \in Venues :
       IF ~Validated(v, cyc.size, Quote.priced) \/ Thin(v) THEN PassesOver
       ELSE IF copilot THEN order' = Order("proposal", v) /\ Finishes
       ELSE order' = Order("swap", v) /\ step' = "swapping" /\ UNCHANGED cyc
  /\ UNCHANGED <<book, kept, owners>>

SwapLands ==
  /\ step = "swapping"
  /\ book' = book \cup {Candidate.symbol} /\ recent' = TRUE
  /\ order' = NoOrder /\ Finishes
  /\ UNCHANGED <<sizePct, cooled, owners>>

\* Two hours off the radar, and the next candidate.
SwapFails ==
  /\ step = "swapping"
  /\ cooled' = cooled \cup {Candidate.symbol}
  /\ PassesOver
  /\ UNCHANGED <<book, sizePct, recent, owners>>

\* Anything but a TwakError comes out of _open and ends the cycle, without a cooldown; a swap
\* that landed all the same is imported into the book when the next begins (_import_orphans).
SwapRaises ==
  /\ step = "swapping"
  /\ book' \in {book, book \cup {Candidate.symbol}}
  /\ order' = NoOrder /\ Finishes
  /\ UNCHANGED <<kept, owners>>

(***************************************************************************)
(* The owner, the monitor and time.                                        *)
(***************************************************************************)
set_copilot ==
  /\ toggles < Toggles /\ toggles' = toggles + 1
  /\ copilot' = ~copilot
  /\ UNCHANGED <<kept, book, step, cyc, order>>

PositionCloses ==
  /\ \E s \in book : book' = book \ {s}
  /\ UNCHANGED <<kept, owners, step, cyc, order>>

\* The two cooldowns are read at the start of a cycle only, so they lapse between two cycles.
CooldownLapses ==
  /\ step = "idle"
  /\ \/ recent /\ recent' = FALSE /\ UNCHANGED cooled
     \/ (\E s \in cooled : cooled' = cooled \ {s}) /\ UNCHANGED recent
  /\ UNCHANGED <<sizePct, book, owners, step, cyc, order>>

(***************************************************************************)
(* The properties.                                                         *)
(***************************************************************************)
Bet == order.size

\* A bet that reaches the chain or the owner is never below the floor, leaves 3 % of the stable
\* the cycle has read, stays within its share of the pool, and is at most 1.15 times the owner's
\* maximum (or the floor): the multipliers of conviction, overextension, regime and confluence
\* never carry it further.
BetWithinBounds == order.kind # "none" =>
  /\ Bet >= Cfg.floor
  /\ 100 * Bet <= 97 * order.wallet.stable
  /\ Bet <= order.venue.depth * Cfg.poolShare
  /\ Bet <= Most(Cfg.floor, (order.wallet.equity * ((115 * Cfg.maxPosition) \div 100)) \div 10000)

\* With BTC known to be down 5 % in a day the only tokens that are bought are rebounds, although the gate
\* looks at the strategy of the strongest candidate alone.
CrashOnlyRebounds == order.kind # "none" /\ order.crash => order.spec = "dca"

\* Where CMC gives a price, the two quoted legs together give back at least 94.6 % of the money,
\* although Filter 2 never quotes the sale of the tokens it would buy.
LegsCovered ==
  order.kind # "none" /\ order.priced => order.venue.buy * order.venue.sell >= 946000

\* A token whose swap has come back as failed is not swapped again before its two hours are over, neither in the
\* same cycle, where the next candidate is tried, nor in a later one.
FailedStaysOff == order.kind # "none" => order.symbol \notin cooled

Next == \/ ScanBegins \/ Gathers \/ Judges \/ JudgeFails \/ Picks \/ Confirms \/ Validates
        \/ SwapLands \/ SwapFails \/ SwapRaises
        \/ set_copilot \/ PositionCloses \/ CooldownLapses

Spec == Init /\ [][Next]_vars
=============================================================================
