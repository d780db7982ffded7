---------------------------- MODULE PositionExit ----------------------------
(***************************************************************************)
(* The life of one open position under the monitor: check_positions of     *)
(* boomerang/agent.py with its guard against noisy ticks, the exit rules   *)
(* of RiskEngine.evaluate_position, the saved copy of the position and the *)
(* restarts that restore it.                                               *)
(*                                                                         *)
(* Prices are integers.  Percentages are in hundredths of a percent (Whole *)
(* is 100 %) and a stop is kept Whole times its price, so that the rules   *)
(* are exact.  One pass of the monitor over the position is one step: no   *)
(* other task writes the fields it works on.                               *)
(***************************************************************************)
EXTENDS Integers

CONSTANTS
  Prices,        \* the on-chain prices of the run
  Entries,       \* the prices the position may be opened at
  Specs,         \* the exit parameters of the strategies (StrategySpec)
  UserConfigs,   \* what the owner may configure: [stop, target]
  TrailTrigger,  \* dev_safety.trailing_stop_trigger_pct
  StaleBand,     \* dev_safety.stale_pnl_band_pct
  MaxJump        \* dev_safety.monitor_max_tick_jump_pct

Whole == 10000
Percent == 0 .. Whole - 1

\* The exit parameters a Position carries; 0 falls back to the configuration.
\* A trigger is more than 0.01 %, so that half of it is still a gain.
ExitSpec == [stop : Percent, target : Nat, trigger : Nat \ {1}, trail : Percent, band : Nat]

ASSUME ExitAssumption ==
  /\ Prices \subseteq Nat \ {0}
  /\ Entries \subseteq Prices
  /\ Specs \subseteq ExitSpec
  /\ UserConfigs \subseteq [stop : Percent \ {0}, target : Nat]
  /\ TrailTrigger \in Nat \ {0, 1}
  /\ StaleBand \in Nat
  /\ MaxJump \in Nat

Imported == [stop |-> 0, target |-> 0, trigger |-> 0, trail |-> 0, band |-> 0]
Manual(u) == [stop |-> u.stop, target |-> u.target, trigger |-> 0, trail |-> 0, band |-> 0]

VARIABLES
  spec,     \* the exit parameters of the position
  entry,    \* pos.entry_price
  pos,      \* what the monitor writes: stop_loss_price, trailing_active, peak_price, last_price
  disk,     \* the same fields in the state file
  status,   \* "held", or the reason it was sold for
  market,   \* the price on chain
  greedy,   \* self._extreme_greed
  due,      \* the time-stop of the position has run out
  user      \* self._cfg.user
vars == <<spec, entry, pos, disk, status, market, greedy, due, user>>

Exits == {"profit", "stopped", "stale", "brain"}
Watched == [stop : Nat, active : BOOLEAN, peak : Prices, last : Prices \cup {0}]

\* Type invariant: prices are real prices, the stop is never negative.
TypeOK ==
  /\ spec \in ExitSpec
  /\ entry \in Entries
  /\ pos \in Watched /\ disk \in Watched
  /\ status \in {"held"} \cup Exits
  /\ market \in Prices
  /\ greedy \in BOOLEAN /\ due \in BOOLEAN
  /\ user \in UserConfigs

-----------------------------------------------------------------------------
(* The exit rules *)

Higher(x, y) == IF x >= y THEN x ELSE y
Apart(x, y) == IF x >= y THEN x - y ELSE y - x
Gained(price, pct) == price * Whole >= entry * (Whole + pct)   \* pct above the entry

StopPct == IF spec.stop > 0 THEN spec.stop ELSE user.stop
Target == IF spec.target > 0 THEN spec.target ELSE IF spec.stop > 0 THEN 0 ELSE user.target
\* Extreme greed halves the trigger and follows closer, but never closer than 0.5 %.
Trigger == LET t == IF spec.trigger > 0 THEN spec.trigger ELSE TrailTrigger
           IN IF greedy THEN t \div 2 ELSE t
Trail == LET d == IF spec.trail > 0 THEN spec.trail ELSE StopPct
         IN IF greedy THEN Higher((d * 6) \div 10, 50) ELSE d
Dead == IF spec.band > 0 THEN spec.band ELSE StaleBand

TakesProfit(price) == Target > 0 /\ Gained(price, Target)

HastyTrailed(price) ==   \* mutant: arming the trailing forgets the break-even
  LET peak == Higher(pos.peak, price)
      active == pos.active \/ Gained(price, Trigger)
  IN IF TakesProfit(price) THEN [pos EXCEPT !.peak = peak, !.last = price]
     ELSE [stop |-> IF active THEN Higher(pos.stop, peak * (Whole - Trail)) ELSE pos.stop,
           active |-> active, peak |-> peak, last |-> price]
TightTrailed(price) ==   \* mutant: the distance to the peak is forgotten
  LET peak == Higher(pos.peak, price)
      active == pos.active \/ Gained(price, Trigger)
  IN IF TakesProfit(price) THEN [pos EXCEPT !.peak = peak, !.last = price]
     ELSE [stop |-> IF active THEN peak * Whole ELSE pos.stop,
           active |-> active, peak |-> peak, last |-> price]

\* What evaluate_position leaves in the position: the peak, and past the trigger the
\* break-even and the stop that follows the peak; taking the profit returns earlier.
Trailed(price) ==
  LET peak == Higher(pos.peak, price)
      arms == ~pos.active /\ Gained(price, Trigger)
      active == pos.active \/ arms
      even == IF arms THEN Higher(pos.stop, entry * Whole) ELSE pos.stop
  IN IF TakesProfit(price) THEN [pos EXCEPT !.peak = peak, !.last = price]
     ELSE [stop |-> IF active THEN Higher(even, peak * (Whole - Trail)) ELSE even,
           active |-> active, peak |-> peak, last |-> price]

Stopped(p) == p.stop > 0 /\ p.last * Whole <= p.stop
TimedOut(p) == ~p.active /\ due /\ Apart(p.last, entry) * Whole <= Dead * entry
\* The ExitSignal of a tick, in the order the rules are asked.
Signal(price) == IF TakesProfit(price) THEN "profit"
                 ELSE IF Stopped(Trailed(price)) THEN "stopped"
                 ELSE IF TimedOut(Trailed(price)) THEN "stale" ELSE "hold"

-----------------------------------------------------------------------------
(* The monitor *)

DeafJumps(price) == pos.last > 0 /\ price < pos.last     \* mutant: no falling tick is believed
\* A tick too far from the last one that was believed is taken for noise.
Jumps(price) == pos.last > 0 /\ Apart(price, pos.last) * Whole > MaxJump * pos.last

\* The sale that the rules ask for; when they hold, the brain may ask for one.
TickSells(price) ==
  /\ status = "held" /\ ~Jumps(price)
  /\ pos' = Trailed(price)
  /\ status' = IF Signal(price) = "hold" THEN "brain" ELSE Signal(price)
  /\ UNCHANGED <<spec, entry, disk, market, greedy, due, user>>

\* The rules and the brain hold it, or the sale fails and it stays tracked.
TickKeeps(price) ==
  /\ status = "held" /\ ~Jumps(price)
  /\ pos' = Trailed(price)
  /\ UNCHANGED <<spec, entry, disk, status, market, greedy, due, user>>

\* Any task that saves the state writes the position as it is at that moment.
Save ==
  /\ status = "held"
  /\ disk' = pos
  /\ UNCHANGED <<spec, entry, pos, status, market, greedy, due, user>>

\* The process dies and restores the position from the file; the greed is forgotten.
Restart ==
  /\ status = "held"
  /\ pos' = disk
  /\ greedy' = FALSE
  /\ UNCHANGED <<spec, entry, disk, status, market, due, user>>

-----------------------------------------------------------------------------
(* Its surroundings *)

MarketMoves ==
  /\ market' \in Prices
  /\ UNCHANGED <<spec, entry, pos, disk, status, greedy, due, user>>

MoodTurns ==
  /\ greedy' = ~greedy
  /\ UNCHANGED <<spec, entry, pos, disk, status, market, due, user>>

TimePasses ==
  /\ due' = TRUE
  /\ UNCHANGED <<spec, entry, pos, disk, status, market, greedy, user>>

Configure ==
  /\ user' \in UserConfigs
  /\ UNCHANGED <<spec, entry, pos, disk, status, market, greedy, due>>

FlatOpened(s, e, u) ==   \* mutant: the peak does not start at the entry
  [stop |-> e * (Whole - (IF s = Imported THEN u.stop ELSE s.stop)),
   active |-> FALSE, peak |-> 0, last |-> 0]

\* Opened by a strategy, bought by the owner or imported from the wallet; _open and the
\* import save it.  A strategy without a stop opens with stop_loss_price 0.
Opened(s, e, u) ==
  [stop |-> IF s = Imported THEN e * (Whole - u.stop)
            ELSE IF s.stop > 0 THEN e * (Whole - s.stop) ELSE 0,
   active |-> FALSE, peak |-> e, last |-> 0]

Init ==
  /\ user \in UserConfigs
  /\ spec \in Specs \cup {Imported, Manual(user)}
  /\ entry \in Entries
  /\ pos = Opened(spec, entry, user)
  /\ disk = pos
  /\ status = "held"
  /\ market \in Prices
  /\ greedy \in BOOLEAN
  /\ due = FALSE

\* The tick is what the pool quotes, or a noisy read of it.
Next ==
  \/ \E price \in Prices : TickSells(price) \/ TickKeeps(price)
  \/ Save
  \/ Restart
  \/ MarketMoves
  \/ MoodTurns
  \/ TimePasses
  \/ Configure

Spec == Init /\ [][Next]_vars

\* The monitor ticks every 2 s, most reads are clean, and a sale that the rules ask for
\* again at every tick goes through at last.
CleanExit == Signal(market) # "hold" /\ TickSells(market)
FairSpec == Spec /\ WF_vars(CleanExit)

-----------------------------------------------------------------------------
(* Safety *)

\* Once the trailing is armed, the stop never lies below the entry: whatever the prices,
\* the mood, the configuration, failed sales and restarts, the profit is locked.
BreakEvenLocked == pos.active => pos.stop >= entry * Whole

\* A position is not stopped out on its way up: the tick that makes a new high never meets
\* the stop that the same tick raises.
NewHighNotStopped ==
  [][status' = "stopped" /\ status = "held" => pos'.last < pos'.peak]_vars

-----------------------------------------------------------------------------
(* Liveness *)

\* The market is within the limit of the last read that was believed.
Near == pos.last > 0 => Apart(market, pos.last) * Whole <= MaxJump * pos.last

\* The stop is honoured (check_positions): a position whose price stays at or below it, and comes
\* back within the limit of the last read that was believed, does not stay open, whatever the
\* monitor took for noise before.
StopHonoured == []<>~(status = "held" /\ market * Whole <= pos.stop /\ Near)
=============================================================================
