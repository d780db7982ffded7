--------------------------- MODULE CircuitBreaker ---------------------------
(***************************************************************************)
(* How Boomerang measures its equity and what the circuit breaker makes of *)
(* it: the wallet is read one balance at a time in a worker thread while   *)
(* swaps land and prices move; a reading that the guard accepts raises the *)
(* peak and the anchor of the day and may trip a limit; a restart restores *)
(* the peak from the state file.                                           *)
(*                                                                         *)
(* A position is one lot of its token.  Which command a task serves, which *)
(* candidate it picks and how the loops are cancelled is in Agent.         *)
(***************************************************************************)
EXTENDS Integers, Sequences, FiniteSetsExt

CONSTANTS
  Tokens,         \* the tokens that may be held
  Prices,         \* what a lot of a token may be worth, in USD
  Gas, Cash,      \* the BNB of the wallet (never traded), and its stables at the start
  ReadOrder,      \* the order wallet_breakdown reads the wallet in
  SafetyPct,      \* hackathon.global_drawdown_safety_pct
  DailyPct,       \* dev_safety.daily_loss_cap_pct
  MaxPositions,   \* dev_safety.max_concurrent_positions
  MaxFaults,      \* bound: failed reads and crashes
  MaxCommands,    \* bound: /buy and /reiniciar
  MaxTrades,      \* bound: swaps that are begun
  MaxMoves,       \* bound: moves of a price
  MaxDays         \* bound: midnights

Assets == {"cash"} \cup Tokens
NoDay == -1
NoTrade == [stage |-> "none"]

ASSUME BreakerAssumption ==
  /\ Prices \subseteq Nat \ {0} /\ Prices # {}
  /\ "cash" \notin Tokens
  /\ {Gas, Cash, MaxPositions, MaxFaults, MaxCommands, MaxTrades, MaxMoves, MaxDays} \subseteq Nat
  /\ SafetyPct \in 0 .. 100 /\ DailyPct \in 0 .. 100
  /\ ReadOrder \in Seq(Assets) /\ {ReadOrder[i] : i \in 1 .. Len(ReadOrder)} = Assets
  \* No balance is read twice: the list of tokens leaves the stables out.
  /\ \A i, j \in 1 .. Len(ReadOrder) : ReadOrder[i] = ReadOrder[j] => i = j

VARIABLES
  cash,       \* the stables on chain
  wallet,     \* the tokens on chain
  price,      \* what a lot of each is worth
  book,       \* the tokens of self.positions
  mode,       \* self.state: "TRADING" for SCANNING and IN_POSITION, or "HALTED"
  loops,      \* the loops are running
  disk,       \* the state file: [mode, peak, book]
  peak,       \* _peak_equity
  anchor,     \* _day_anchor_equity
  anchorDay,  \* _day_anchor_idx
  seen,       \* the stables of _last_holdings
  task,       \* the scan loop and the owner's command: where they are and what they read
  trade,      \* the swap under way
  day,        \* the UTC day
  spent       \* what has been used of the bounds
chain == <<cash, wallet, price>>
engine == <<peak, anchor, anchorDay>>
clock == <<day, spent>>
vars == <<chain, book, mode, loops, disk, engine, seen, task, trade, clock>>

\* A task: the balance its reading has come to, the sum and the holdings so far, the day it
\* began on, and `quiet`: every lot was tracked when it began, nothing has changed since and
\* the stables were read (history).  Then the equity and the flag, and for the
\* gate the stables.
Rest == [pc |-> "rest", at |-> 1, sum |-> 0, cash |-> 0, priced |-> {}, quiet |-> FALSE,
         equity |-> 0, reliable |-> FALSE, day |-> 0]
Readers == {"scan", "owner"}

\* Type invariant.
TypeOK ==
  /\ cash \in Nat /\ wallet \subseteq Tokens /\ price \in [Tokens -> Prices]
  /\ loops \in BOOLEAN
  /\ book \subseteq Tokens /\ mode \in {"TRADING", "HALTED"}
  /\ disk \in [mode : {"TRADING", "HALTED"}, peak : Nat, book : SUBSET Tokens]
  /\ {peak, anchor, seen} \subseteq Nat
  /\ anchorDay \in 0 .. MaxDays \cup {NoDay} /\ day \in 0 .. MaxDays
  /\ task \in [Readers ->
       [pc : {"rest", "reading", "read", "checking", "deciding", "trading",
              "rebasing", "announcing"},
        at : 1 .. Len(ReadOrder) + 1, sum : Nat, cash : Nat, priced : SUBSET Assets,
        quiet : BOOLEAN, equity : Nat, reliable : BOOLEAN, day : 0 .. MaxDays]]
  /\ trade = NoTrade \/
     trade \in [stage : {"sent", "landed"}, by : {"scan", "monitor", "owner", "nobody"},
                token : Tokens, side : {"buy", "sell"}]
  /\ spent \in [faults : 0 .. MaxFaults, commands : 0 .. MaxCommands, trades : 0 .. MaxTrades,
                moves : 0 .. MaxMoves]

-----------------------------------------------------------------------------
(* The wallet *)

Value(a) == IF a = "cash" THEN cash ELSE IF a \in wallet THEN price[a] ELSE 0
Total(S) == Gas + SumFunction([a \in S |-> Value(a)])
Worth == Total(Assets)

\* What the wallet_breakdown of a task still reads is not what it began with any more.
Disturb(t) == [r \in Readers |-> [t[r] EXCEPT !.quiet = FALSE]]
Use(bound) == [spent EXCEPT ![bound] = @ + 1]

-----------------------------------------------------------------------------
(* The engine *)

\* A drop of pct or more from base; the limit trips at its very edge.
Down(e, base, pct) == base > 0 /\ e * 100 <= base * (100 - pct)
DayLost(e) == DailyPct > 0 /\ Down(e, anchor, DailyPct)

\* update_equity: a new peak, and the opening equity of a new day.
Update(e, d) ==
  /\ peak' = IF e > peak THEN e ELSE peak
  /\ IF d # anchorDay THEN anchorDay' = d /\ anchor' = e
                      ELSE UNCHANGED <<anchorDay, anchor>>

-----------------------------------------------------------------------------
(* Reading the equity, one balance at a time *)

Begin(x) ==
  task' = [task EXCEPT ![x] = [Rest EXCEPT !.pc = "reading", !.day = day, !.sum = Gas,
                                 !.quiet = book = wallet /\ trade = NoTrade]]

\* A balance, or its price, is read; if that fails it is logged and left out of the sum.
ReadBalance(x) ==
  LET r == task[x]  a == ReadOrder[r.at] IN
  /\ r.pc = "reading" /\ r.at <= Len(ReadOrder)
  /\ \/ /\ task' = [task EXCEPT ![x] =
                      [r EXCEPT !.at = @ + 1, !.sum = @ + Value(a),
                                !.cash = IF a = "cash" THEN cash ELSE @,
                                !.priced = IF Value(a) > 0 THEN @ \cup {a} ELSE @]]
        /\ UNCHANGED spent
     \/ /\ spent.faults < MaxFaults /\ spent' = Use("faults")
        /\ task' = [task EXCEPT ![x].at = @ + 1, ![x].quiet = @ /\ a \in Tokens]
  /\ UNCHANGED <<chain, book, mode, loops, disk, engine, seen, trade, day>>

CarelessReliable(r) == r.priced # {}                     \* mutant: any balance will do
FlatReliable(r) == book # {} /\ book \subseteq r.priced   \* mutant: no position, no reading
\* equity_reading_reliable: every open position was priced.
Reliable(r) == book \subseteq r.priced

\* The thread ends; a wallet that reads as nothing is asked of the TWAK portfolio instead.
ReadEnds(x) ==
  LET r == task[x] IN
  /\ r.pc = "reading" /\ r.at > Len(ReadOrder)
  /\ task' = [task EXCEPT ![x] =
                 [Rest EXCEPT !.pc = "read", !.quiet = r.quiet, !.day = r.day,
                              !.equity = IF r.sum > 0 THEN r.sum ELSE Worth,
                              !.reliable = r.sum = 0 \/ Reliable(r)]]
  /\ seen' = IF r.sum > 0 THEN r.cash ELSE seen
  /\ UNCHANGED <<chain, book, mode, loops, disk, engine, trade, clock>>

-----------------------------------------------------------------------------
(* Swaps: one at a time, the others wait for the mutex (in Agent: for ever) *)

Idle(x) == [task EXCEPT ![x] = Rest]
Goes(by) == IF by \in Readers THEN [task EXCEPT ![by] = [Rest EXCEPT !.pc = "trading"]] ELSE task
Returns(by) == IF by \in Readers THEN Idle(by) ELSE task

SwapBegins(by, t, side) ==
  /\ trade = NoTrade /\ spent.trades < MaxTrades
  /\ spent' = Use("trades")
  /\ trade' = [stage |-> "sent", by |-> by, token |-> t, side |-> side]
  /\ task' = Goes(by)

\* The swap takes effect, under whatever is reading the wallet.
SwapLands ==
  /\ trade.stage = "sent"
  /\ \/ /\ trade.side = "buy" /\ price[trade.token] <= cash
        /\ wallet' = wallet \cup {trade.token} /\ cash' = cash - price[trade.token]
     \/ /\ trade.side = "sell"
        /\ wallet' = wallet \ {trade.token} /\ cash' = cash + price[trade.token]
  /\ trade' = [trade EXCEPT !.stage = "landed"]
  /\ task' = Disturb(task)
  /\ UNCHANGED <<price, book, mode, loops, disk, engine, seen, clock>>

SwapFails ==
  /\ trade.stage = "sent"
  /\ trade' = NoTrade /\ task' = Returns(trade.by)
  /\ UNCHANGED <<chain, book, mode, loops, disk, engine, seen, clock>>

\* _open books the purchase and goes back to trading, _sell drops the position; both save.
\* Nobody books the swap of a task that was cancelled.
SwapBooked ==
  /\ trade.stage = "landed"
  /\ trade' = NoTrade /\ task' = Returns(trade.by)
  /\ IF trade.by = "nobody" THEN UNCHANGED <<book, mode, disk>>
     ELSE /\ book' = IF trade.side = "buy" THEN book \cup {trade.token} ELSE book \ {trade.token}
          /\ mode' = IF trade.side = "buy" THEN "TRADING" ELSE mode
          /\ disk' = [mode |-> mode', peak |-> peak, book |-> book']
  /\ UNCHANGED <<chain, loops, engine, seen, clock>>

\* The monitor or the owner sells; of a position that is gone only the tracking is dropped.
Sells(by, t) ==
  /\ t \in book
  /\ IF by = "owner" THEN task["owner"].pc = "rest" ELSE loops /\ mode = "TRADING"
  /\ \/ t \in wallet /\ SwapBegins(by, t, "sell") /\ UNCHANGED <<book, disk>>
     \/ /\ t \notin wallet
        /\ book' = book \ {t} /\ disk' = [mode |-> mode, peak |-> peak, book |-> book']
        /\ UNCHANGED <<task, trade, spent>>
  /\ UNCHANGED <<chain, mode, loops, engine, seen, day>>

-----------------------------------------------------------------------------
(* A scan cycle *)

\* can_open_position, on the equity and the stables a task has read.
GateAllows(e, stables) ==
  /\ ~Down(e, peak, SafetyPct)
  /\ Cardinality(book) < MaxPositions
  /\ \E p \in Prices : p <= stables

StableReconciled(b) ==   \* mutant: the import takes the stables for an orphan
  {r \in SUBSET Assets : b \cap wallet \subseteq r /\ r \subseteq b \cup wallet \cup {"cash"}}

\* What the reconciliation may leave: lots that are held stay, any other is dropped or
\* imported unless the read that would tell fails.
Reconciled(b) == {r \in SUBSET Tokens : b \cap wallet \subseteq r /\ r \subseteq b \cup wallet}

ScanBegins ==
  /\ task["scan"].pc = "rest" /\ loops /\ mode = "TRADING"
  /\ Begin("scan")
  /\ UNCHANGED <<chain, book, mode, loops, disk, engine, seen, trade, clock>>

\* An unreliable reading ends the cycle before it reconciles anything.
ScanUpdates ==
  LET r == task["scan"] IN
  /\ r.pc = "read"
  /\ IF r.reliable
     THEN /\ Update(r.equity, r.day)
          /\ task' = [task EXCEPT !["scan"] = [Rest EXCEPT !.pc = "checking", !.equity = r.equity]]
     ELSE UNCHANGED engine /\ task' = Idle("scan")
  /\ UNCHANGED <<chain, book, mode, loops, disk, seen, trade, clock>>

\* _cancel_loops: the monitor's swap, and the scan's, goes on with nobody to book it.
Detached == IF trade # NoTrade /\ trade.by \in {"scan", "monitor"}
            THEN [trade EXCEPT !.by = "nobody"] ELSE trade

\* After the reconciliation the two limits are checked.  panic() cancels the cycle that
\* called it: nothing is saved, liquidated or latched.
ScanChecks ==
  LET e == task["scan"].equity  trips == Down(e, peak, SafetyPct) \/ DayLost(e) IN
  /\ task["scan"].pc = "checking"
  /\ \E b \in Reconciled(book) :
       /\ book' = b
       /\ disk' = IF b # book THEN [mode |-> mode, peak |-> peak, book |-> b] ELSE disk
  /\ IF trips THEN /\ mode' = "HALTED" /\ loops' = FALSE
                   /\ task' = Idle("scan") /\ trade' = Detached
              ELSE /\ task' = [task EXCEPT !["scan"].pc = "deciding", !["scan"].cash = seen]
                   /\ UNCHANGED <<mode, loops, trade>>
  /\ UNCHANGED <<chain, engine, seen, clock>>

\* The gate and a candidate: a purchase, or no entry, saved unless the cycle returned early.
ScanDecides ==
  LET r == task["scan"] IN
  /\ r.pc = "deciding"
  /\ \/ /\ \E t \in Tokens \ (book \cup wallet) :
             price[t] <= r.cash /\ GateAllows(r.equity, r.cash) /\ SwapBegins("scan", t, "buy")
        /\ UNCHANGED disk
     \/ /\ task' = Idle("scan")
        /\ disk' \in {disk, [mode |-> mode, peak |-> peak, book |-> book]}
        /\ UNCHANGED <<trade, spent>>
  /\ UNCHANGED <<chain, book, mode, loops, engine, seen, day>>

-----------------------------------------------------------------------------
(* The owner *)

OwnerReads ==   \* /buy or /reiniciar
  /\ task["owner"].pc = "rest" /\ spent.commands < MaxCommands
  /\ Begin("owner") /\ spent' = Use("commands")
  /\ UNCHANGED <<chain, book, mode, loops, disk, engine, seen, trade, day>>

\* force_buy: whatever the reading is worth, it updates the engine.
OwnerBuys ==
  LET r == task["owner"] IN
  /\ r.pc = "read"
  /\ Update(r.equity, day)
  /\ \/ \E t \in Tokens \ (book \cup wallet) :
          /\ price[t] <= seen /\ ~Down(r.equity, peak', SafetyPct)
          /\ Cardinality(book) < MaxPositions
          /\ SwapBegins("owner", t, "buy")
     \/ task' = Idle("owner") /\ UNCHANGED <<trade, spent>>
  /\ UNCHANGED <<chain, book, mode, loops, disk, seen, day>>

\* restart_session rebases the peak first, and replaces the loops after its reconciliation.
OwnerRebases ==
  /\ task["owner"].pc = "read"
  /\ peak' = task["owner"].equity
  /\ task' = [task EXCEPT !["owner"] = [Rest EXCEPT !.pc = "rebasing"]]
  /\ UNCHANGED <<chain, book, mode, loops, disk, anchor, anchorDay, seen, trade, clock>>
OwnerResumes ==
  /\ task["owner"].pc = "rebasing"
  /\ book' \in Reconciled(book)
  /\ mode' = "TRADING"
  /\ disk' = [mode |-> mode', peak |-> peak, book |-> book']
  /\ task' = [task EXCEPT !["owner"].pc = "announcing"]
  /\ UNCHANGED <<chain, loops, engine, seen, trade, clock>>
OwnerStartsLoops ==
  /\ task["owner"].pc = "announcing"
  /\ loops' = TRUE
  /\ task' = [r \in Readers |-> Rest] /\ trade' = Detached
  /\ UNCHANGED <<chain, book, mode, disk, engine, seen, clock>>

OwnerSaves ==   \* configure, set_copilot
  /\ disk' = [mode |-> mode, peak |-> peak, book |-> book]
  /\ UNCHANGED <<chain, book, mode, loops, engine, seen, task, trade, clock>>

-----------------------------------------------------------------------------
(* Restarts, and the world *)

\* The process dies and run_agent brings it back: the peak comes from the file, and gives
\* way to the first reading if that lies too far below it.  missed: reads that fail.
Reboots ==
  \E missed \in SUBSET Assets :
  LET e == IF Total(Assets \ missed) > 0 THEN Total(Assets \ missed) ELSE Worth
      restored == IF disk.peak > 0 THEN disk.peak ELSE Worth
      stale == e > 0 /\ (restored - e) * 100 > SafetyPct * restored
  IN
  /\ spent.faults + 1 + Cardinality(missed) <= MaxFaults
  /\ spent' = [spent EXCEPT !.faults = @ + 1 + Cardinality(missed)]
  /\ peak' = IF stale THEN e ELSE restored
  /\ anchor' = Worth /\ anchorDay' = NoDay
  /\ seen' = IF "cash" \in missed THEN 0 ELSE cash
  /\ mode' = disk.mode /\ loops' = (disk.mode = "TRADING")
  /\ book' \in IF disk.mode = "TRADING" THEN Reconciled(disk.book) ELSE {disk.book}
  /\ disk' = [mode |-> mode', peak |-> peak', book |-> book']
  /\ task' = [r \in Readers |-> Rest]
  /\ trade' = IF trade = NoTrade THEN trade ELSE [trade EXCEPT !.by = "nobody"]
  /\ UNCHANGED <<chain, day>>

PriceMoves(t) ==
  /\ spent.moves < MaxMoves /\ spent' = Use("moves")
  /\ \E p \in Prices \ {price[t]} :
       price' = [price EXCEPT ![t] = p]
  /\ task' = Disturb(task)
  /\ UNCHANGED <<cash, wallet, book, mode, loops, disk, engine, seen, trade, day>>

Midnight ==
  /\ day < MaxDays /\ day' = day + 1
  /\ UNCHANGED <<chain, book, mode, loops, disk, engine, seen, task, trade, spent>>

Init ==
  /\ cash = Cash /\ wallet \in {w \in SUBSET Tokens : Cardinality(w) <= MaxPositions}
  /\ price \in [Tokens -> Prices]
  /\ book = wallet /\ mode = "TRADING" /\ loops = TRUE
  /\ peak = Worth /\ anchor = Worth /\ anchorDay = NoDay
  /\ disk = [mode |-> mode, peak |-> peak, book |-> book]
  /\ seen = cash /\ task = [r \in Readers |-> Rest] /\ trade = NoTrade
  /\ day = 0 /\ spent = [faults |-> 0, commands |-> 0, trades |-> 0, moves |-> 0]

Scan == ScanBegins \/ ReadBalance("scan") \/ ReadEnds("scan")
        \/ ScanUpdates \/ ScanChecks \/ ScanDecides
Owner == OwnerReads \/ ReadBalance("owner") \/ ReadEnds("owner") \/ OwnerBuys
         \/ OwnerRebases \/ OwnerResumes \/ OwnerStartsLoops \/ OwnerSaves
Next ==
  \/ Scan \/ Owner
  \/ SwapLands \/ SwapFails \/ SwapBooked
  \/ \E t \in Tokens : Sells("monitor", t) \/ Sells("owner", t) \/ PriceMoves(t)
  \/ Reboots \/ Midnight

Spec == Init /\ [][Next]_vars
\* The event loop runs the scan task; a swap's thread ends and its task books it.
FairSpec == Spec /\ WF_vars(Scan) /\ WF_vars(SwapLands \/ SwapFails) /\ WF_vars(SwapBooked)

-----------------------------------------------------------------------------
(* Safety *)

\* The guard does what it can: a reading that it accepts, taken while no swap was under way,
\* no price moved and every lot was tracked, and in which the gas and the stables were read,
\* is what the wallet is worth.
QuietReadingExact ==
  LET r == task["scan"] IN
  r.pc = "read" /\ r.reliable /\ r.quiet => r.equity = Worth

-----------------------------------------------------------------------------
(* Liveness *)

Losing == Down(Worth, peak, SafetyPct) \/ (anchorDay = day /\ DayLost(Worth))
\* A loss beyond a limit that lasts halts the trading, as long as the tracked positions are
\* the ones in the wallet.
LossHalts == (loops /\ mode = "TRADING" /\ Losing /\ book = wallet)
               ~> (mode = "HALTED" \/ ~loops \/ ~Losing \/ book # wallet)
=============================================================================
