# Boomerang AI in TLA+

TLA+ models of the Boomerang AI trading agent, the TLC runs that check them on
small instances, and proofs, checked by TLAPS, of what holds for every instance.
The reference is the Python source; every definition is translated from it, and
`PROJECT.json` names the lines each definition stands for.

## The system

Boomerang is one Python process. A supervisor thread of the web server runs an
asyncio event loop with the agent; the site runs on the main thread; swaps, price
reads and balance reads run in worker threads (`asyncio.to_thread`).

| Part (files under `src/`) | State | Operations | What is hard | What makes it correct | Modules |
|---|---|---|---|---|---|
| Orchestrator `boomerang/agent.py` | `state`, `positions`, `_pending`, `_copilot`, the two loop tasks, throttles | scan cycle, monitor pass, `_open`, `_sell`, reconcile, import, start / pause / restart / panic / withdraw / manual buy and sell / approve / reject, restore | four tasks interleave at every await, a loop may be cancelled at any of them, a task may cancel itself, swaps outlive the task that awaited them | no token booked twice, limits hold when the purchase is booked and not only when they are checked, a stop leaves nothing running, the mutex is never leaked, every handler ends | `Agent`, `Killswitch`, `Decision` |
| Risk engine `boomerang/risk/risk_engine.py` | peak equity, day anchor, last trade, halt flag, recent buys | `update_equity`, breaker, daily cap, `can_open_position`, sizing, `evaluate_position` | values read long before they are used; the same figures fed by reliable and by unfiltered readings; restored and not restored state | a limit that is reached stops the trading; a stop never loosens; a bet stays within its bounds | `CircuitBreaker`, `PositionExit`, `Playbook` |
| Brain `boomerang/brain/cmc_analyzer.py` | caches | gathers quotes, movers and the macro readings, scores candidates | five hosts that fail one by one, each failure swallowed | a missing reading never turns into an order out of bounds | `Brain` |
| Strategy `boomerang/strategy` | none | posture, arbiter, strategy triggers, indicators, confluence | numeric rules in a given order | a crash lets only rebounds through | `Playbook`, `Signals` |
| On-chain validation `boomerang/vault/bnb_validation.py` | price and decimals caches | `validate`, prices, balances, breakdown | any read may fail or be deflated; the sale is quoted for the wrong amount | a rejected token is never bought, the two legs pay back | `OnChain`, `CircuitBreaker` |
| Swap executor `boomerang/vault/twak_executor.py` | none (the chain) | buy, sell, transfer through a CLI with a 120 s timeout | success, failure, "approval sent", a timeout whose swap happened all the same | the orchestrator copes with all of them | `Agent` |
| Owner interface `boomerang/interface/telegram_bot.py` | one conversation, messages whose buttons stay on the screen | one handler per button and command, updates handled one at a time | double taps, lost and repeated updates, calls of Telegram that fail half-way | a confirmation is carried out once, an approval buys what was shown | `Chat` |
| Persistence and integrity `boomerang/persistence.py`, `boomerang/risk/integrity.py` | `agent_state.json`, its signature, the trade history | save, sign, verify, append | a kill between two writes; what is not saved | the last complete save survives, an alarm has a cause | `StateFile` |
| Supervision `run_agent.py`, `railway_start.py`, `boomerang/liveness.py` | heartbeat time, restart count | boot, beat, `/healthz`, restart | a blocked loop looks alive to its supervisor | whatever happens the agent comes back, and is not restarted needlessly | `Host` |
| Wallet sign-in `boomerang/webapp/auth.py` | nonces, session key, cookies | issue, verify, check, admit a guest | replay, expiry, a restart under both | a nonce buys one session, and no session outlives the key it was signed with | `SignIn` |
| Demo console `boomerang/webapp/demo.py`, `site.py` | one dictionary per wallet | cycle, start, pause, panic, withdraw, snapshot | worker threads and buttons over one dictionary without a lock | a position is sold once, the cash adds up | `DemoConsole` |
| Pages, market cache, payments, identity, charts, scripts | caches, counters | read-only pages, paid reads, publishing | best effort | write no trading state | not modelled |

`PROJECT.json` repeats the list with the status of every part; its `hazards`
are the places where this code can go wrong in a way a test would hardly reach.

How the modules relate: `Agent` is the process with its tasks, and implements the
abstract `Killswitch`. Where `Agent` makes a free choice, another module says what
the code chooses: `Decision` (over `Playbook`, `Brain`, `Signals` and `OnChain`) which
order a cycle gives, `CircuitBreaker` when a limit trips, `PositionExit` when a
position is sold. `Host` composes `StateFile` and `SignIn` with the supervisor. `Chat`
has the agent as one step per call. `DemoConsole` stands alone, as it does in the code.

## Modules

### `Agent`: the orchestrator as an asyncio program

**Tasks.** One event loop runs four tasks: `scan` and `monitor` (the loops that
`_start_loops` creates), `owner` (the Telegram handler; the bot handles updates
one at a time) and `boot` (the main coroutine, which resumes trading after a
restart). A task is a record of the local variables it holds while it is
suspended (`pc`, the position at hand, the snapshot it walks, and so on). **An
action is the code a task runs between two awaits that suspend it**, so the
interleavings of the model are those of the event loop: everything between two
awaits is one step, and anything may happen at an await.

**Threads.** A swap runs in a worker thread. `SwapLands` is the moment it takes
effect on the wallet; `BuySwapReturns` / `SellSwapReturns` / `HeartbeatReturns`
is the task going on with the answer. If the task is cancelled in between, the
thread becomes `detached` and lands all the same (`DetachedLands`). A swap
returns success, failure, "approval sent", or raises with or without effect.

**The mutex.** `trade_lock` is a `threading.Lock` taken with a blocking `with` on
the event loop's own thread and held across an await. `TakeLock` says so: if the
lock is free it is taken, if it is not the thread of the loop blocks and nothing
else ever runs (`wedged`).

**The list.** `_reconcile_positions` walks `self.positions` by index across awaits,
while others append to the list and remove from it, and rebinds the attribute at
the end. A position carries an id that grows with creation, so the list is the
set ordered by id; `idx`, `view` and `live` keep the iterator and the list object
it walks.

| Code | Actions |
|---|---|
| `_scan_loop`, `run_cycle` | `ScanWakes` `ScanEquity` `ReconcilingSteps` `ScanPanics` `ScanAnomaly` `ScanHeartbeat` `HeartbeatReturns` `ScanAnalyses` `ScanGate` `ScanPicks` `ScanValidates` `Buying` |
| `_monitor_loop`, `check_positions` | `MonitorWakes` `MonitorTick` `SellingSteps` `MonitorSold` |
| `_open` | `OpenBegins` `BuySwapReturns` `BuyRetries` `BuyPriceReturns` `Opened` `OpenFailed` |
| `_sell` | `Selling` `SellBalance` `SellGoes` `SellSwapReturns` `SellRetries`, then `MonitorSold` or `OwnerSold` for the caller |
| `_reconcile_positions`, `_import_orphans` | `Reconciling` `ReconcileBalance` `ReconcilePrice` `WalkOn` `ImportReads` `ImportApplies` |
| `start`, `restart_session`, `pause`, `panic`, `withdraw_all` | `Start` `StartDone` `Announced`, `Restart` `RestartReads`, `Pause`, `Panic` `PanicLiquidates`, `Withdraw` `WithdrawTransfers` |
| `force_buy`, `sell_position`, `sell_all_positions` | `Buy` `ForceBuyGate` `OwnerValidated`, `Sell`, `SellAll` `SellSkips` `OwnerSold` |
| `_propose`, `approve_proposal`, `reject_proposal`, `set_copilot` | `ScanValidates`, `Approve`, `Reject`, `SetCopilot`, `ProposalExpires` |
| `restore` and `run_agent.py` | `Init`, `BootResumes` |

**Abstracted.** Amounts and prices: a token is in the wallet above the dust limit or
it is not, and whether equity breached a limit is a free choice (the equity read
is settled in `ScanPanics`). Market data, the brain and the validation: which
candidates survive is a free choice. The clock: a cooldown is running or it is
not; it is longer (900 s) than both windows of the tripwire (60 and 300 s), so
`CooldownElapses` empties them. Alerts, logs and attestations write none of this
state; they appear as suspension points where cancellation bites (the alert at
the head of `panic`, the announcement of `start`).

**Not modelled in it.** `resume()` (no interface calls it), `configure()`, rotation
(unreachable: it asks for the word "insuficiente" in a detail that is English),
the liquidity audit (only a suspension point), publishing.

**Assumed.** The scan and the monitor go on when they are woken, the boot
resumes when the saved state was a trading one. Whether a purchase that the gate
allowed is made, whether a sale fails, and what a read returns are free.

### `Killswitch`: what the orchestrator promises

The abstract specification of stopping: a cycle runs only while the agent trades,
it commits itself to a purchase only while the latch (`RiskEngine._halted`) is open,
and the latch closes only when no cycle is committed. `Agent` defines the refinement
mapping (`Promise`): `trading` is `state \in Trading`, `latch` is `halted`, and the
cycle is `committed` from the gate (`can_open_position`) to the end of the cycle. Run
`commands` checks it and `Agent_proofs` proves it.

### `PositionExit`: the life of one position under the monitor

The state is what `check_positions` writes into a `Position` (`pos`: stop, armed,
peak, last believed price), its saved copy (`disk`), the exit parameters it
carries (`spec`, `entry`) and what surrounds it: the price on chain, extreme
greed, the time-stop, the owner's configuration. Prices are integers, percentages
are in hundredths of a percent, and the stop is kept multiplied by 10 000, so
that every comparison of `evaluate_position` is exact (the code's floats differ
in the last digits only).

| Code | Definitions |
|---|---|
| the noise guard of `check_positions` | `Jumps` |
| `evaluate_position`: parameters with their fallbacks | `StopPct` `Target` `Trigger` `Trail` `Dead` |
| its rules, in their order | `TakesProfit` `Trailed` `Stopped` `TimedOut`, combined in `Signal` |
| one pass of `check_positions` over the position | `TickSells` (sold by a rule or by the brain), `TickKeeps` (held, or the sale failed) |
| the throttled `_save`, `restore` | `Save`, `Restart` |
| `_open`, `_import_orphans` | `Opened` (through `Init`) |
| `configure`, the mood set by `run_cycle` | `Configure`, `MoodTurns` |

One pass is one step: of the tasks only the monitor writes these fields. The
sale itself, with its awaits, is in `Agent`.

### `CircuitBreaker`: measuring the equity, and what trips

The wallet is stables and one lot per token. `wallet_breakdown` reads it **one
balance at a time** in a worker thread (`ReadBalance`), while swaps land
(`SwapLands`), are booked (`SwapBooked`) and prices move; a read that fails is left out of
the sum, and no balance is read twice, since the list of tokens leaves the stables out
(`ReadOrder`). `ReadEnds` applies `equity_reading_reliable` to the positions tracked at
that moment. The scan's accepted reading feeds `update_equity` (`ScanUpdates`),
the reconciliation and the two limits follow (`ScanChecks`), then the gate
(`ScanDecides`). The owner's `/buy` feeds the engine whatever it read
(`OwnerBuys`), `/reiniciar` rebases the peak (`OwnerRebases`, `OwnerResumes`,
`OwnerStartsLoops`), and `Reboots` is a crash with the boot of `run_agent.py`:
first reading, `restore`, the peak given up when it lies too far above.

It shares the swap and the tasks with `Agent` in a coarser form: one swap at a
time (two would block the thread, which `Agent` shows), the loops as one flag,
`SCANNING` and `IN_POSITION` as one mode. A panic raised by the scan leaves mode
`HALTED` and saves nothing, as `Agent` shows it does. The illiquid discount, the
cooldown and the amounts of a purchase are left out; the BNB is read with the
stables and never fails.

### `Decision`: how a cycle comes to an order

An action per await of `run_cycle`, because the owner's co-pilot switch and the
monitor's sales run there. The rules it applies are operators of four modules.

| Code | Definitions |
|---|---|
| the readings and their failures: `gather_quotes`, `gather_movers`, macro reads | `Brain`: `Gathered`, `gather_macro` |
| triggers, ranking, posture, arbiter, the brain's bar, `position_size_usd` | `Playbook`: `select_strategy` `setup_strength` `market_posture` `allows_strategy` ... |
| EMA, slope, ADX, RSI, MACD, z-score, Fibonacci, candles, the confluence vote | `Signals` |
| `validate` with the aggregator as quoter | `OnChain`: `Validated` `Slippage` |
| `run_cycle` up to the analysis | `ScanBegins` `Gathers` |
| verdicts, sorting | `Judges` `JudgeFails` |
| the candidate loop: held, cooling, overextended, confluence, size, Filter 2, order | `Picks` `Confirms` `Validates` |
| `_open`, what follows a failure, an exception out of it | `SwapLands` `SwapFails` `SwapRaises` |
| `set_copilot`, the monitor's sale, the lapse of a cooldown | `set_copilot` `PositionCloses` `CooldownLapses` |

The units are those of the code's thresholds (tenths and hundredths of a per cent,
cents), so that no comparison is rounded away; the indicators use fixed point and
were compared with the Python functions on random charts, where the only
differences lay within a rounding of a threshold. A reading that may be `None` is a
set of at most one number. Abstracted: the moving average of the fear and greed index
is a number `drift`; the order of the movers is that of the universe; a token
without an address is skipped as one without a quote. Left out: what is off in the
running configuration (`_validate_v2`, the fee gate, the EV filter, the chart
strategies) and what feeds only the prompt and the alerts.

### `Chat`: buttons that stay on the screen

A message keeps its buttons, an update waits in a queue, handlers run one at a time
and in two halves, since a handler draws over its message (an edit that Telegram may
refuse or lose) before or after it calls the agent. A message remembers the confirmation
it has carried out last and how often (`did`, `used`): one message shows several in turn.

| Code | Actions |
|---|---|
| the owner taps or types; a stranger writes | `Taps` `Types` `Intrudes` |
| `getUpdates`, `on_button`, `_is_owner` | `Receives` |
| `edit_message_text`, `reply_text` and their failures | `Edits` `Replies` `DrawFails` |
| the wizard: focus, stop, target, size | `Configures` |
| `set_copilot`, `activate`, `pause`, `mgo`, `sellgo`/`sellallgo`, `withdraw` | `SetsCopilot` `Activates` `Pauses` `ManualBuys` `Sells` `Withdraws` |
| `/panic`, `/reiniciar` | `Panics` `Unlocks` |
| `_propose`, its minute, `appr`, `rej` | `Proposes` `Expires` `Approves` `Rejects` |
| a trade or a breaker of the agent's own; a new process | `Trades` `Breaks` `Restarts` |

The agent is abstract: one step per call with every outcome it may have. Messages
without buttons, amounts and wording are left out. After a restart the last updates
may be delivered again, because their offset has not been confirmed.

### `StateFile`, `SignIn` and `Host`: one container

`StateFile` has the three files (`state`, `sig`, `trades`) and a writer that takes one
system call per step: `SaveBegins` `SaveReplaces` `SaveSigns`, `AppendBegins`
`AppendTruncates` `AppendWrites`, `WriteFails`; `FilesSurvive` is a kill between any two
of them. `SignIn` has the nonces in memory and the cookies in browsers:
`NonceIssued`, `Presented` (a wallet's message), `GuestEnters` (a session for the asking,
with no nonce and no message), `WebRestarts`, `WebTimePasses`. `Host` composes them with
the thread of the agent:

| Code | Actions |
|---|---|
| `run_agent.main`, `restore`, the first `_save`, the first beat | `Restores` `BootSaves` `BootDone` |
| the agent at work, as far as a boot can tell | `StartsOrPauses` `Panics` `Reiniciar` `Saves` `Records` `Writes` |
| `_run_agent`: a crash and the growing sleep | `Crashes` |
| a blocked event loop, `/healthz`, the platform | `Blocks` `Unblocks` `PlatformRestarts` |
| a redeploy, with or without the secret; a file edited by hand | `Redeploys` `Edits` |
| the clock; the browsers | `TimePasses` `Visits` |

The recovery of an address from a signature is external: a presented message is
genuine or it is not.

### `DemoConsole`: the simulated agent of a visitor

The browser asks for a cycle every 2.2 s without awaiting the last one, and each
runs in a worker thread; the buttons run on the event loop. They share `cash` and
`positions` without a lock, so a step is what a thread does between two accesses
to them (`CloseReads` `CloseCredits` `CloseRemoves` for `_close`; `TickBegins` ...
`TickEnds` for `tick`; `Start` `Pause` `Liquidate` `LiquidateNext` `LiquidateStops`
`Snapshot` for the buttons). `overlap` remembers the worst that has overlapped, since
much of what the console promises holds only as long as nothing has.

## Runs

| Run | Asks | Bounds |
|---|---|---|
| `autonomous` | two loops, resumed after a restart, against the owner selling everything: types; no token booked twice; buys spaced by the cooldown; the mutex held by exactly the task that swaps; the scan never lifts the book above the limit | 2 tokens, 2 position ids, a limit of 1, swaps that succeed, want an approval or raise |
| `commands` | start, pause, panic, restart, buy, approve, reject and co-pilot in any order: no cycle in progress outside a trading state; a latched halt freezes the scan; `Agent` implements `Killswitch` | 1 token, 1 id, tripwire at 1 buy, a first boot |
| `live_loops` | every cycle ends; every position is examined again and again, unless sales that keep raising end each pass before it | 2 tokens, no commands, swaps that succeed, fail or raise |
| `live_commands` | every handler ends; `/panic` reaches the halt, unless a sale of its own raises | 1 token, panic, sell, sell all, withdraw; swaps that succeed, want an approval or raise |
| `exits` | the exit rules: break-even locked, no stop on a new high, the stop honoured once the price is back within the jump limit | 5 prices around the entry on both sides of every threshold and of the jump limit, 3 strategies, 2 configurations |
| `breaker` | an undisturbed accepted reading is exact; a lasting loss beyond a limit halts the trading | 1 token at 2 prices, one fault, one swap, one command, one move, one midnight |
| `decide` | an order stays within its bounds, covers its legs, is a rebound in a crash, is not a token that has just failed | 3 tokens, 4 markets, 8 regimes, 6 ways the feeds fail, 5 charts, 6 venues, 3 wallets, 4 scores |
| `chat` | a confirmation is carried out once, an approval buys what its message told | 2 tokens, one choice per menu and two amounts to buy for, 4 events (updates, proposals, trades, breaks and restarts together), every screen to start from |
| `host` | the last complete save survives; a failed check has a cause; the history is in order and within its limit; a message buys at most one session and none outlives its process; no needless restart; the agent comes back | 2 faults, 3 acts of the agent and its visitors, 8 saves, 3 trades of which 2 are kept, one nonce, two sessions, sleeps of 1, stale after 2 |
| `console` | a position is sold and logged once; the cash adds up, stops tighten, a stopped agent holds nothing as long as nothing overlaps | 2 workers, 2 tokens, 3 cycles, 2 buttons, 2 purchases |
| `x_latch` | *violated*: a panic raised by the scan latches the engine | 1 token |
| `x_wedge` | *violated*: the mutex never blocks the event loop | 2 tokens |

**Why the bounds are enough.** The properties of `Agent` speak of at most two
positions, two tasks and one mutex: two tokens and two ids make a duplicate, an
overrun limit (limit 1) and an index that slips possible, and `x_wedge` shows that
the bad case of the mutex occurs at this size. `MaxIds` bounds how many positions
are created, which ends the runs and hides nothing before. In `exits` the prices
straddle the stop, the break-even, the trigger, half the trigger and the target of
each strategy, and the lowest is more than 10 % below all but the next, so that the noise
guard refuses some ticks and lets others through. In `breaker` every bound is at least one of its kind, so that each
disturbance meets each step of a reading; a single token is enough because the
guard treats positions one by one. In `decide` the inputs were picked so that each
guard of the candidate loop lets something through and stops something. In
`chat` a violation of either property takes two taps and what comes between them,
the run starts from every screen instead of walking to it, and two amounts let one
message show two confirmations in turn. In `host` the
faults may hit any two points of a boot, a save and an append; three acts are three
trades, of which the third drops the first, or a message that is presented twice, or a
guest between two saves; the sleeps
keep their order (backoff plus boot within the stale limit), which is all the
properties tell apart (`HostAssumption`). In `console` two workers and the loop make
every overlap of two. What the theorem modules prove holds for all sizes.

**Deadlock** is checked in `decide` and `host`, which always go on. Elsewhere
`CHECK_DEADLOCK FALSE`: the event loop can really block (`wedged`), an idle or
paused agent waits for its owner, a position that was sold is over, and a halted
agent or a console with its bounds used up has nothing to do.

**Symmetry** of the tokens is used in the safety runs of `Agent` only.

## Fairness

- `Agent` (`FairSpec`): each task that can go on does (the event loop is a FIFO
  of ready callbacks), a swap's thread ends (the CLI is killed after 120 s), a
  read returns. Nothing forces the owner to type, a token to be bought or a
  cooldown to elapse. Every liveness property of `Agent` excepts a blocked loop:
  the code does block, and `x_wedge` shows how.
- `PositionExit`: `CleanExit` is weakly fair: the monitor ticks every 2 s, most
  reads are clean, and a sale asked for at each tick goes through at last. A noisy
  tick may come at any time and does not count as progress. `StopHonoured` asks for a
  market within the limit of the last read that was believed, for otherwise the guard
  refuses each tick.
- `CircuitBreaker`: the scan task goes on, a swap's thread ends and is booked.
  Failed reads and crashes are bounded by `MaxFaults`: a node that never
  answers again leaves no reading to trip on.
- `Host`: the supervisor restarts what has crashed and the boot goes on
  (`Boots`), a write ends (`Writes`), time passes, and the platform acts on a failed
  `/healthz`. Nothing obliges a blocked call to return, and faults are bounded: an
  agent that crashes in every boot never comes up.

`LossHalts` excepts a book that differs from the wallet, and this is needed: a
tracked position that cannot be priced, or is gone, makes every reading
unreliable, and the cycle ends before the reconciliation that would repair the
book.

## Proofs

Every invariant and every action property of the passing runs is a theorem. The modules are
`Agent_proofs`, `PositionExit_proofs`, `CircuitBreaker_proofs`, `Decision_proofs`,
`Chat_proofs`, `Host_proofs` and `DemoConsole_proofs`. They hold for every set of tokens,
prices, strategies, menus, markets and commands and for every limit, from the named
assumptions of the modules only: `AgentAssumption`, `ExitAssumption`,
`BreakerAssumption`, `DecisionAssumption`, `CfgAssumption`, `ChatAssumption`,
`CommandsAssumption`, `StateFileAssumption`, `SignInAssumption`, `HostAssumption` and
`ConsoleAssumption`. These ask for sets of the right kind (finite where something is
counted), numbers that are numbers, percentages in their range, a trailing trigger above
0.01 %, a universe and a list of balances without repetition, a longest sleep and a boot
that fit into what `/healthz` allows. `SumFacts` holds the lemmas about sums over finite
sets. No induction theorem of the library can be used (they take an operator as a
parameter), so that a sum does not depend on the order of its summands is shown from a
least counterexample: the numbers that violate it, if any, have a least one.

- `TypeCorrect`: `TypeOK` is not inductive, since a purchase books the token named by
  the task's local `cur`, which may be nothing. `TypeInv` adds that wherever `cur`
  is used as a position or as a token, it is one, in the tasks and in the
  detached swaps. One lemma per action.
- `MutexCorrect`, `ScanTradingCorrect`: `Safe` is `TypeInv` with both properties.
  They are proved together, action by action: a step either leaves the mutex and
  the swaps of its task alone or changes both (`Tidy`), and only a wake in a
  trading state begins a cycle (`Cycling`). The cancellations are the hard case:
  `ReplaceLoops` and `CancelLoops` end the scan's cycle and give the mutex back in
  the step that changes the state.
- `KillswitchCorrect`, `HaltCorrect`: `Agent` implements `Killswitch`. Both assume
  `FirstBoot` (the saved state is `IDLE`), and this is needed: TLC finds a `/panic`
  overtaken by a boot that resumes. Beyond `Safe` the invariant says that the boot task
  rests (`BootRests`) and that whoever is on the way to a halt through `/panic` has
  already stopped the scan (`PanicPath`), which nothing restarts before the handler
  ends. Every action is then a step of the abstract specification or a stutter, one
  lemma per action; that a latched halt freezes the scan follows from the
  abstract invariant `Frozen`.
- `BookCorrect`, `SpacingCorrect`, `CapCorrect`: `DuplicateFreeBook`, `CooldownSpacesBuys`
  and `ScanRespectsCap` under `Undisturbed`: the owner sells, pauses, panics, withdraws and
  switches the co-pilot, and starts, restarts, buys and approves nothing. The condition is
  needed (`/buy` books a tracked token a second time, an approval asks no gate; see the
  divergences). The invariant `Solo` says who may add to the book: the boot only before the
  loops begin (`Roles`), then the scan. For whoever does, what it holds in hand fits
  together with the book (`Walks`: the list being reconciled is still `self.positions`, the
  kept and the current position duplicate nothing in it), and what a committed cycle was
  promised still stands (`Chooses`, `Spaced`, `Capped`). Everybody else only takes away:
  one lemma (`ShrinkKeeps`) covers the monitor, the owner's sales and the clock.
- `ExitTypeCorrect`, `ExitLocked`, `ExitNewHigh`: `ExitInv` says of the position **and
  of its saved copy** that an armed trailing has its stop at the entry or above
  (`Sound`), or a restart would undo it, and that the stop lies below the peak, so that a
  tick that makes a new peak is above the stop it raises.
- `Typed`, `AcceptedIsExact` (`CircuitBreaker`): `TypeOK` and `QuietReadingExact`, for
  any order of the balances and any number of swaps, failed reads, crashes and
  midnights. The invariant `QuietOK` says of a reading that nothing has disturbed that
  the book is the wallet, that no swap has landed, and that its sum is what the balances
  priced so far are worth, the stables among them (`ReadSoFar`). The guard of
  `equity_reading_reliable` then gives the rest: with every tracked token priced and the
  book equal to the wallet, the assets priced are those that are worth something. Steps
  that leave the chain alone keep this (`Calm`); a landing and a move of a price end the
  quiet, and a booking comes only after a landing.
- `Typed`, `BetsAreBounded`, `CrashBuysRebounds`, `LegsAreCovered`, `FailedAreLeftAlone`
  (`Decision`): the types and the four properties of an order. `Inv` carries through the
  awaits what the cycle has fixed (`CycleOK`), that a size, once computed, is within the
  limits of the wallet that the cycle has read (`SizeOK`), and what the order owes to
  the candidate it came from (`OrderOK`). Judging is the hard part: the verdicts already
  given and the candidates still to be judged are different tokens (`Between`), because
  the places given by sorting are different and the universe lists no token twice. In a
  panic one candidate is taken, and a crash makes a rebound the strongest.
  `LegsAreCovered` is for a bound on the divergence of the oracle of at most 2.5 %,
  which is what `config.json:39` sets. Nothing in these proofs looks inside the
  confluence vote.
- `Typed`, `CarriedOutOnce`, `BoughtAsShown` (`Chat`): `TypeOK`, `SpentOnce` and
  `ApprovedAsShown`, for any menus and any number of updates, failed calls and restarts.
  `HandlerOK` says that the agent is called for a confirmation only when its message has
  been drawn over for it and has not carried it out before; `MessageOK` that a message
  which has carried one out still shows this, and so offers no button for it; `OfferOK`
  that no message of this life tells a later proposal than the last, and that one which
  tells the waiting proposal tells its token. Since updates name messages and messages
  only grow in number, what waits in the queue stays meaningful. An earlier form of
  `SpentOnce` counted per message; it is false when one message shows two amounts in
  turn, hence `did`.
- `HostTyped`, `StateSurvives`, `AlarmsExplained`, `HistoryCorrect`,
  `SessionsCorrect`, `RestartsNeeded`: the types and the five safety properties of
  `Host`, for any number of kills, failed writes, edits, nonces, sessions and restarts.
  Each part has an invariant over the moves that `Host` makes of it. `FileInv` says what
  the writer holds in hand between two calls: the last snapshot taken and not yet saved,
  a signature only over the snapshot that is in the file, a history one trade longer
  than the limit at most. `WebInv` says that a listed nonce belongs to this life and has
  bought nothing, and that every session, a guest's too, is signed with the key of its
  life, and `WebTyped` where times left, lives, keys and nonces come from.
  `BeatInv` bounds the age of the beat plus what is left of the sleep or the boot; this
  sum, and not the age alone, is what a passing second keeps.
- `Typed`, `EachIsSoldOnce`, `CashIsAccountedFor`, `StoppedIsFlat`, `StopsTighten`
  (`DemoConsole`): for any number of workers, buttons and cycles. That the trade log
  matches the book holds whatever overlaps, by `Log` alone. The ledger and what stopping
  promises hold while nothing has overlapped: then at most one process is at work
  (`Solo`), what it has read is still so, and the cash is what the book and the log
  account for (`Balance`, a sum over all positions) plus what that process has credited
  and not logged, or debited and not booked (`AloneOK`, `Pending`). That stops tighten,
  while no two cycles overlap, rests on `Trails`: a position that trails has its stop at
  the entry or above.

**Model-checked only.** Everything under fairness (`CycleEnds`,
`EveryPositionExamined`, `HandlerEnds`, `PanicCompletes`, `StopHonoured`,
`LossHalts`, `AgentComesBack`), since TLAPS proves no liveness under fairness and no
ENABLED. What the recursive functions of `Signals` compute (EMA, RSI, ADX and the vote
made of them) is not proved either, as it would take induction over data; the proofs about
`Decision` hold whatever the vote says.

## Where the code and its documents disagree

The two `x_` runs each show one disagreement; `PROJECT.json` quotes the lines.
The others were met while modelling. Each can be seen in the actions named, and
where a property has an exception, it is there because of one of these.

In the orchestrator (`Agent`):

- `_reconcile_positions` walks `self.positions` by index across awaits (`agent.py:221`).
  A sale that removes an earlier element makes it skip a position, which the
  rebinding at :241 then drops although its token is held (`WalkOn`); :205 says that it
  discards positions that "no longer exist on-chain".
- The heartbeat swaps outside the mutex and asks the risk engine nothing.
- A sale that raises (a CLI that is killed after its 120 s: `sell_all` turns only a
  `TwakError` into a failed result) leaves `/panic` before it halts the risk engine,
  although `README.md:140` has it "sell all + halt", and ends the pass of the monitor, so
  that the positions behind it are not looked at as long as it raises again:
  `docs/ARCHITECTURE.md:129` says "for each open position". `PanicCompletes` and
  `EveryPositionExamined` except both. Out of a purchase it ends the cycle
  without the two hours' cooldown (`SwapRaises`).
- `/pausar` overwrites `HALTED`. An agent restored as `HALTED` has an open latch, so
  that `/buy` goes through although `start()` refuses, and the position it opens has no
  loops to watch it; `agent.py:552` says "monitored (stop/trailing) normally". An
  approved proposal asks no gate at all, so that one made before a `/panic` buys after it;
  `agent.py:467` says "A HALT stops ALL trading".
- A `/panic` that arrives while a boot is resuming is overtaken: the end of `start()`
  overwrites `HALTED` and starts the loops.
- A manual buy of a tracked token books a second position in it, and a purchase that
  returns after a stop leaves a position that no loop watches.
- Withdraw leaves the positions bought while it was selling.

In the risk engine and the exits (`CircuitBreaker`, `PositionExit`):

- A tick more than 10 % from the last believed one is refused **and not remembered**
  (`agent.py:1211`): after a gap, or a restart with an old price, neither the stop nor
  the trailing nor the time-stop is evaluated again, while `agent.py:1206` says "A REAL move
  arrives as consecutive in-range ticks". `StopHonoured` is therefore about a price within the limit (`Near`).
- A failed read of the stables is logged and skipped (`bnb_validation.py:326`); the
  deflated sum passes for a reliable reading and trips the breaker
  (`risk_engine.py:392`), against "price hiccup must not liquidate the wallet by mistake"
  (`agent.py:706`).
- A breaker tripped by the scan saves nothing, so a restart rebases the peak and
  trades on; `run_agent.py:99` says "the circuit breaker would already have halted and
  saved HALTED".
- A manual buy that lands while the wallet is read is counted twice (a phantom peak),
  a sale not at all (a false alarm). A token whose price goes to nothing makes every
  reading unreliable: the breaker stays silent just then.
- `/reiniciar` after a daily loss rebases the peak and leaves the day's anchor, so that
  the next cycle halts again; a restart, and a manual buy around midnight, set a new
  anchor in mid-day.
- A DCA position, documented as without trailing and timed, falls back to the
  global trigger, and once armed has no time-stop.

In what a cycle decides (`Decision`):

- `_copilot` is read again after every await: a switch in mid-cycle lets the autonomous
  mode swap a candidate that the brain scored far below its bar, while `agent.py:873`
  says "autonomous only acts on a true is_buy".
- The size that the cycle computes skips the cap, which `agent.py:917` says is
  "respected later": a bet may exceed it by 15 %. `BetWithinBounds` states the bound
  that does hold.
- The expectancy arbiter never learns: the records of closed trades carry no
  strategy. Rotation never happens: it looks for a Portuguese word in an English detail
  (`agent.py:988`, `risk_engine.py:191`). The label `BULL` is never given.
- Filter 2 quotes the sale of as many tokens as dollars are spent, not of the tokens it
  would buy; `LegsCovered` says what is left of the promise. Manual buys and approvals pass
  no reference price, so that the oracle check is skipped for them.
- One failed batch call takes the change of BTC and the price of the stable with it, and
  with them the crash gate and the depeg guard.

In the chat, the files and the site (`Chat`, `Host`, `DemoConsole`):

- The numbers of the proposals start again with the process: an old button may approve
  another trade than its message shows. `ApprovedAsShown` is limited to one life for this.
- A tap whose answer Telegram refuses, or whose edit times out after it took effect, is
  lost although the message may say that it is being carried out. Withdrawing asks for no
  confirmation. The summary of the wizard may show older settings than those it starts with.
  `/start` only shows the menu, although pausing says that it resumes.
- The target of `/meta` is saved and never restored.
- `restore` halts on a changed file and then loads it all the same, its state included,
  and the boot signs it anew: `agent.py:358` says "refuse to trade on it, freeze".
  The next boot finds a good signature, or an empty one if it was killed in between, and
  trades on. A kill between the replacement of the state file and its
  signature raises a false alarm in the same way (`AlarmHasCause` counts it as a cause).
- The demo's panic says "liquidated everything and halted" (`demo.py:143`); a cycle in
  flight may buy after it (`StoppedHoldsNothing` excepts overlaps). The demo's configuration
  has no effect on its cycles.

## Not modelled

- **Pages, translations, the x402 proxy** (`webapp/site.py` but for its health check and
  sign-in, `i18n.py`, `x402_proxy.py`): read-only presentation and a stateless proxy.
- **Payments** (`payments`): a request, a payment and one retry inside a single call whose
  failure the brain treats as a failed read; the settlement is external.
- **Market cache**: one file rewritten as a whole; its content is a free choice in
  `DemoConsole`.
- **Identity, charts, projections, candle download, backtest, paper executor, scripts**:
  no state that trading reads.
- Of the modelled components: the liquidity audit of the watchlist and publishing
  (suspension points in `Agent` at most), `resume()` (no interface calls it), rotation
  (unreachable), the text of the prompt and what it shows of the charts, the
  indicators only the prompt uses, `dynamic_sl_tp` and `tier_from_var` of the risk
  engine, which only the demo calls (it appears there as a stop distance).
