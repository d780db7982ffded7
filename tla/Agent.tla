------------------------------- MODULE Agent -------------------------------
(***************************************************************************)
(* The orchestrator of boomerang/agent.py as the asyncio program it is.    *)
(*                                                                         *)
(* One event loop runs four tasks: the scan loop and the monitor loop that *)
(* _start_loops creates, the Telegram handler ("owner": updates are handled*)
(* one at a time) and the main coroutine, which may auto-resume trading    *)
(* after a restart ("boot").  An action is the code a task runs between    *)
(* two awaits that suspend it, so tasks interleave exactly at the awaits.  *)
(* Swaps run in a worker thread (asyncio.to_thread): the thread lands in an*)
(* action of its own, and it outlives the task that awaited it.            *)
(*                                                                         *)
(* Abstracted: amounts and prices (a symbol is either in the wallet, above *)
(* the dust limit, or not), the market data and the brain (which candidates*)
(* survive is a free choice), the clock (a cooldown is running or not) and *)
(* alerts, logs and on-chain attestations, which write none of this state. *)
(***************************************************************************)
EXTENDS Naturals, FiniteSets

CONSTANTS
  Symbols,        \* the eligible tokens of the run
  None,           \* "no value" (a model value)
  MaxConcurrent,  \* dev_safety.max_concurrent_positions
  BuyLimit,       \* the `limit` of RiskEngine.too_many_buys
  MaxIds,         \* bound of the run: Position objects ever created
  Outcomes,       \* what a swap may return (a subset of SwapOutcomes)
  Commands,       \* the owner commands the run explores
  SavedStates     \* the states a run may be restored with, "IDLE" for a first boot

SwapOutcomes == {"ok", "fail", "approval", "raise"}
OwnerCommands == {"start", "pause", "restart", "panic", "withdraw", "buy", "sell",
                  "sellAll", "approve", "reject", "copilot"}
Trading == {"SCANNING", "IN_POSITION"}   \* the states the two loops run in
Loops == {"scan", "monitor"}
Handlers == {"owner", "boot"}
Tasks == Loops \cup Handlers
AgentStates == {"IDLE", "SCANNING", "IN_POSITION", "PAUSED", "HALTED"}

ASSUME AgentAssumption ==
  /\ IsFiniteSet(Symbols) /\ None \notin Symbols \cup Tasks
  /\ MaxConcurrent \in Nat
  /\ BuyLimit \in Nat
  /\ MaxIds \in Nat
  /\ Outcomes \subseteq SwapOutcomes
  /\ Commands \subseteq OwnerCommands
  /\ SavedStates \subseteq AgentStates

(***************************************************************************)
(* A Position object.  Python compares positions by value and every one    *)
(* differs in opened_at or entry_price, so an id stands for the object.    *)
(* Ids grow in the order of creation, which is the order of the list       *)
(* self.positions: the list is the set of its members ordered by id.       *)
(***************************************************************************)
Position == [sym : Symbols, id : 1 .. MaxIds]
Ref == [sym : Symbols \cup {None}, id : 0 .. MaxIds]
NoRef == [sym |-> None, id |-> 0]
Ticket(s) == [sym |-> s, id |-> 0]       \* a purchase of s, not yet a Position

SwapPC == {"buySwap", "sellSwap", "hbSwap"}      \* awaiting a swap thread
LockedPC == {"buySwap", "sellSwap"}              \* ... inside `with trade_lock`
BuyingPC == {"buySwap", "buyWait", "buyPx"}
ReconcilePC == {"recBal", "recPx"}
ScanPC == {"equity", "impRead", "impGot", "recDone", "market", "brain", "validate",
           "hbSwap"} \cup BuyingPC \cup ReconcilePC
SellPC == {"sellBal", "sellDec", "sellSwap", "sellWait", "sellOut"}
HandlerPC == {"boot", "idle", "announce", "rsEquity", "panicOut", "transfer", "fbEquity",
              "fbValidate", "sellNext"}
PCs == {"dead", "top", "tick"} \cup ScanPC \cup SellPC \cup HandlerPC

(***************************************************************************)
(* The local variables of a suspended task.                                *)
(*   pc        the await it is suspended at                                *)
(*   cmd       the owner command being handled                             *)
(*   cur       the position (or purchase) at hand                          *)
(*   todo      the snapshot list(self.positions) still to be walked        *)
(*   cands     the BUY verdicts still to be tried, `buys` of run_cycle     *)
(*   idx, view, live, kept, gone   the loop of _reconcile_positions: its   *)
(*             index, the list object it walks (live while that object is  *)
(*             still self.positions), `kept`, and `dropped` being nonempty *)
(*   read      what the wallet held when the reading thread looked         *)
(*   res       what the awaited swap returned                              *)
(*   retried   the 20 s approval wait has been used                        *)
(***************************************************************************)
Results == {"none", "dust"} \cup SwapOutcomes
Task == [pc : PCs, cmd : OwnerCommands \cup {"none"}, cur : Ref, todo : SUBSET Position,
         cands : SUBSET Symbols, idx : Nat, view : SUBSET Position, live : BOOLEAN,
         kept : SUBSET Position, gone : BOOLEAN, read : SUBSET Symbols, res : Results,
         retried : BOOLEAN]
Fresh == [pc |-> "idle", cmd |-> "none", cur |-> NoRef, todo |-> {}, cands |-> {},
          idx |-> 0, view |-> {}, live |-> FALSE, kept |-> {}, gone |-> FALSE,
          read |-> {}, res |-> "none", retried |-> FALSE]
Parked(l) == [Fresh EXCEPT !.pc = l]

VARIABLES
  state,      \* self.state
  halted,     \* self._risk._halted
  positions,  \* self.positions
  nextId,     \* the next Position object
  wallet,     \* the eligible tokens really held on chain
  task,       \* the local variables of every task
  lock,       \* the task holding self._risk.trade_lock, or None
  wedged,     \* the loop thread blocks for ever on a lock whose holder needs the loop
  detached,   \* swap threads whose task was cancelled
  cooling,    \* a trade was recorded less than trade_cooldown_seconds ago
  recentBuys, \* buys recorded in the rapid-buy window
  pending,    \* self._pending: the symbol proposed to the owner, or None
  copilot     \* self._copilot
vars == <<state, halted, positions, nextId, wallet, task, lock, wedged, detached,
          cooling, recentBuys, pending, copilot>>
risk == <<cooling, recentBuys>>
book == <<positions, nextId>>
owner == <<pending, copilot>>

InFlight(t) == task[t].pc \in SwapPC /\ task[t].res = "none"
Thread == [kind : SwapPC, sym : Symbols \cup {None}]
Held == {p.sym : p \in positions}

\* Type invariant: every variable, and every local variable of a task, stays in range.
TypeOK ==
  /\ state \in AgentStates
  /\ halted \in BOOLEAN
  /\ positions \subseteq Position
  /\ nextId \in 1 .. MaxIds + 1
  /\ wallet \subseteq Symbols
  /\ task \in [Tasks -> Task]
  /\ lock \in Tasks \cup {None}
  /\ wedged \in BOOLEAN
  /\ detached \subseteq Thread
  /\ cooling \in BOOLEAN
  /\ recentBuys \in Nat
  /\ pending \in Symbols \cup {None}
  /\ copilot \in BOOLEAN

-----------------------------------------------------------------------------
(* Building blocks *)

\* Task t resumes from the await l: the loop thread is free to run it.
At(t, l) == task[t].pc = l /\ ~wedged
Set(t, r) == task' = [task EXCEPT ![t] = r]
Resting(t) == Parked(IF t \in Loops THEN "top" ELSE "idle")
Oldest(S) == {p \in S : \A q \in S : p.id <= q.id}    \* the head of the list, if any

LeakyReplaceLoops(l, tasks) ==   \* mutant: a cancelled swap keeps the mutex
  /\ task' = [t \in Tasks |-> IF t \in Loops THEN Parked(l) ELSE tasks[t]]
  /\ lock' = lock
  /\ detached' = detached \cup
       {[kind |-> task[t].pc, sym |-> task[t].cur.sym] : t \in {u \in Loops : InFlight(u)}}

\* _start_loops / _cancel_loops.  A cancelled task unwinds at once: its `with`
\* releases the lock, its swap thread goes on alone.
ReplaceLoops(l, tasks) ==
  /\ task' = [t \in Tasks |-> IF t \in Loops THEN Parked(l) ELSE tasks[t]]
  /\ lock' = IF lock \in Loops THEN None ELSE lock
  /\ detached' = detached \cup
       {[kind |-> task[t].pc, sym |-> task[t].cur.sym] : t \in {u \in Loops : InFlight(u)}}
StartLoops(tasks) == ReplaceLoops("top", tasks)
CancelLoops(tasks) == ReplaceLoops("dead", tasks)

\* `with self._risk.trade_lock` is a blocking acquire on the loop's own thread.
TakeLock(t, r) ==
  \/ lock = None /\ lock' = t /\ Set(t, r) /\ UNCHANGED wedged
  \/ lock # None /\ wedged' = TRUE /\ UNCHANGED <<lock, task>>

\* The wallets a swap thread may leave behind.
Moved(kind, s) == CASE kind = "buySwap" -> wallet \cup {s}
                    [] kind = "sellSwap" -> wallet \ {s}
                    [] OTHER -> wallet
Landing(kind, s, out) ==
  CASE out = "ok" -> IF kind = "sellSwap" /\ s \notin wallet THEN {} ELSE {Moved(kind, s)}
    [] out = "raise" -> {wallet, Moved(kind, s)}
    [] OTHER -> {wallet}

SwapLands(t) ==
  /\ InFlight(t)
  /\ \E out \in Outcomes : \E w \in Landing(task[t].pc, task[t].cur.sym, out) :
       /\ wallet' = w
       /\ Set(t, [task[t] EXCEPT !.res = out])
  /\ UNCHANGED <<state, halted, book, lock, wedged, detached, risk, owner>>

DetachedLands ==
  /\ \E th \in detached : \E out \in Outcomes : \E w \in Landing(th.kind, th.sym, out) :
       /\ wallet' = w
       /\ detached' = detached \ {th}
  /\ UNCHANGED <<state, halted, book, task, lock, wedged, risk, owner>>

-----------------------------------------------------------------------------
(* _open *)

\* Bound of the run: a purchase starts only if its Position object fits.
CanOpen == nextId + Cardinality({t \in Tasks : task[t].pc \in BuyingPC}) <= MaxIds

OpenBegins(t, s) ==
  /\ CanOpen
  /\ TakeLock(t, [task[t] EXCEPT !.pc = "buySwap", !.cur = Ticket(s), !.res = "none",
                                 !.retried = FALSE, !.cands = @ \ {s}])

\* The position is booked; the state is set whatever it had become meanwhile.
Opened(t) ==
  /\ nextId <= MaxIds
  /\ positions' = positions \cup {[sym |-> task[t].cur.sym, id |-> nextId]}
  /\ nextId' = nextId + 1
  /\ recentBuys' = recentBuys + 1
  /\ state' = "IN_POSITION"
  /\ cooling' = TRUE
  /\ Set(t, Resting(t))

\* _open returned False: run_cycle tries its next candidate, a handler is done.
OpenFailed(t) ==
  Set(t, IF t = "scan" /\ task[t].cands # {}
           THEN [Parked("validate") EXCEPT !.cands = task[t].cands] ELSE Resting(t))

BuySwapReturns(t) ==
  /\ At(t, "buySwap") /\ task[t].res # "none"
  /\ lock' = None
  /\ LET res == task[t].res
         again == res = "approval" /\ ~task[t].retried
     IN \/ again /\ Set(t, [task[t] EXCEPT !.pc = "buyWait", !.retried = TRUE])
           /\ UNCHANGED <<state, book, risk>>
        \/ res \in {"fail", "approval"} /\ ~again /\ OpenFailed(t)
           /\ UNCHANGED <<state, book, risk>>
        \/ res = "raise" /\ Set(t, Resting(t)) /\ UNCHANGED <<state, book, risk>>
        \/ res = "ok" /\ Opened(t)
        \/ res = "ok" /\ Set(t, [task[t] EXCEPT !.pc = "buyPx"])   \* no price in the receipt
           /\ UNCHANGED <<state, book, risk>>
  /\ UNCHANGED <<halted, wallet, wedged, detached, owner>>

BuyRetries(t) ==
  /\ At(t, "buyWait")
  /\ TakeLock(t, [task[t] EXCEPT !.pc = "buySwap", !.res = "none"])
  /\ UNCHANGED <<state, halted, book, wallet, detached, risk, owner>>

\* The entry price is read after the swap; if that read raises, nothing is booked.
BuyPriceReturns(t) ==
  /\ At(t, "buyPx")
  /\ \/ Opened(t)
     \/ "raise" \in Outcomes /\ Set(t, Resting(t)) /\ UNCHANGED <<state, book, risk>>
  /\ UNCHANGED <<halted, wallet, lock, wedged, detached, owner>>

-----------------------------------------------------------------------------
(* _sell *)

Selling(r, p, rest) == [r EXCEPT !.pc = "sellBal", !.cur = p, !.todo = rest,
                                 !.read = {}, !.res = "none", !.retried = FALSE]

\* A failed balance read falls back to the tracked quantity: treated as held.
SellBalance(t) ==
  /\ At(t, "sellBal")
  /\ \E r \in {wallet \cap {task[t].cur.sym}, {task[t].cur.sym}} :
       Set(t, [task[t] EXCEPT !.pc = "sellDec", !.read = r])
  /\ UNCHANGED <<state, halted, book, wallet, lock, wedged, detached, risk, owner>>

\* Only dust left: untrack without a swap.  Otherwise swap under the lock.
SellGoes(t) ==
  /\ At(t, "sellDec")
  /\ IF task[t].cur.sym \in task[t].read
       THEN TakeLock(t, [task[t] EXCEPT !.pc = "sellSwap", !.read = {}]) /\ UNCHANGED positions
       ELSE /\ positions' = positions \ {task[t].cur}
            /\ Set(t, [task[t] EXCEPT !.pc = "sellOut", !.read = {}, !.res = "dust"])
            /\ UNCHANGED <<lock, wedged>>
  /\ UNCHANGED <<state, halted, nextId, wallet, detached, risk, owner>>

PatientSellSwapReturns(t) ==   \* mutant: the approval is waited for again and again
  /\ At(t, "sellSwap") /\ task[t].res # "none"
  /\ lock' = None
  /\ LET res == task[t].res
     IN \/ res = "approval" /\ Set(t, [task[t] EXCEPT !.pc = "sellWait", !.retried = TRUE])
           /\ UNCHANGED <<positions, cooling>>
        \/ res = "fail" /\ Set(t, [task[t] EXCEPT !.pc = "sellOut", !.res = "fail"])
           /\ UNCHANGED <<positions, cooling>>
        \/ res = "raise" /\ Set(t, Resting(t)) /\ UNCHANGED <<positions, cooling>>
        \/ res = "ok" /\ Set(t, [task[t] EXCEPT !.pc = "sellOut"])
           /\ positions' = positions \ {task[t].cur} /\ cooling' = TRUE
  /\ UNCHANGED <<state, halted, nextId, wallet, wedged, detached, recentBuys, owner>>

\* A failed sell keeps the position tracked.
SellSwapReturns(t) ==
  /\ At(t, "sellSwap") /\ task[t].res # "none"
  /\ lock' = None
  /\ LET res == task[t].res
         again == res = "approval" /\ ~task[t].retried
     IN \/ again /\ Set(t, [task[t] EXCEPT !.pc = "sellWait", !.retried = TRUE])
           /\ UNCHANGED <<positions, cooling>>
        \/ res \in {"fail", "approval"} /\ ~again
           /\ Set(t, [task[t] EXCEPT !.pc = "sellOut", !.res = "fail"])
           /\ UNCHANGED <<positions, cooling>>
        \/ res = "raise" /\ Set(t, Resting(t)) /\ UNCHANGED <<positions, cooling>>
        \/ res = "ok" /\ Set(t, [task[t] EXCEPT !.pc = "sellOut"])
           /\ positions' = positions \ {task[t].cur} /\ cooling' = TRUE
  /\ UNCHANGED <<state, halted, nextId, wallet, wedged, detached, recentBuys, owner>>

SellRetries(t) ==
  /\ At(t, "sellWait")
  /\ TakeLock(t, [task[t] EXCEPT !.pc = "sellSwap", !.res = "none"])
  /\ UNCHANGED <<state, halted, book, wallet, detached, risk, owner>>

-----------------------------------------------------------------------------
(* _reconcile_positions and _import_orphans *)

\* `for pos in self.positions` walks a list object by index while others mutate it.
Rank(p, S) == Cardinality({q \in S : q.id < p.id})
Walked(t) == IF task[t].live THEN positions ELSE task[t].view

WalkAt(r, S, i) ==
  IF i < Cardinality(S)
    THEN {[r EXCEPT !.pc = "recBal", !.idx = i, !.cur = p, !.read = {}] :
            p \in {q \in S : Rank(q, S) = i}}
    ELSE {[r EXCEPT !.pc = "impRead", !.idx = 0, !.cur = NoRef, !.live = FALSE, !.view = {},
                    !.kept = {}, !.gone = FALSE, !.read = {}]}
Reconciling(r) == WalkAt([r EXCEPT !.live = TRUE], positions, 0)

\* `self.positions = kept`: whoever walks the old list object keeps walking it.
Rebind(t, r, k) ==
  /\ positions' = k
  /\ task' = [u \in Tasks |->
                IF u = t THEN r
                ELSE IF task[u].live THEN [task[u] EXCEPT !.live = FALSE, !.view = positions]
                ELSE task[u]]

StuckWalkOn(t, k, g) ==   \* mutant: a kept position is looked at again
  \E r \in WalkAt([task[t] EXCEPT !.kept = k, !.gone = g], Walked(t),
                  task[t].idx + (IF g THEN 1 ELSE 0)) :
    IF r.pc = "impRead" /\ g THEN Rebind(t, r, k)
                             ELSE Set(t, r) /\ UNCHANGED positions

\* One position checked; k and g are `kept` and `dropped` by now.
WalkOn(t, k, g) ==
  \E r \in WalkAt([task[t] EXCEPT !.kept = k, !.gone = g], Walked(t), task[t].idx + 1) :
    IF r.pc = "impRead" /\ g THEN Rebind(t, r, k)
                             ELSE Set(t, r) /\ UNCHANGED positions

\* The token balance is read; a failed read keeps the position.
ReconcileBalance(t) ==
  /\ At(t, "recBal")
  /\ \/ /\ Set(t, [task[t] EXCEPT !.pc = "recPx", !.read = wallet \cap {task[t].cur.sym}])
        /\ UNCHANGED positions
     \/ WalkOn(t, task[t].kept \cup {task[t].cur}, task[t].gone)
  /\ UNCHANGED <<state, halted, nextId, wallet, lock, wedged, detached, risk, owner>>

\* The price is read; a balance that is dust, or mostly gone, drops the position.
ReconcilePrice(t) ==
  /\ At(t, "recPx")
  /\ IF task[t].cur.sym \in task[t].read
       THEN WalkOn(t, task[t].kept \cup {task[t].cur}, task[t].gone)
       ELSE WalkOn(t, task[t].kept, TRUE)
  /\ UNCHANGED <<state, halted, nextId, wallet, lock, wedged, detached, risk, owner>>

\* wallet_breakdown runs in a thread; a token it cannot price is left out.
ImportReads(t) ==
  /\ At(t, "impRead")
  /\ \E priced \in SUBSET wallet : Set(t, [task[t] EXCEPT !.pc = "impGot", !.read = priced])
  /\ UNCHANGED <<state, halted, book, wallet, lock, wedged, detached, risk, owner>>

GreedyImported(t) ==   \* mutant: what is already tracked is imported too
  IF nextId + Cardinality(task[t].read) <= MaxIds + 1 THEN task[t].read ELSE {}

\* Bound of the run: the holdings are imported only if their Position objects fit.
Imported(t) ==
  LET untracked == task[t].read \ Held
      reserved == Cardinality({u \in Tasks : task[u].pc \in BuyingPC})
  IN IF nextId + Cardinality(untracked) + reserved <= MaxIds + 1 THEN untracked ELSE {}

ImportApplies(t) ==
  /\ At(t, "impGot")
  /\ LET new == Imported(t)
     IN /\ \E n \in nextId .. MaxIds + 1 : \E id \in [new -> nextId .. MaxIds] :
             /\ {id[s] : s \in new} = nextId .. (n - 1)
             /\ \A s, u \in new : id[s] = id[u] => s = u
             /\ positions' = positions \cup {[sym |-> s, id |-> id[s]] : s \in new}
             /\ nextId' = n
        /\ state' = IF new # {} /\ state = "SCANNING" THEN "IN_POSITION" ELSE state
  /\ Set(t, [task[t] EXCEPT !.pc = "recDone", !.read = {}])
  /\ UNCHANGED <<halted, wallet, lock, wedged, detached, risk, owner>>

-----------------------------------------------------------------------------
(* _scan_loop and run_cycle *)

ScanWakes ==
  /\ At("scan", "top")
  /\ Set("scan", Parked(IF state \in Trading THEN "equity" ELSE "dead"))
  /\ UNCHANGED <<state, halted, book, wallet, lock, wedged, detached, risk, owner>>

\* An unavailable or unreliable reading skips the cycle.  Whether the equity read has
\* breached a limit is settled after the reconciliation, where the code first asks.
ScanEquity ==
  /\ At("scan", "equity")
  /\ \/ Set("scan", Parked("top"))
     \/ \E r \in Reconciling(task["scan"]) : Set("scan", r)
  /\ UNCHANGED <<state, halted, book, wallet, lock, wedged, detached, risk, owner>>

\* Drawdown or daily cap: panic() from inside the scan task.  _cancel_loops cancels the
\* caller too, which ends at its first suspension (the alert) and neither liquidates nor
\* halts the risk engine.
ScanPanics ==
  /\ At("scan", "recDone")
  /\ state' = "HALTED"
  /\ CancelLoops(task)
  /\ UNCHANGED <<halted, book, wallet, wedged, risk, owner>>

OverrunAnomaly ==   \* mutant: the cycle goes on after the tripwire
  /\ At("scan", "recDone") /\ recentBuys >= BuyLimit
  /\ halted' = TRUE
  /\ state' = "HALTED"
  /\ Set("scan", Parked("market"))
  /\ UNCHANGED <<book, wallet, lock, wedged, detached, risk, owner>>

\* The rapid-buy tripwire; whether the buys fell within its 60 s is left open.
ScanAnomaly ==
  /\ At("scan", "recDone") /\ recentBuys >= BuyLimit
  /\ halted' = TRUE
  /\ state' = "HALTED"
  /\ Set("scan", Parked("top"))
  /\ UNCHANGED <<book, wallet, lock, wedged, detached, risk, owner>>

\* 20 h without a trade: a stable-to-stable swap, outside the lock.
ScanHeartbeat ==
  /\ At("scan", "recDone") /\ ~cooling
  /\ Set("scan", Parked("hbSwap"))
  /\ UNCHANGED <<state, halted, book, wallet, lock, wedged, detached, risk, owner>>

\* Whatever the swap returned, a trade is recorded.
HeartbeatReturns ==
  /\ At("scan", "hbSwap") /\ task["scan"].res # "none"
  /\ cooling' = TRUE
  /\ Set("scan", Parked("market"))
  /\ UNCHANGED <<state, halted, book, wallet, lock, wedged, detached, recentBuys, owner>>

ScanAnalyses ==
  /\ At("scan", "recDone")
  /\ Set("scan", Parked("market"))
  /\ UNCHANGED <<state, halted, book, wallet, lock, wedged, detached, risk, owner>>

\* can_open_position; the amounts it also weighs may block at any time.
GateWithoutCooldown == ~halted /\ Cardinality(positions) < MaxConcurrent     \* mutant
GateOffByOne == ~halted /\ Cardinality(positions) <= MaxConcurrent /\ ~cooling  \* mutant
GateIgnoresHalt == Cardinality(positions) < MaxConcurrent /\ ~cooling          \* mutant
GateAllows == ~halted /\ Cardinality(positions) < MaxConcurrent /\ ~cooling

ScanGate ==
  /\ At("scan", "market")
  /\ \/ Set("scan", Parked("top"))
     \/ GateAllows /\ Set("scan", Parked("brain"))
  /\ UNCHANGED <<state, halted, book, wallet, lock, wedged, detached, risk, owner>>

\* The brain's BUY verdicts, less the symbols held at this moment.
ScanPicks ==
  /\ At("scan", "brain")
  /\ \E c \in SUBSET (Symbols \ Held) :
       Set("scan", IF c = {} THEN Parked("top") ELSE [Parked("validate") EXCEPT !.cands = c])
  /\ UNCHANGED <<state, halted, book, wallet, lock, wedged, detached, risk, owner>>

\* Confluence and on-chain validation of one candidate: reject, propose or buy.
ScanValidates ==
  /\ At("scan", "validate")
  /\ \E s \in task["scan"].cands :
       LET rest == task["scan"].cands \ {s}
       IN \/ /\ Set("scan", IF rest = {} THEN Parked("top")
                            ELSE [Parked("validate") EXCEPT !.cands = rest])
             /\ UNCHANGED <<lock, wedged, pending>>
          \/ /\ copilot
             /\ pending' = IF pending = None THEN s ELSE pending
             /\ Set("scan", Parked("top"))
             /\ UNCHANGED <<lock, wedged>>
          \/ ~copilot /\ OpenBegins("scan", s) /\ UNCHANGED pending
  /\ UNCHANGED <<state, halted, book, wallet, detached, risk, copilot>>

-----------------------------------------------------------------------------
(* _monitor_loop and check_positions *)

Emptied == IF positions = {} /\ state = "IN_POSITION" THEN "SCANNING" ELSE state

\* check_positions goes on to the next position of its snapshot, or ends.
CheckNext(rest) ==
  /\ state' = IF rest = {} THEN Emptied ELSE state
  /\ IF rest = {} THEN Set("monitor", Parked("top"))
     ELSE \E p \in Oldest(rest) :
            Set("monitor", [Parked("tick") EXCEPT !.cur = p, !.todo = rest \ {p}])

MonitorWakes ==
  /\ At("monitor", "top")
  /\ IF state \in Trading THEN CheckNext(positions)
                          ELSE Set("monitor", Parked("dead")) /\ UNCHANGED state
  /\ UNCHANGED <<halted, book, wallet, lock, wedged, detached, risk, owner>>

BreakingMonitorTick ==   \* mutant: a `break` for the `continue` of a held position
  /\ At("monitor", "tick")
  /\ LET r == task["monitor"]
     IN \/ Set("monitor", Parked("top")) /\ UNCHANGED state
        \/ Set("monitor", Selling(r, r.cur, r.todo)) /\ UNCHANGED state
  /\ UNCHANGED <<halted, book, wallet, lock, wedged, detached, risk, owner>>

\* The price, then the exit rules or the brain: hold, or sell.
MonitorTick ==
  /\ At("monitor", "tick")
  /\ LET r == task["monitor"]
     IN \/ CheckNext(r.todo)
        \/ Set("monitor", Selling(r, r.cur, r.todo)) /\ UNCHANGED state
  /\ UNCHANGED <<halted, book, wallet, lock, wedged, detached, risk, owner>>

-----------------------------------------------------------------------------
(* What a finished _sell returns to *)

SellFirst(t, r, S, last) ==
  IF S = {} THEN last ELSE \E p \in Oldest(S) : Set(t, Selling(r, p, S \ {p}))

\* sell_all_positions: the first tracked position of each symbol of the snapshot.
SellNext(t, r, S) ==
  IF S = {} THEN Set(t, Fresh)
  ELSE \E p \in Oldest(S) :
         IF p.sym \in Held
           THEN \E q \in Oldest({x \in positions : x.sym = p.sym}) :
                  Set(t, Selling(r, q, S \ {p}))
           ELSE Set(t, [r EXCEPT !.pc = "sellNext", !.todo = S \ {p}])

SellSkips ==
  /\ At("owner", "sellNext")
  /\ SellNext("owner", task["owner"], task["owner"].todo)
  /\ UNCHANGED <<state, halted, book, wallet, lock, wedged, detached, risk, owner>>

MonitorSold ==
  /\ At("monitor", "sellOut")
  /\ LET rest == task["monitor"].todo
     IN /\ state' = IF task["monitor"].res = "dust" \/ rest = {} THEN Emptied ELSE state
        /\ IF rest = {} THEN Set("monitor", Parked("top"))
           ELSE \E p \in Oldest(rest) :
                  Set("monitor", [Parked("tick") EXCEPT !.cur = p, !.todo = rest \ {p}])
  /\ UNCHANGED <<halted, book, wallet, lock, wedged, detached, risk, owner>>

OwnerSold ==
  /\ At("owner", "sellOut")
  /\ state' = IF task["owner"].res = "dust" THEN Emptied ELSE state
  /\ LET r == task["owner"]
         away == [Fresh EXCEPT !.pc = "transfer", !.cmd = "withdraw"]
     IN \/ r.cmd = "sell" /\ Set("owner", Fresh) /\ UNCHANGED halted
        \/ r.cmd = "sellAll" /\ SellNext("owner", r, r.todo) /\ UNCHANGED halted
        \/ r.cmd = "withdraw" /\ SellFirst("owner", r, r.todo, Set("owner", away))
           /\ UNCHANGED halted
        \/ /\ r.cmd = "panic"
           /\ SellFirst("owner", r, r.todo, Set("owner", Fresh))
           /\ halted' = (halted \/ r.todo = {})          \* risk.halt(), at the very end
  /\ UNCHANGED <<book, wallet, lock, wedged, detached, risk, owner>>

-----------------------------------------------------------------------------
(* The owner's commands, and the boot that resumes trading *)

Receives(c) == c \in Commands /\ At("owner", "idle")
Command(c) == [Fresh EXCEPT !.cmd = c]

\* start() refuses while HALTED, and only here looks at it.
Start ==
  /\ Receives("start") /\ state # "HALTED"
  /\ \E r \in Reconciling(Command("start")) : Set("owner", r)
  /\ UNCHANGED <<state, halted, book, wallet, lock, wedged, detached, risk, owner>>

BootResumes ==
  /\ At("boot", "boot")
  /\ IF state \in Trading THEN \E r \in Reconciling(Command("start")) : Set("boot", r)
                          ELSE Set("boot", Fresh)
  /\ UNCHANGED <<state, halted, book, wallet, lock, wedged, detached, risk, owner>>

\* start and restart_session after the reconciliation.
StartDone(t) ==
  /\ t \in Handlers /\ At(t, "recDone")
  /\ state' = IF positions # {} THEN "IN_POSITION" ELSE "SCANNING"
  /\ Set(t, [Command(task[t].cmd) EXCEPT !.pc = "announce", !.cands = task[t].cands])
  /\ UNCHANGED <<halted, book, wallet, lock, wedged, detached, risk, owner>>

\* The STARTED alert is out: the loops are created.  /buy goes on to force_buy.
Announced(t) ==
  /\ At(t, "announce")
  /\ StartLoops([task EXCEPT ![t] = IF task[t].cmd = "buy" THEN [@ EXCEPT !.pc = "fbEquity"]
                                                           ELSE Fresh])
  /\ UNCHANGED <<state, halted, book, wallet, wedged, risk, owner>>

LazyPause ==   \* mutant: the loops are left to notice the new state
  /\ Receives("pause")
  /\ state' = "PAUSED"
  /\ UNCHANGED <<halted, book, wallet, task, lock, wedged, detached, risk, owner>>

Pause ==
  /\ Receives("pause")
  /\ state' = "PAUSED"
  /\ CancelLoops(task)
  /\ UNCHANGED <<halted, book, wallet, wedged, risk, owner>>

\* restart_session: the halt is cleared first, the equity read rebases the peak.
Restart ==
  /\ Receives("restart")
  /\ halted' = FALSE
  /\ Set("owner", [Command("restart") EXCEPT !.pc = "rsEquity"])
  /\ UNCHANGED <<state, book, wallet, lock, wedged, detached, risk, owner>>

RestartReads ==
  /\ At("owner", "rsEquity")
  /\ \E r \in Reconciling(task["owner"]) : Set("owner", r)
  /\ UNCHANGED <<state, halted, book, wallet, lock, wedged, detached, risk, owner>>

Panic ==
  /\ Receives("panic")
  /\ state' = "HALTED"
  /\ CancelLoops([task EXCEPT !["owner"] = [Command("panic") EXCEPT !.pc = "panicOut"]])
  /\ UNCHANGED <<halted, book, wallet, wedged, risk, owner>>

ForgetfulPanicLiquidates ==   \* mutant: with nothing to sell the halt is forgotten
  /\ At("owner", "panicOut")
  /\ SellFirst("owner", task["owner"], positions, Set("owner", Fresh))
  /\ UNCHANGED <<state, halted, book, wallet, lock, wedged, detached, risk, owner>>

PanicLiquidates ==
  /\ At("owner", "panicOut")
  /\ SellFirst("owner", task["owner"], positions, Set("owner", Fresh))
  /\ halted' = (halted \/ positions = {})
  /\ UNCHANGED <<state, book, wallet, lock, wedged, detached, risk, owner>>

Withdraw ==
  /\ Receives("withdraw")
  /\ SellFirst("owner", Command("withdraw"), positions,
               Set("owner", [Command("withdraw") EXCEPT !.pc = "transfer"]))
  /\ UNCHANGED <<state, halted, book, wallet, lock, wedged, detached, risk, owner>>

\* Only a TwakError is handled; after it, or a transfer, the agent pauses unless HALTED.
WithdrawTransfers ==
  /\ At("owner", "transfer")
  /\ \/ /\ state # "HALTED"
        /\ state' = "PAUSED"
        /\ CancelLoops([task EXCEPT !["owner"] = Fresh])
     \/ /\ state = "HALTED" \/ "raise" \in Outcomes
        /\ Set("owner", Fresh)
        /\ UNCHANGED <<state, lock, detached>>
  /\ UNCHANGED <<halted, book, wallet, wedged, risk, owner>>

\* /buy starts the agent unless it trades already; start() refuses while HALTED.
Buy ==
  /\ Receives("buy")
  /\ \E s \in Symbols :
       LET r == [Command("buy") EXCEPT !.cands = {s}]
       IN IF state \in {"IDLE", "PAUSED"}
            THEN \E q \in Reconciling(r) : Set("owner", q)
            ELSE Set("owner", [r EXCEPT !.pc = "fbEquity"])
  /\ UNCHANGED <<state, halted, book, wallet, lock, wedged, detached, risk, owner>>

ForceBuyGate ==
  /\ At("owner", "fbEquity")
  /\ \/ Set("owner", Fresh)
     \/ GateAllows /\ Set("owner", [task["owner"] EXCEPT !.pc = "fbValidate"])
  /\ UNCHANGED <<state, halted, book, wallet, lock, wedged, detached, risk, owner>>

\* force_buy and approve_proposal after the on-chain validation.
OwnerValidated ==
  /\ At("owner", "fbValidate")
  /\ \/ Set("owner", Fresh) /\ UNCHANGED <<lock, wedged>>
     \/ \E s \in task["owner"].cands : OpenBegins("owner", s)
  /\ UNCHANGED <<state, halted, book, wallet, detached, risk, owner>>

Sell ==
  /\ Receives("sell")
  /\ \E s \in Held : \E p \in Oldest({x \in positions : x.sym = s}) :
       Set("owner", Selling(Command("sell"), p, {}))
  /\ UNCHANGED <<state, halted, book, wallet, lock, wedged, detached, risk, owner>>

SellAll ==
  /\ Receives("sellAll") /\ positions # {}
  /\ SellNext("owner", Command("sellAll"), positions)
  /\ UNCHANGED <<state, halted, book, wallet, lock, wedged, detached, risk, owner>>

\* approve_proposal asks no gate: neither the halt, the cap nor the cooldown.
Approve ==
  /\ Receives("approve") /\ pending # None
  /\ pending' = None
  /\ Set("owner", [Command("approve") EXCEPT !.pc = "fbValidate", !.cands = {pending}])
  /\ UNCHANGED <<state, halted, book, wallet, lock, wedged, detached, risk, copilot>>

Reject ==
  /\ Receives("reject") /\ pending # None
  /\ pending' = None
  /\ UNCHANGED <<state, halted, book, wallet, task, lock, wedged, detached, risk, copilot>>

SetCopilot ==
  /\ Receives("copilot")
  /\ copilot' = ~copilot
  /\ UNCHANGED <<state, halted, book, wallet, task, lock, wedged, detached, risk, pending>>

-----------------------------------------------------------------------------
(* Time, and the specification *)

ProposalExpires ==
  /\ pending # None /\ pending' = None
  /\ UNCHANGED <<state, halted, book, wallet, task, lock, wedged, detached, risk, copilot>>

CooldownCountsDown ==   \* mutant: the window drops one buy, not all of them
  /\ cooling /\ cooling' = FALSE
  /\ recentBuys' = recentBuys - 1
  /\ UNCHANGED <<state, halted, book, wallet, task, lock, wedged, detached, owner>>

\* The cooldown (900 s) outlasts the window of the rapid-buy tripwire (60 of 300 s).
CooldownElapses ==
  /\ cooling /\ cooling' = FALSE
  /\ recentBuys' = 0
  /\ UNCHANGED <<state, halted, book, wallet, task, lock, wedged, detached, owner>>

\* A first boot, or a process restored from a saved state; the halt flag of the risk
\* engine is never restored, the co-pilot switch is, and the positions saved need not
\* match the wallet.  The restart alert suspends main before it decides to resume; a
\* first boot has none.
Init ==
  /\ state \in SavedStates
  /\ halted = FALSE
  /\ \E syms \in SUBSET Symbols : \E id \in [syms -> 1 .. MaxIds] :
       /\ Cardinality(syms) <= MaxIds
       /\ state \in {"IDLE", "SCANNING"} => syms = {}
       /\ {id[s] : s \in syms} = 1 .. Cardinality(syms)
       /\ positions = {[sym |-> s, id |-> id[s]] : s \in syms}
       /\ nextId = Cardinality(syms) + 1
  /\ wallet \in SUBSET Symbols
  /\ task = [t \in Tasks |-> Parked(IF t \in Loops THEN "dead"
                                    ELSE IF t = "boot" /\ state # "IDLE" THEN "boot" ELSE "idle")]
  /\ lock = None
  /\ wedged = FALSE
  /\ detached = {}
  /\ cooling \in BOOLEAN
  /\ recentBuys = 0
  /\ pending = None
  /\ copilot \in BOOLEAN

Buying(t) == BuySwapReturns(t) \/ BuyRetries(t) \/ BuyPriceReturns(t)
SellingSteps(t) == SellBalance(t) \/ SellGoes(t) \/ SellSwapReturns(t) \/ SellRetries(t)
ReconcilingSteps(t) ==
  ReconcileBalance(t) \/ ReconcilePrice(t) \/ ImportReads(t) \/ ImportApplies(t)

ScanStep == \/ ScanWakes \/ ScanEquity \/ ReconcilingSteps("scan") \/ ScanPanics
            \/ ScanAnomaly \/ ScanHeartbeat \/ HeartbeatReturns \/ ScanAnalyses
            \/ ScanGate \/ ScanPicks \/ ScanValidates \/ Buying("scan")
MonitorStep == MonitorWakes \/ MonitorTick \/ MonitorSold \/ SellingSteps("monitor")
BootStep == BootResumes \/ ReconcilingSteps("boot") \/ StartDone("boot") \/ Announced("boot")
\* What the owner's handler does once it has received a command.
OwnerStep == \/ ReconcilingSteps("owner") \/ StartDone("owner") \/ Announced("owner")
             \/ RestartReads \/ PanicLiquidates \/ WithdrawTransfers
             \/ ForceBuyGate \/ OwnerValidated \/ Buying("owner")
             \/ SellingSteps("owner") \/ OwnerSold \/ SellSkips
OwnerCommand == \/ Start \/ Pause \/ Restart \/ Panic \/ Withdraw \/ Buy \/ Sell \/ SellAll
                \/ Approve \/ Reject \/ SetCopilot

Next ==
  \/ ScanStep
  \/ MonitorStep
  \/ BootStep
  \/ OwnerStep
  \/ OwnerCommand
  \/ \E t \in Tasks : SwapLands(t)
  \/ DetachedLands
  \/ ProposalExpires
  \/ CooldownElapses

Spec == Init /\ [][Next]_vars

\* The event loop runs every task that is ready, and a swap thread ends within its
\* 120 s timeout.  Nothing makes the owner send a command.
FairSpec ==
  /\ Spec
  /\ WF_vars(ScanStep) /\ WF_vars(MonitorStep) /\ WF_vars(BootStep) /\ WF_vars(OwnerStep)
  /\ \A t \in Tasks : WF_vars(SwapLands(t))
-----------------------------------------------------------------------------
(* Safety *)

\* The trade mutex is held by exactly the task that awaits a locked swap, whatever
\* cancellation, retry or failure happened on the way: it is never leaked.
MutexOwnsSwap == \A t \in Tasks : lock = t <=> task[t].pc \in LockedPC

\* A scan cycle is in progress only while the agent trades: pause, panic and withdraw
\* leave no half-run cycle behind that could still buy.
ScanOnlyWhileTrading == task["scan"].pc \notin {"dead", "top"} => state \in Trading

\* Once /panic has liquidated everything, the scan never gets past the gate again, not
\* even if the owner pauses and starts the agent: only /reiniciar clears the halt.
HaltFreezesScan ==
  halted => task["scan"].pc \notin {"brain", "validate", "buyWait", "buySwap", "buyPx"}

\* Two tracked positions never hold the same token.
DuplicateFreeBook == \A p, q \in positions : p.sym = q.sym => p = q

\* The scan's own purchase never lifts the book above the limit that the gate checked
\* many awaits earlier.
ScanRespectsCap ==
  [][task["scan"].pc \in BuyingPC /\ task'["scan"].pc = "top" /\ nextId' # nextId
       => Cardinality(positions') <= MaxConcurrent]_vars

\* Buys are spaced by the cooldown: two never fall in one cooldown period.
CooldownSpacesBuys == recentBuys <= 1

\* Taking the mutex never blocks the thread of the event loop for ever.
LoopNeverWedged == ~wedged

\* A halt with nobody liquidating any more has latched the risk engine.
PanicLatches == state = "HALTED" /\ task["owner"].cmd # "panic" => halted

\* The orchestrator keeps the promise of Killswitch: its cycle has committed itself once it is
\* past the gate (agent.py:832).
Committed == {"brain", "validate"} \cup BuyingPC
Promise == INSTANCE Killswitch WITH
  trading <- state \in Trading,
  latch <- halted,
  cycle <- IF task["scan"].pc \in {"dead", "top"} THEN "rest"
           ELSE IF task["scan"].pc \in Committed THEN "committed" ELSE "looking"
KillswitchHolds == Promise!Spec

-----------------------------------------------------------------------------
(* Liveness *)

\* Every scan cycle ends, unless the loop thread is blocked.
CycleEnds == task["scan"].pc \notin {"dead", "top"}
               ~> task["scan"].pc \in {"dead", "top"} \/ wedged

\* The monitor examines every tracked position again and again while the agent trades, unless
\* sales of positions bought before it raise again and again: each ends the pass there
\* (agent.py:1288).  One that fails, or a price that is unavailable, ends nothing.
Examined(p) ==
  p \in positions /\ state \in Trading
    ~> p \notin positions \/ task["monitor"].cur = p \/ state \notin Trading \/ wedged
EveryPositionExamined ==
  \A p \in Position :
    Examined(p) \/ []<>(task["monitor"].res = "raise" /\ task["monitor"].cur.id < p.id)

\* /panic runs to its end, the halt of the risk engine, though its sales fail, are retried or
\* find dust, unless one of them raises or the loop thread is blocked.
PanicCompletes ==
  task["owner"].cmd = "panic"
    ~> halted \/ wedged \/ (task["owner"].cmd = "panic" /\ task["owner"].res = "raise")

\* Every command's handler ends, so that the next command (say /panic) is received.
HandlerEnds == task["owner"].cmd # "none" ~> task["owner"].cmd = "none" \/ wedged
=============================================================================
