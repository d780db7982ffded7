---------------------------- MODULE DemoConsole ----------------------------
(***************************************************************************)
(* The simulated agent behind the web Console, one per wallet.  Every      *)
(* browser tab asks for a cycle every 2.2 s without awaiting the last one, *)
(* and console_action runs each in a worker thread; the owner's buttons    *)
(* run on the event loop, beside the cycles in flight.  All of them share  *)
(* one dictionary and no lock, so a process below is a worker or the event *)
(* loop, and a step is what a thread does between two accesses to the      *)
(* shared cash and positions.                                              *)
(*                                                                         *)
(* The market is what market_cache holds, or the simulated one, moved by   *)
(* the session's wobble.                                                   *)
(***************************************************************************)
EXTENDS Integers, FiniteSetsExt

CONSTANTS
  Tokens,        \* the chartable tokens
  Markets,       \* what a request may read: the quote of each token, 0 for one without
  Workers,       \* the threads that run cycles
  StartCash,     \* START_CASH
  MaxPositions,  \* MAX_POSITIONS
  MinOrder,      \* the least order, and the least cash to look for one
  StopPct,       \* the stop distance that dynamic_sl_tp gives
  Convictions,   \* what conviction_size_pct and the confluence make of BASE_POS_PCT
  MaxOpens,      \* bound: positions opened
  MaxTicks,      \* bound: cycles run
  MaxButtons     \* bound: buttons pressed

Loop == "loop"
Processes == Workers \cup {Loop}
Ids == 1 .. MaxOpens

ASSUME ConsoleAssumption ==
  /\ Loop \notin Workers /\ Tokens # {} /\ Convictions \subseteq 1 .. 100
  /\ Markets \subseteq [Tokens -> Nat] /\ Markets # {} /\ StopPct \in 0 .. 100
  /\ {StartCash, MaxPositions, MinOrder, MaxOpens, MaxTicks, MaxButtons} \subseteq Nat

VARIABLES
  cash,      \* a["cash"]
  open,      \* the positions of a["positions"], by number
  pos,       \* every position dictionary made so far; one that is removed may still be referenced
  sold,      \* the quotes at which each was sold, as a["trades"] has them
  peak,      \* a["peak"]
  flags,     \* a["running"] and a["paused"]
  proc,      \* where each process is and what it has read
  overlap,   \* the worst overlap of processes so far (history): "none", "buttons" or "ticks"
  spent      \* what has been used of the bounds
ledger == <<cash, open, pos, sold>>
vars == <<ledger, peak, flags, proc, overlap, spent>>

\* A process at rest, and the fields of one at work: the quotes it sees, the positions it has
\* yet to visit, the one it closes, the cash it read and the amount it orders.
Rest == [pc |-> "rest", quote |-> [t \in Tokens |-> 0], todo |-> {}, id |-> 0,
         cash |-> 0, amount |-> 0, token |-> "none"]
Idle == \A p \in Processes : proc[p].pc = "rest"

\* Type invariant.
TypeOK ==
  /\ cash \in Int /\ peak \in Nat
  /\ open \subseteq DOMAIN pos /\ DOMAIN pos = 1 .. spent.opens
  /\ \A i \in DOMAIN pos : pos[i] \in [token : Tokens, stake : Nat, entry : Nat \ {0},
                                       stop : Nat, top : Nat, trailing : BOOLEAN]
  /\ sold \in [DOMAIN pos -> SUBSET Nat]
  /\ flags \in [running : BOOLEAN, paused : BOOLEAN]
  /\ DOMAIN proc = Processes /\ \A p \in Processes : proc[p].todo \subseteq DOMAIN pos
  /\ overlap \in {"none", "buttons", "ticks"}
  /\ spent \in [opens : 0 .. MaxOpens, ticks : 0 .. MaxTicks, buttons : 0 .. MaxButtons]

\* A position is worth its stake at the quote it has against the one it was bought at.
Worth(i, q) == (pos[i].stake * q) \div pos[i].entry
\* _equity; snapshot takes the entry for a quote that is missing.
Equity(quote) == cash + SumFunction([i \in open |-> Worth(i, quote[pos[i].token])])
Shown(quote) == cash + SumFunction([i \in open |->
  Worth(i, IF quote[pos[i].token] = 0 THEN pos[i].entry ELSE quote[pos[i].token])])

\* A stop, at its distance from a quote or a peak.
NegatedBelow(q) == (q * (0 - StopPct)) \div 100   \* mutant: the distance itself, with its sign
Below(q) == (q * (100 - StopPct)) \div 100
Larger(a, b) == IF a > b THEN a ELSE b
Lesser(a, b) == IF a < b THEN a ELSE b
Goes(p, r) == proc' = [proc EXCEPT ![p] = r]

\* A worker or the event loop begins something: what else is in flight overlaps with it.
Overlaps(p) ==
  overlap' = IF \/ overlap = "ticks"
                \/ p # Loop /\ \E w \in Workers \ {p} : proc[w].pc # "rest"
             THEN "ticks"
             ELSE IF Idle THEN overlap ELSE "buttons"

(***************************************************************************)
(* _close, shared by the cycles and the buttons: the cash is read and then *)
(* written, and only then is the position removed.  list.remove raises     *)
(* ValueError when another process has removed it: the request ends there. *)
(***************************************************************************)
CloseReads(p) ==
  /\ proc[p].pc = "close" /\ Goes(p, [proc[p] EXCEPT !.pc = "credit", !.cash = cash])
  /\ UNCHANGED <<ledger, peak, flags, overlap, spent>>

CloseCredits(p) ==
  /\ proc[p].pc = "credit"
  /\ cash' = proc[p].cash + Worth(proc[p].id, proc[p].quote[pos[proc[p].id].token])
  /\ Goes(p, [proc[p] EXCEPT !.pc = "remove", !.cash = 0])
  /\ UNCHANGED <<open, pos, sold, peak, flags, overlap, spent>>

\* mutant: the position stays in the list
LeavesOpen(i) == open
Without(i) == open \ {i}
CloseRemoves(p) ==
  LET i == proc[p].id IN
  /\ proc[p].pc = "remove"
  /\ IF i \in open
     THEN /\ open' = Without(i)
          /\ sold' = [sold EXCEPT ![i] = @ \cup {proc[p].quote[pos[i].token]}]
          /\ Goes(p, [proc[p] EXCEPT !.pc = IF proc[p].token = "none" THEN "walk" ELSE "end", !.id = 0])
     ELSE Goes(p, Rest) /\ UNCHANGED <<open, sold>>
  /\ UNCHANGED <<cash, pos, peak, flags, overlap, spent>>

(***************************************************************************)
(* tick: one cycle in a worker thread.                                     *)
(***************************************************************************)
TickBegins(w) ==
  /\ proc[w].pc = "rest" /\ flags.running /\ ~flags.paused /\ spent.ticks < MaxTicks
  /\ \E quote \in Markets :
       Goes(w, [Rest EXCEPT !.pc = "walk", !.quote = quote, !.todo = open])
  /\ spent' = [spent EXCEPT !.ticks = @ + 1]
  /\ Overlaps(w)
  /\ UNCHANGED <<ledger, peak, flags>>

\* The asymmetric exit: 3 % up turns the trailing on and lifts the stop to the entry, and the
\* trailing pulls the stop after the peak.
\* mutant: the trailing follows the quote and not the peak
FollowsQuote(x, q) ==
  LET trailing == x.trailing \/ 100 * (q - x.entry) >= 3 * x.entry IN
  [x EXCEPT !.top = Larger(@, q), !.trailing = trailing,
            !.stop = IF trailing THEN Below(q) ELSE @]
Watched(x, q) ==
  LET top == Larger(x.top, q)
      starts == ~x.trailing /\ 100 * (q - x.entry) >= 3 * x.entry
      entry == IF starts THEN Larger(x.stop, x.entry) ELSE x.stop
  IN  [x EXCEPT !.top = top, !.trailing = @ \/ starts,
                !.stop = IF x.trailing \/ starts THEN Larger(entry, Below(top))
                         ELSE entry]

TickWatches(w) ==
  LET i == Min(proc[w].todo)
      q == proc[w].quote[pos[i].token]
      rest == proc[w].todo \ {i}
  IN /\ proc[w].pc = "walk" /\ proc[w].todo # {}
     /\ IF q = 0 THEN Goes(w, [proc[w] EXCEPT !.todo = rest]) /\ UNCHANGED pos
        ELSE /\ pos' = [pos EXCEPT ![i] = Watched(@, q)]
             /\ Goes(w, IF q <= pos'[i].stop
                        THEN [proc[w] EXCEPT !.pc = "close", !.id = i, !.todo = rest]
                        ELSE [proc[w] EXCEPT !.todo = rest])
     /\ UNCHANGED <<cash, open, sold, peak, flags, overlap, spent>>

\* The tokens that are held, and whether the wallet has room for one more.
Held == {pos[i].token : i \in open}
Room == cash >= MinOrder /\ Cardinality(open) < MaxPositions

\* Bound: an order that has begun can be booked.
MayOpen == spent.opens + Quantify(Workers, LAMBDA w : proc[w].pc \in {"size", "order", "debit", "book"})
             < MaxOpens

\* The market plunges; nothing is worth buying, by the score or the confluence; a weak position
\* that does not trail is given up for a stronger token, at its quote even when it has none; or
\* the candidate's confluence is asked for.
TickDecides(w) ==
  /\ proc[w].pc = "walk" /\ proc[w].todo = {}
  /\ \/ Goes(w, [proc[w] EXCEPT !.pc = "end"])
     \/ \E c \in {t \in Tokens : proc[w].quote[t] > 0} \ Held :
          /\ IF Room THEN MayOpen /\ Goes(w, [proc[w] EXCEPT !.pc = "size", !.token = c])
             ELSE \E i \in open :
                    /\ ~pos[i].trailing
                    /\ Goes(w, [proc[w] EXCEPT !.pc = "close", !.id = i, !.token = c])
  /\ UNCHANGED <<ledger, peak, flags, overlap, spent>>

\* fetch_klines has answered: the order is sized, and refused when it is too small.
TickSizes(w) ==
  /\ proc[w].pc = "size"
  /\ \E c \in Convictions :
       LET amount == Lesser(cash, (peak * c) \div 100) IN
       Goes(w, IF amount < MinOrder THEN [proc[w] EXCEPT !.pc = "end"]
               ELSE [proc[w] EXCEPT !.pc = "order", !.amount = amount])
  /\ UNCHANGED <<ledger, peak, flags, overlap, spent>>

TickReadsCash(w) ==
  /\ proc[w].pc = "order" /\ Goes(w, [proc[w] EXCEPT !.pc = "debit", !.cash = cash])
  /\ UNCHANGED <<ledger, peak, flags, overlap, spent>>

\* mutant: the order is taken twice
DebitedTwice(c, amount) == c - 2 * amount
Debited(c, amount) == c - amount
TickDebits(w) ==
  /\ proc[w].pc = "debit" /\ cash' = Debited(proc[w].cash, proc[w].amount)
  /\ Goes(w, [proc[w] EXCEPT !.pc = "book", !.cash = 0])
  /\ UNCHANGED <<open, pos, sold, peak, flags, overlap, spent>>

TickBooks(w) ==
  LET i == spent.opens + 1
      q == proc[w].quote[proc[w].token]
      bought == [token |-> proc[w].token, stake |-> proc[w].amount, entry |-> q,
                 stop |-> Below(q), top |-> q, trailing |-> FALSE]
  IN /\ proc[w].pc = "book" /\ i \in Ids
     /\ pos' = [j \in 1 .. i |-> IF j = i THEN bought ELSE pos[j]]
     /\ sold' = [j \in 1 .. i |-> IF j = i THEN {} ELSE sold[j]]
     /\ open' = open \cup {i}
     /\ spent' = [spent EXCEPT !.opens = i]
     /\ Goes(w, [proc[w] EXCEPT !.pc = "end"])
     /\ UNCHANGED <<cash, peak, flags, overlap>>

TickEnds(w) ==
  /\ proc[w].pc = "end"
  /\ peak' = Larger(peak, Larger(Equity(proc[w].quote), Shown(proc[w].quote)))
  /\ Goes(w, Rest)
  /\ UNCHANGED <<ledger, flags, overlap, spent>>

(***************************************************************************)
(* The owner's buttons, and the page that polls the state.                 *)
(***************************************************************************)
Pressed == spent.buttons < MaxButtons /\ spent' = [spent EXCEPT !.buttons = @ + 1]

Start ==
  /\ Pressed /\ proc[Loop].pc = "rest" /\ flags' = [running |-> TRUE, paused |-> FALSE]
  /\ UNCHANGED <<ledger, peak, proc, overlap>>

Pause ==
  /\ Pressed /\ proc[Loop].pc = "rest" /\ flags' = [flags EXCEPT !.paused = ~@]
  /\ UNCHANGED <<ledger, peak, proc, overlap>>

\* mutant: the winners are spared
LosersListed == {i \in open : ~pos[i].trailing}
Listed == open

\* withdraw and panic: every position of the list as it was at the start is closed, then the
\* agent is stopped.
Liquidate ==
  /\ Pressed /\ proc[Loop].pc = "rest"
  /\ \E quote \in Markets :
       Goes(Loop, [Rest EXCEPT !.pc = "walk", !.quote = quote, !.todo = Listed])
  /\ Overlaps(Loop)
  /\ UNCHANGED <<ledger, peak, flags>>

LiquidateNext ==
  LET i == Min(proc[Loop].todo) IN
  /\ proc[Loop].pc = "walk" /\ proc[Loop].todo # {}
  /\ Goes(Loop, [proc[Loop] EXCEPT !.pc = "close", !.id = i, !.todo = @ \ {i}])
  /\ UNCHANGED <<ledger, peak, flags, overlap, spent>>

LiquidateStops ==
  /\ proc[Loop].pc = "walk" /\ proc[Loop].todo = {}
  /\ flags' = [running |-> FALSE, paused |-> TRUE] /\ Goes(Loop, Rest)
  /\ UNCHANGED <<ledger, peak, overlap, spent>>

Snapshot ==
  /\ Pressed /\ proc[Loop].pc = "rest"
  /\ \E quote \in Markets : peak' = Larger(peak, Shown(quote))
  /\ UNCHANGED <<ledger, flags, proc, overlap>>

Init ==
  /\ cash = StartCash /\ open = {} /\ pos = << >> /\ sold = << >> /\ peak = StartCash
  /\ flags = [running |-> FALSE, paused |-> FALSE]
  /\ proc = [p \in Processes |-> Rest] /\ overlap = "none"
  /\ spent = [opens |-> 0, ticks |-> 0, buttons |-> 0]

Works(p) == CloseReads(p) \/ CloseCredits(p) \/ CloseRemoves(p)
TickGoesOn(w) ==
  \/ TickWatches(w) \/ TickDecides(w) \/ TickSizes(w) \/ TickReadsCash(w) \/ TickDebits(w)
  \/ TickBooks(w) \/ TickEnds(w)
Buttons == Start \/ Pause \/ Liquidate \/ LiquidateNext \/ LiquidateStops \/ Snapshot

Next ==
  \/ \E p \in Processes : Works(p)
  \/ \E w \in Workers : TickBegins(w) \/ TickGoesOn(w)
  \/ Buttons

Spec == Init /\ [][Next]_vars

(***************************************************************************)
(* What survives which overlap.                                            *)
(***************************************************************************)
\* Whatever overlaps, the trade log closes a position at most once, and the open positions are
\* exactly those without a close: demo._close removes before it logs, and the second remove
\* raises (although the cash has been credited by then).
LogMatchesBook ==
  \A i \in DOMAIN pos : Cardinality(sold[i]) = IF i \in open THEN 0 ELSE 1

\* As long as nothing has overlapped, between two requests the cash is the starting cash, less
\* the stakes of the trade log and plus what its closes brought (demo._close and tick), and
\* never negative.
LedgerExact ==
  (overlap = "none" /\ Idle) =>
    /\ cash >= 0
    /\ cash = StartCash
              - SumFunction([i \in DOMAIN pos |-> pos[i].stake])
              + SumFunction([i \in DOMAIN pos |-> SumFunction([q \in sold[i] |-> Worth(i, q)])])

\* As long as no two cycles have overlapped: a stop never loosens and a trailing stays on, and
\* a position that trails can no longer lose (the break-even of demo.py:184).
StopOnlyTightens ==
  [][overlap' # "ticks" =>
       \A i \in open \cap open' :
         /\ pos'[i].stop >= pos[i].stop
         /\ pos[i].trailing => pos'[i].trailing
         /\ pos'[i].trailing => pos'[i].stop >= pos[i].entry]_vars

\* As long as nothing has overlapped, an agent that panic or withdraw has stopped holds nothing
\* until it is started again (demo.py:143, "liquidated everything and halted").
StoppedHoldsNothing ==
  (overlap = "none" /\ ~flags.running) => open = {}

=============================================================================
