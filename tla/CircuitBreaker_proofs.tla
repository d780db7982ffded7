------------------------ MODULE CircuitBreaker_proofs ------------------------
(***************************************************************************)
(* What a reading of the wallet is worth, for any tokens, prices, order of *)
(* the balances and number of swaps, failed reads, crashes and midnights.  *)
(***************************************************************************)
EXTENDS CircuitBreaker, SumFacts, FiniteSetTheorems, TLAPS

LEMMA Constants ==
  /\ Prices \subseteq Nat \ {0} /\ "cash" \notin Tokens
  /\ Gas \in Nat /\ Cash \in Nat /\ MaxFaults \in Nat /\ MaxCommands \in Nat /\ MaxTrades \in Nat
  /\ MaxMoves \in Nat /\ MaxDays \in Nat
  /\ Len(ReadOrder) \in Nat /\ \A i \in 1 .. Len(ReadOrder) : ReadOrder[i] \in Assets
  /\ \A a \in Assets : \E i \in 1 .. Len(ReadOrder) : ReadOrder[i] = a
  /\ \A i, j \in 1 .. Len(ReadOrder) : ReadOrder[i] = ReadOrder[j] => i = j
  <1>1. ReadOrder \in Seq(Assets) /\ {ReadOrder[i] : i \in 1 .. Len(ReadOrder)} = Assets
    BY BreakerAssumption
  <1>2. Len(ReadOrder) \in Nat
    BY <1>1
  <1>3. /\ \A i \in 1 .. Len(ReadOrder) : ReadOrder[i] \in Assets
        /\ \A a \in Assets : \E i \in 1 .. Len(ReadOrder) : ReadOrder[i] = a
    BY <1>1
  <1> QED
    BY <1>2, <1>3, BreakerAssumption

LEMMA AssetsFinite == IsFiniteSet(Assets)
  <1>1. IsFiniteSet(1 .. Len(ReadOrder))
    BY Constants, FS_Interval
  <1>2. PICK f : f = [i \in 1 .. Len(ReadOrder) |-> ReadOrder[i]]
    OBVIOUS
  <1>3. f \in Surjection(1 .. Len(ReadOrder), Assets)
    BY <1>2, Constants DEF Surjection
  <1> QED
    BY <1>1, <1>3, FS_Surjection

-----------------------------------------------------------------------------
(* What the wallet is worth *)

Chain == cash \in Nat /\ wallet \subseteq Tokens /\ price \in [Tokens -> Prices]

LEMMA ValueNat ==
  ASSUME Chain, NEW a \in Assets
  PROVE  Value(a) \in Nat /\ (a \in Tokens \ wallet => Value(a) = 0)
  <1>1. \A t \in Tokens : price[t] \in Nat
    BY Constants DEF Chain
  <1>2. CASE a = "cash"
    BY <1>2, Constants DEF Chain, Value
  <1>3. CASE a # "cash"
    <2>1. Value(a) = IF a \in wallet THEN price[a] ELSE 0
      BY <1>3 DEF Value
    <2>2. a \in wallet => a \in Tokens
      BY DEF Chain
    <2> QED
      BY <1>1, <2>1, <2>2
  <1> QED
    BY <1>2, <1>3

LEMMA TotalEmpty == Chain => Total({}) = Gas
  <1>1. PICK f : f = [a \in {} |-> Value(a)]
    OBVIOUS
  <1>2. SumFunction(f) = 0
    BY <1>1, SumEmpty
  <1> QED
    BY <1>1, <1>2, Constants DEF Total

LEMMA TotalInt ==
  ASSUME Chain, NEW S \in SUBSET Assets
  PROVE  Total(S) \in Int
  <1>1. PICK f : f = [a \in S |-> Value(a)]
    OBVIOUS
  <1>2. f \in [S -> Int] /\ IsFiniteSet(S)
    BY <1>1, ValueNat, AssetsFinite, FS_Subset
  <1>3. SumFunction(f) \in Int
    BY <1>2, SumAdd
  <1> QED
    BY <1>1, <1>3, Constants DEF Total

LEMMA TotalAdd ==   \* one balance more
  ASSUME Chain, NEW S \in SUBSET Assets, NEW a \in Assets, a \notin S
  PROVE  Total(S \cup {a}) = Total(S) + Value(a)
  <1>1. PICK f : f = [x \in S |-> Value(x)]
    OBVIOUS
  <1>2. PICK g : g = [x \in S \cup {a} |-> Value(x)]
    OBVIOUS
  <1>3. f \in [S -> Int] /\ IsFiniteSet(S)
    BY <1>1, ValueNat, AssetsFinite, FS_Subset
  <1>4. g \in [S \cup {a} -> Int] /\ \A x \in S : g[x] = f[x]
    BY <1>1, <1>2, ValueNat
  <1>5. SumFunction(g) = SumFunction(f) + g[a]
    BY <1>3, <1>4, SumExtend
  <1>6. g[a] = Value(a) /\ Value(a) \in Int /\ SumFunction(f) \in Int
    BY <1>2, <1>3, ValueNat, SumAdd
  <1>7. Total(S) = Gas + SumFunction(f) /\ Total(S \cup {a}) = Gas + SumFunction(g)
    BY <1>1, <1>2 DEF Total
  <1> QED
    BY <1>5, <1>6, <1>7, Constants

LEMMA TotalNat ==
  ASSUME Chain, NEW S \in SUBSET Assets
  PROVE  Total(S) \in Nat
  <1> DEFINE bad == {n \in Nat : \E s \in SUBSET Assets : Cardinality(s) = n /\ Total(s) \notin Nat}
  <1> SUFFICES ASSUME Total(S) \notin Nat PROVE FALSE
    OBVIOUS
  <1>1. \A s \in SUBSET Assets : IsFiniteSet(s) /\ Cardinality(s) \in Nat
    BY AssetsFinite, FS_Subset, FS_CardinalityType
  <1>2. bad # {} /\ bad \subseteq Nat
    BY <1>1
  <1>3. PICK n \in bad : \A m \in bad : n <= m
    <2> HIDE DEF bad
    <2> QED
      BY <1>2, LeastIs
  <1>4. PICK s \in SUBSET Assets : Cardinality(s) = n /\ Total(s) \notin Nat
    BY <1>3
  <1>5. s # {}
    <2>1. Total({}) \in Nat
      BY TotalEmpty, Constants
    <2> QED
      BY <1>4, <2>1
  <1>6. PICK a \in s : TRUE
    BY <1>5
  <1>7. s \ {a} \in SUBSET Assets /\ Cardinality(s \ {a}) \in Nat /\ Cardinality(s \ {a}) < n
    BY <1>1, <1>4, LessOne
  <1>8. Total(s \ {a}) \in Nat
    BY <1>3, <1>7
  <1>9. Total((s \ {a}) \cup {a}) = Total(s \ {a}) + Value(a)
    BY <1>7, TotalAdd
  <1>10. (s \ {a}) \cup {a} = s /\ Value(a) \in Nat
    BY ValueNat
  <1> QED
    BY <1>4, <1>8, <1>9, <1>10

LEMMA TotalRest ==   \* balances worth nothing may be left out
  ASSUME Chain, NEW S \in SUBSET Assets, \A a \in Assets \ S : Value(a) = 0
  PROVE  Total(S) = Worth
  <1> DEFINE bad == {n \in Nat : \E s \in SUBSET Assets :
                                   S \subseteq s /\ Cardinality(s) = n /\ Total(s) # Total(S)}
  <1> SUFFICES ASSUME Total(S) # Total(Assets) PROVE FALSE
    BY DEF Worth
  <1>1. \A s \in SUBSET Assets : IsFiniteSet(s) /\ Cardinality(s) \in Nat
    BY AssetsFinite, FS_Subset, FS_CardinalityType
  <1>2. bad # {} /\ bad \subseteq Nat
    BY <1>1
  <1>3. PICK n \in bad : \A m \in bad : n <= m
    <2> HIDE DEF bad
    <2> QED
      BY <1>2, LeastIs
  <1>4. PICK s \in SUBSET Assets : S \subseteq s /\ Cardinality(s) = n /\ Total(s) # Total(S)
    BY <1>3
  <1>5. PICK a \in s : a \notin S
    BY <1>4
  <1>6. /\ s \ {a} \in SUBSET Assets /\ S \subseteq s \ {a}
        /\ Cardinality(s \ {a}) \in Nat /\ Cardinality(s \ {a}) < n
    BY <1>1, <1>4, <1>5, LessOne
  <1>7. Total(s \ {a}) = Total(S)
    BY <1>3, <1>6
  <1>8. Total((s \ {a}) \cup {a}) = Total(s \ {a}) + Value(a)
    BY <1>6, TotalAdd
  <1>9. (s \ {a}) \cup {a} = s /\ Value(a) = 0 /\ Total(S) \in Int
    BY <1>4, <1>5, TotalInt
  <1>10. PICK t : t = Total(S)
    OBVIOUS
  <1>11. t \in Int /\ Total(s) = t + 0
    BY <1>7, <1>8, <1>9, <1>10
  <1> QED
    BY <1>4, <1>10, <1>11

LEMMA TotalSame ==
  ASSUME UNCHANGED chain
  PROVE  /\ \A S : Total(S)' = Total(S)
         /\ Worth' = Worth
         /\ \A a : Value(a)' = Value(a)
  BY DEF chain, Total, Value, Worth

-----------------------------------------------------------------------------
(* The inductive invariant *)

Steps == {"rest", "reading", "read", "checking", "deciding", "trading", "rebasing", "announcing"}
Local == [pc : Steps, at : 1 .. Len(ReadOrder) + 1, sum : Nat, cash : Nat, priced : SUBSET Assets,
          quiet : BOOLEAN, equity : Nat, reliable : BOOLEAN, day : 0 .. MaxDays]
Modes == {"TRADING", "HALTED"}
Names == {"scan", "monitor", "owner", "nobody"}
Swap == [stage : {"sent", "landed"}, by : Names, token : Tokens, side : {"buy", "sell"}]
Disk == [mode : Modes, peak : Nat, book : SUBSET Tokens]
Bounds == [faults : 0 .. MaxFaults, commands : 0 .. MaxCommands, trades : 0 .. MaxTrades,
           moves : 0 .. MaxMoves]

Tracking == loops \in BOOLEAN /\ book \subseteq Tokens /\ mode \in Modes
Engine == /\ peak \in Nat /\ anchor \in Nat /\ seen \in Nat
          /\ anchorDay \in 0 .. MaxDays \cup {NoDay} /\ day \in 0 .. MaxDays
Tasks == task \in [Readers -> Local]
Trading == trade = NoTrade \/ trade \in Swap
Types == /\ Chain /\ Tracking /\ disk \in Disk /\ Engine /\ Tasks /\ Trading /\ spent \in Bounds

\* What an undisturbed reading has come to: the sum of the balances that were worth something,
\* the stables among them.  It stays undisturbed only while every lot is tracked and no swap
\* has landed.
ReadSoFar(r) ==
  /\ r.sum = Total(r.priced)
  /\ \A a \in r.priced : \E i \in 1 .. Len(ReadOrder) : i < r.at /\ ReadOrder[i] = a
  /\ \A i \in 1 .. Len(ReadOrder) : i < r.at /\ ReadOrder[i] = "cash" /\ cash > 0 => "cash" \in r.priced
Exact(r) == r.reliable => r.equity = Worth
QuietOK(r) ==
  r.quiet => /\ r.pc \in {"reading", "read"} /\ book = wallet /\ trade.stage \in {"none", "sent"}
             /\ r.pc = "reading" => ReadSoFar(r)
             /\ r.pc = "read" => Exact(r)

Inv == Types /\ \A x \in Readers : QuietOK(task[x])

LEMMA TypesAre == Types <=> TypeOK
  <1>1. trade \in Swap <=> trade \in [stage : {"sent", "landed"}, by : {"scan", "monitor", "owner", "nobody"},
                                      token : Tokens, side : {"buy", "sell"}]
    BY DEF Swap, Names
  <1>2. disk \in Disk <=> disk \in [mode : {"TRADING", "HALTED"}, peak : Nat, book : SUBSET Tokens]
    BY DEF Disk, Modes
  <1>3. Tasks <=> task \in [Readers ->
         [pc : {"rest", "reading", "read", "checking", "deciding", "trading",
                "rebasing", "announcing"},
          at : 1 .. Len(ReadOrder) + 1, sum : Nat, cash : Nat, priced : SUBSET Assets,
          quiet : BOOLEAN, equity : Nat, reliable : BOOLEAN, day : 0 .. MaxDays]]
    BY DEF Tasks, Local, Steps
  <1>4. spent \in Bounds <=> spent \in [faults : 0 .. MaxFaults, commands : 0 .. MaxCommands,
                                        trades : 0 .. MaxTrades, moves : 0 .. MaxMoves]
    BY DEF Bounds
  <1> QED
    BY <1>1, <1>2, <1>3, <1>4, Zenon DEF Types, TypeOK, Chain, Tracking, Engine, Trading, Modes

LEMMA RestIs ==
  /\ Rest \in Local /\ Rest.quiet = FALSE
  /\ \A l \in Steps : /\ [Rest EXCEPT !.pc = l] \in Local
                      /\ [Rest EXCEPT !.pc = l].quiet = FALSE
                      /\ [Rest EXCEPT !.pc = l].pc = l
  /\ \A l \in Steps, e \in Nat : /\ [Rest EXCEPT !.pc = l, !.equity = e] \in Local
                                 /\ [Rest EXCEPT !.pc = l, !.equity = e].quiet = FALSE
  <1>1. 1 \in 1 .. Len(ReadOrder) + 1 /\ 0 \in 0 .. MaxDays
    BY Constants
  <1> QED
    BY <1>1 DEF Rest, Local, Steps

LEMMA Moved ==
  ASSUME NEW r \in Local, NEW l \in Steps, NEW c \in Nat
  PROVE  /\ [r EXCEPT !.quiet = FALSE] \in Local /\ [r EXCEPT !.quiet = FALSE].quiet = FALSE
         /\ [r EXCEPT !.pc = l] \in Local /\ [r EXCEPT !.pc = l].quiet = r.quiet
         /\ [r EXCEPT !.pc = l, !.cash = c] \in Local /\ [r EXCEPT !.pc = l, !.cash = c].quiet = r.quiet
  BY DEF Local

LEMMA NoTradeIs == NoTrade.stage = "none" /\ (\A t \in Swap : t.stage \in {"sent", "landed"} /\ t # NoTrade)
  BY DEF NoTrade, Swap

\* A step that moves nothing on chain leaves a reading undisturbed unless it breaks the tracking
\* or lands a swap.
Calm ==
  /\ UNCHANGED chain /\ (book = wallet => book' = book)
  /\ trade.stage \in {"none", "sent"} => trade'.stage \in {"none", "sent"}

LEMMA CalmKeeps ==
  ASSUME Calm, NEW r, QuietOK(r)
  PROVE  QuietOK(r)'
  <1>1. ReadSoFar(r) => ReadSoFar(r)'
    <2>1. Total(r.priced)' = Total(r.priced) /\ cash' = cash
      BY TotalSame DEF Calm, chain
    <2> QED
      BY <2>1 DEF ReadSoFar
  <1>2. Exact(r) => Exact(r)'
    BY TotalSame DEF Calm, Exact
  <1>3. wallet' = wallet
    BY DEF Calm, chain
  <1> QED
    BY <1>1, <1>2, <1>3 DEF Calm, QuietOK

LEMMA NotQuiet ==
  ASSUME NEW r, r.quiet = FALSE
  PROVE  QuietOK(r) /\ QuietOK(r)'
  BY DEF QuietOK

LEMMA QuietSteps ==
  ASSUME Inv, NEW x \in Readers, task[x].pc \notin {"reading", "read"}
  PROVE  task[x].quiet = FALSE
  <1>1. task[x].quiet \in BOOLEAN
    BY DEF Inv, Types, Tasks, Local
  <1>2. ~task[x].quiet
    BY DEF Inv, QuietOK
  <1> QED
    BY <1>1, <1>2

\* Each task is where it was, at rest, or where a calm step has taken it.
LEMMA Kept ==
  ASSUME Inv, Calm,
         \A x \in Readers : \/ task'[x] = task[x] \/ task'[x].quiet = FALSE
                            \/ \E r : task'[x] = r /\ QuietOK(r)'
  PROVE  \A x \in Readers : QuietOK(task[x])'
  <1> SUFFICES ASSUME NEW x \in Readers PROVE QuietOK(task[x])'
    OBVIOUS
  <1>1. PICK r : r = task'[x]
    OBVIOUS
  <1>2. CASE task'[x] = task[x]
    <2>1. QuietOK(r)
      BY <1>1, <1>2 DEF Inv
    <2>2. QuietOK(r)'
      BY <2>1, CalmKeeps
    <2> QED
      BY <1>1, <2>2
  <1>3. CASE task'[x].quiet = FALSE
    <2>1. QuietOK(r)'
      BY <1>1, <1>3, NotQuiet
    <2> QED
      BY <1>1, <2>1
  <1>4. CASE \E s : task'[x] = s /\ QuietOK(s)'
    <2>1. QuietOK(r)'
      BY <1>1, <1>4
    <2> QED
      BY <1>1, <2>1
  <1> QED
    BY <1>2, <1>3, <1>4

-----------------------------------------------------------------------------
(* What is left alone stays typed *)

LEMMA Same ==
  ASSUME Inv
  PROVE  /\ UNCHANGED chain => Chain' /\ Chain
         /\ UNCHANGED <<book, mode, loops>> => Tracking'
         /\ UNCHANGED disk => disk' \in Disk
         /\ UNCHANGED <<engine, seen, day>> => Engine'
         /\ UNCHANGED task => Tasks'
         /\ UNCHANGED trade => Trading'
         /\ UNCHANGED spent => spent' \in Bounds
  <1>1. UNCHANGED chain => Chain' /\ Chain
    BY DEF Inv, Types, chain, Chain
  <1>2. UNCHANGED <<engine, seen, day>> => Engine'
    BY DEF Inv, Types, Engine, engine
  <1>3. UNCHANGED <<book, mode, loops>> => Tracking'
    BY DEF Inv, Types, Tracking
  <1>4. UNCHANGED task => Tasks'
    BY DEF Inv, Types, Tasks
  <1>5. UNCHANGED trade => Trading'
    BY DEF Inv, Types, Trading
  <1> QED
    BY <1>1, <1>2, <1>3, <1>4, <1>5 DEF Inv, Types

LEMMA Spends ==
  ASSUME Inv
  PROVE  /\ spent.faults < MaxFaults /\ spent' = Use("faults") => spent' \in Bounds
         /\ spent.commands < MaxCommands /\ spent' = Use("commands") => spent' \in Bounds
         /\ spent.trades < MaxTrades /\ spent' = Use("trades") => spent' \in Bounds
         /\ spent.moves < MaxMoves /\ spent' = Use("moves") => spent' \in Bounds
  <1>1. /\ spent \in Bounds /\ spent.faults \in Nat /\ spent.commands \in Nat
        /\ spent.trades \in Nat /\ spent.moves \in Nat
    BY Constants DEF Inv, Types, Bounds
  <1>2. /\ spent.faults < MaxFaults => spent.faults + 1 \in 0 .. MaxFaults
        /\ spent.commands < MaxCommands => spent.commands + 1 \in 0 .. MaxCommands
        /\ spent.trades < MaxTrades => spent.trades + 1 \in 0 .. MaxTrades
        /\ spent.moves < MaxMoves => spent.moves + 1 \in 0 .. MaxMoves
    <2>1. \A n, m \in Nat : n < m => n + 1 \in 0 .. m
      OBVIOUS
    <2>2. MaxFaults \in Nat /\ MaxCommands \in Nat /\ MaxTrades \in Nat /\ MaxMoves \in Nat
      BY Constants
    <2> QED
      BY <1>1, <2>1, <2>2
  <1> QED
    BY <1>1, <1>2 DEF Bounds, Use

\* One task, or all of them, go to a new local state.
LEMMA Going ==
  ASSUME Inv, NEW x \in Readers, NEW r \in Local, task' = [task EXCEPT ![x] = r]
  PROVE  /\ Tasks' /\ task'[x] = r
         /\ \A y \in Readers : y # x => task'[y] = task[y]
  BY DEF Inv, Types, Tasks

LEMMA Resting ==
  ASSUME Inv, task' \in {Idle("scan"), Idle("owner"), [r \in Readers |-> Rest]}
  PROVE  /\ Tasks'
         /\ \A x \in Readers : task'[x] = task[x] \/ task'[x].quiet = FALSE
  <1>1. \A x \in Readers : task'[x] = task[x] \/ task'[x] = Rest
    BY DEF Inv, Types, Tasks, Idle
  <1>2. Tasks'
    BY RestIs DEF Inv, Types, Tasks, Idle
  <1> QED
    BY <1>1, <1>2, RestIs

-----------------------------------------------------------------------------
(* Reading *)

\* A new reading is undisturbed if nothing is untracked and no swap under way.
LEMMA BeginKeeps ==
  ASSUME Inv, NEW x \in Readers, Begin(x),
         UNCHANGED <<chain, book, mode, loops, disk, engine, seen, trade, day>>, spent' \in Bounds
  PROVE  Inv'
  <1>1. PICK r : r = [Rest EXCEPT !.pc = "reading", !.day = day, !.sum = Gas,
                                  !.quiet = book = wallet /\ trade = NoTrade]
    OBVIOUS
  <1>2. /\ r.pc = "reading" /\ r.at = 1 /\ r.sum = Gas /\ r.priced = {}
        /\ (r.quiet <=> book = wallet /\ trade = NoTrade)
    BY <1>1 DEF Rest
  <1>3. day \in 0 .. MaxDays /\ 1 \in 1 .. Len(ReadOrder) + 1
    BY Constants DEF Inv, Types, Engine
  <1>4. r \in Local
    BY <1>1, <1>3, Constants DEF Rest, Local, Steps
  <1>5. task' = [task EXCEPT ![x] = r]
    BY <1>1 DEF Begin
  <1>6. QuietOK(r)
    <2>1. Total(r.priced) = Gas
      BY <1>2, TotalEmpty DEF Inv, Types
    <2>2. ReadSoFar(r)
      BY <1>2, <2>1, Constants DEF ReadSoFar
    <2> QED
      BY <1>2, <2>2, NoTradeIs DEF QuietOK
  <1>7. Calm
    BY DEF Calm
  <1>8. QuietOK(r)'
    BY <1>6, <1>7, CalmKeeps
  <1>9. Tasks' /\ \A y \in Readers : task'[y] = task[y] \/ \E q : task'[y] = q /\ QuietOK(q)'
    BY <1>4, <1>5, <1>8, Going
  <1>10. \A y \in Readers : QuietOK(task[y])'
    BY <1>7, <1>9, Kept
  <1> QED
    BY <1>9, <1>10, Same DEF Inv, Types

LEMMA ReadBalanceKeeps ==
  ASSUME Inv, NEW x \in Readers, ReadBalance(x)
  PROVE  Inv'
  <1>1. PICK r : r = task[x]
    OBVIOUS
  <1>2. PICK a : a = ReadOrder[r.at]
    OBVIOUS
  <1>3. r \in Local /\ QuietOK(r) /\ r.pc = "reading" /\ r.at <= Len(ReadOrder)
    BY <1>1 DEF Inv, Types, Tasks, ReadBalance
  <1>4. /\ r.at \in 1 .. Len(ReadOrder) /\ r.at + 1 \in 1 .. Len(ReadOrder) + 1 /\ r.at \in Nat
        /\ a \in Assets
    <2>1. r.at \in 1 .. Len(ReadOrder) + 1 /\ Len(ReadOrder) \in Nat
      BY <1>3, Constants DEF Local
    <2>2. r.at \in 1 .. Len(ReadOrder)
      BY <1>3, <2>1
    <2> QED
      BY <1>2, <2>1, <2>2, Constants
  <1>5. PICK v : v = Value(a)
    OBVIOUS
  <1>6. v \in Nat /\ (a = "cash" => v = cash) /\ cash \in Nat
    BY <1>4, <1>5, ValueNat DEF Inv, Types, Chain, Value
  <1>7. Calm /\ UNCHANGED <<chain, book, mode, loops, disk, engine, seen, trade, day>>
    BY DEF Calm, ReadBalance
  <1>8. CASE /\ task' = [task EXCEPT ![x] = [r EXCEPT !.at = @ + 1, !.sum = @ + v,
                                               !.cash = IF a = "cash" THEN cash ELSE @,
                                               !.priced = IF v > 0 THEN @ \cup {a} ELSE @]]
             /\ UNCHANGED spent
    <2>1. PICK q : q = [r EXCEPT !.at = @ + 1, !.sum = @ + v,
                                 !.cash = IF a = "cash" THEN cash ELSE @,
                                 !.priced = IF v > 0 THEN @ \cup {a} ELSE @]
      OBVIOUS
    <2>2. /\ q.at = r.at + 1 /\ q.sum = r.sum + v /\ q.pc = r.pc /\ q.quiet = r.quiet
          /\ q.priced = IF v > 0 THEN r.priced \cup {a} ELSE r.priced
      BY <1>3, <2>1 DEF Local
    <2>3. r.sum + v \in Nat /\ r.priced \in SUBSET Assets
      BY <1>3, <1>6 DEF Local
    <2>4. q \in Local
      BY <1>3, <1>4, <1>6, <2>1, <2>3 DEF Local
    <2>5. ReadSoFar(r) => ReadSoFar(q)
      <3> SUFFICES ASSUME ReadSoFar(r) PROVE ReadSoFar(q)
        OBVIOUS
      <3>1. a \notin r.priced
        <4> SUFFICES ASSUME a \in r.priced PROVE FALSE
          OBVIOUS
        <4>1. PICK i \in 1 .. Len(ReadOrder) : i < r.at /\ ReadOrder[i] = a
          BY DEF ReadSoFar
        <4>2. i = r.at
          BY <1>2, <1>4, <4>1, Constants
        <4> QED
          BY <1>4, <4>1, <4>2
      <3>2. Total(q.priced) = r.sum + v
        <4>1. v > 0 => Total(r.priced \cup {a}) = Total(r.priced) + v
          BY <1>4, <1>5, <2>3, <3>1, TotalAdd DEF Inv, Types
        <4>2. r.sum = Total(r.priced) /\ r.sum \in Nat
          BY <1>3 DEF ReadSoFar, Local
        <4>3. CASE v > 0
          BY <2>2, <4>1, <4>2, <4>3
        <4>4. CASE ~(v > 0)
          <5>1. v = 0
            BY <1>6, <4>4
          <5>2. q.priced = r.priced
            BY <2>2, <4>4
          <5> QED
            BY <4>2, <5>1, <5>2
        <4> QED
          BY <4>3, <4>4
      <3>3. \A b \in q.priced : \E i \in 1 .. Len(ReadOrder) : i < q.at /\ ReadOrder[i] = b
        <4>1. \A b \in q.priced : b \in r.priced \/ b = a
          BY <2>2
        <4>2. r.at < q.at /\ \A i \in 1 .. Len(ReadOrder) : i < r.at => i < q.at
          BY <1>4, <2>2
        <4>3. \A b \in r.priced : \E i \in 1 .. Len(ReadOrder) : i < q.at /\ ReadOrder[i] = b
          BY <4>2 DEF ReadSoFar
        <4> QED
          BY <1>2, <1>4, <4>1, <4>2, <4>3
      <3>4. ASSUME NEW i \in 1 .. Len(ReadOrder), i < q.at, ReadOrder[i] = "cash", cash > 0
            PROVE  "cash" \in q.priced
        <4>1. CASE i < r.at
          BY <2>2, <3>4, <4>1 DEF ReadSoFar
        <4>2. CASE ~(i < r.at)
          <5>1. i = r.at
            BY <1>4, <2>2, <3>4, <4>2
          <5> QED
            BY <1>2, <1>6, <2>2, <3>4, <5>1
        <4> QED
          BY <4>1, <4>2
      <3> QED
        BY <2>2, <3>2, <3>3, <3>4 DEF ReadSoFar
    <2>6. QuietOK(q)
      BY <1>3, <2>2, <2>5 DEF QuietOK
    <2>7. QuietOK(q)'
      BY <1>7, <2>6, CalmKeeps
    <2>8. task' = [task EXCEPT ![x] = q]
      BY <1>8, <2>1
    <2>9. Tasks' /\ \A y \in Readers : task'[y] = task[y] \/ \E p : task'[y] = p /\ QuietOK(p)'
      BY <2>4, <2>7, <2>8, Going
    <2>10. \A y \in Readers : QuietOK(task[y])'
      BY <1>7, <2>9, Kept
    <2> QED
      BY <1>7, <1>8, <2>9, <2>10, Same DEF Inv, Types
  <1>9. CASE /\ spent.faults < MaxFaults /\ spent' = Use("faults")
             /\ task' = [task EXCEPT ![x].at = @ + 1, ![x].quiet = @ /\ a \in Tokens]
    <2>1. PICK q : q = [r EXCEPT !.at = @ + 1, !.quiet = @ /\ a \in Tokens]
      OBVIOUS
    <2>2. /\ q.at = r.at + 1 /\ q.sum = r.sum /\ q.pc = r.pc /\ q.priced = r.priced
          /\ (q.quiet <=> r.quiet /\ a \in Tokens)
      BY <1>3, <2>1 DEF Local
    <2>3. q \in Local
      BY <1>3, <1>4, <2>1 DEF Local
    <2>4. ReadSoFar(r) /\ a \in Tokens => ReadSoFar(q)
      <3> SUFFICES ASSUME ReadSoFar(r), a \in Tokens PROVE ReadSoFar(q)
        OBVIOUS
      <3>1. \A i \in 1 .. Len(ReadOrder) : i < r.at => i < q.at
        BY <1>4, <2>2
      <3>2. \A b \in q.priced : \E i \in 1 .. Len(ReadOrder) : i < q.at /\ ReadOrder[i] = b
        BY <2>2, <3>1 DEF ReadSoFar
      <3>3. ASSUME NEW i \in 1 .. Len(ReadOrder), i < q.at, ReadOrder[i] = "cash", cash > 0
            PROVE  "cash" \in q.priced
        <4>1. i # r.at
          BY <1>2, <3>3, Constants
        <4>2. i < r.at
          BY <1>4, <2>2, <3>3, <4>1
        <4> QED
          BY <2>2, <3>3, <4>2 DEF ReadSoFar
      <3> QED
        BY <2>2, <3>2, <3>3 DEF ReadSoFar
    <2>5. QuietOK(q)
      BY <1>3, <2>2, <2>4 DEF QuietOK
    <2>6. QuietOK(q)'
      BY <1>7, <2>5, CalmKeeps
    <2>7. task' = [task EXCEPT ![x] = q]
      BY <1>1, <1>9, <2>1 DEF Inv, Types, Tasks
    <2>8. Tasks' /\ \A y \in Readers : task'[y] = task[y] \/ \E p : task'[y] = p /\ QuietOK(p)'
      BY <2>3, <2>6, <2>7, Going
    <2>9. \A y \in Readers : QuietOK(task[y])'
      BY <1>7, <2>8, Kept
    <2> QED
      BY <1>7, <1>9, <2>8, <2>9, Same, Spends DEF Inv, Types
  <1> QED
    BY <1>1, <1>2, <1>5, <1>8, <1>9 DEF ReadBalance

\* What the guard accepts of an undisturbed reading is exact: what was not priced is worth nothing.
LEMMA ReadEndsKeeps ==
  ASSUME Inv, NEW x \in Readers, ReadEnds(x)
  PROVE  Inv'
  <1>1. PICK r : r = task[x]
    OBVIOUS
  <1>2. r \in Local /\ QuietOK(r) /\ r.pc = "reading" /\ r.at > Len(ReadOrder)
    BY <1>1 DEF Inv, Types, Tasks, ReadEnds
  <1>3. PICK e : e = IF r.sum > 0 THEN r.sum ELSE Worth
    OBVIOUS
  <1>4. PICK s : s = (r.sum = 0 \/ Reliable(r))
    OBVIOUS
  <1>5. PICK q : q = [Rest EXCEPT !.pc = "read", !.quiet = r.quiet, !.day = r.day,
                                  !.equity = e, !.reliable = s]
    OBVIOUS
  <1>6. e \in Nat /\ s \in BOOLEAN /\ r.sum \in Nat
    <2>1. Worth \in Nat
      BY TotalNat DEF Inv, Types, Worth
    <2> QED
      BY <1>2, <1>3, <1>4, <2>1 DEF Local
  <1>7. q \in Local
    <2>1. r.quiet \in BOOLEAN /\ r.day \in 0 .. MaxDays /\ 1 \in 1 .. Len(ReadOrder) + 1
      BY <1>2, Constants DEF Local
    <2> QED
      BY <1>5, <1>6, <2>1 DEF Rest, Local, Steps
  <1>8. q.pc = "read" /\ q.quiet = r.quiet /\ q.equity = e /\ q.reliable = s
    BY <1>5 DEF Rest
  <1>9. ASSUME r.quiet, s PROVE e = Worth
    <2>1. CASE r.sum = 0
      BY <1>3, <2>1
    <2>2. CASE r.sum # 0
      <3>1. ReadSoFar(r) /\ book = wallet /\ book \subseteq r.priced
        BY <1>2, <1>4, <1>9, <2>2 DEF QuietOK, Reliable
      <3>2. \A a \in Assets \ r.priced : Value(a) = 0
        <4> SUFFICES ASSUME NEW a \in Assets, a \notin r.priced PROVE Value(a) = 0
          OBVIOUS
        <4>1. CASE a = "cash"
          <5>1. PICK i \in 1 .. Len(ReadOrder) : ReadOrder[i] = "cash"
            BY <4>1, Constants
          <5>2. i < r.at
            BY <1>2, Constants DEF Local
          <5>3. ~(cash > 0)
            BY <3>1, <4>1, <5>1, <5>2 DEF ReadSoFar
          <5> QED
            BY <4>1, <5>3 DEF Inv, Types, Chain, Value
        <4>2. CASE a # "cash"
          BY <3>1, <4>2, ValueNat DEF Inv, Types, Assets
        <4> QED
          BY <4>1, <4>2
      <3>3. Total(r.priced) = Worth
        BY <1>2, <3>2, TotalRest DEF Inv, Types, Local
      <3>4. r.sum > 0
        BY <1>6, <2>2
      <3> QED
        BY <1>3, <3>1, <3>3, <3>4 DEF ReadSoFar
    <2> QED
      BY <2>1, <2>2
  <1>10. QuietOK(q)
    BY <1>2, <1>8, <1>9 DEF QuietOK, Exact
  <1>11. Calm /\ UNCHANGED <<chain, book, mode, loops, disk, engine, trade, day, spent>>
    BY DEF Calm, ReadEnds, clock
  <1>12. QuietOK(q)'
    BY <1>10, <1>11, CalmKeeps
  <1>13. task' = [task EXCEPT ![x] = q]
    BY <1>1, <1>3, <1>4, <1>5 DEF ReadEnds
  <1>14. Tasks' /\ \A y \in Readers : task'[y] = task[y] \/ \E p : task'[y] = p /\ QuietOK(p)'
    BY <1>7, <1>12, <1>13, Going
  <1>15. \A y \in Readers : QuietOK(task[y])'
    BY <1>11, <1>14, Kept
  <1>16. Engine'
    <2>1. seen' \in {seen, r.cash} /\ r.cash \in Nat
      BY <1>1, <1>2 DEF ReadEnds, Local
    <2> QED
      BY <1>11, <2>1 DEF Inv, Types, Engine, engine
  <1> QED
    BY <1>11, <1>14, <1>15, <1>16, Same DEF Inv, Types

-----------------------------------------------------------------------------
(* Swaps *)

LEMMA SwapBeginsTyped ==
  ASSUME Inv, NEW by \in Names, NEW t \in Tokens, NEW side \in {"buy", "sell"}, SwapBegins(by, t, side)
  PROVE  /\ Trading' /\ spent' \in Bounds /\ Tasks'
         /\ trade'.stage = "sent"
         /\ \A x \in Readers : task'[x] = task[x] \/ task'[x].quiet = FALSE
  <1>1. trade' = [stage |-> "sent", by |-> by, token |-> t, side |-> side] /\ task' = Goes(by)
    BY DEF SwapBegins
  <1>2. trade' \in Swap /\ trade'.stage = "sent"
    BY <1>1 DEF Swap
  <1>3. spent' \in Bounds
    BY Spends DEF SwapBegins
  <1>4. CASE by \in Readers
    <2>1. PICK r : r = [Rest EXCEPT !.pc = "trading"]
      OBVIOUS
    <2>2. r \in Local /\ r.quiet = FALSE
      BY <2>1, RestIs DEF Steps
    <2>3. task' = [task EXCEPT ![by] = r]
      BY <1>1, <1>4, <2>1 DEF Goes
    <2> QED
      BY <1>2, <1>3, <1>4, <2>2, <2>3, Going DEF Trading
  <1>5. CASE by \notin Readers
    BY <1>1, <1>2, <1>3, <1>5, Same DEF Goes, Trading
  <1> QED
    BY <1>4, <1>5

LEMMA TradeIs ==
  ASSUME Inv, trade.stage \in {"sent", "landed"}
  PROVE  trade \in Swap
  BY NoTradeIs DEF Inv, Types, Trading

LEMMA ReturnsTyped ==
  ASSUME Inv, NEW by \in Names, task' = Returns(by)
  PROVE  Tasks' /\ \A x \in Readers : task'[x] = task[x] \/ task'[x].quiet = FALSE
  <1>1. task' \in {task, Idle("scan"), Idle("owner")}
    BY DEF Returns, Readers
  <1>2. CASE task' = task
    BY <1>2, Same
  <1> QED
    BY <1>1, <1>2, Resting

\* Whatever a task was reading is not what it began with any more.
LEMMA Disturbs ==
  ASSUME Inv, task' = Disturb(task)
  PROVE  Tasks' /\ \A x \in Readers : QuietOK(task[x])'
  <1>1. \A x \in Readers : task[x] \in Local /\ task'[x] = [task[x] EXCEPT !.quiet = FALSE]
    BY DEF Inv, Types, Tasks, Disturb
  <1>2. ASSUME NEW x \in Readers PROVE task'[x] \in Local /\ task'[x].quiet = FALSE
    <2>1. PICK r \in Local : r = task[x]
      BY <1>1
    <2>2. [r EXCEPT !.quiet = FALSE] \in Local /\ [r EXCEPT !.quiet = FALSE].quiet = FALSE
      BY DEF Local
    <2> QED
      BY <1>1, <2>1, <2>2
  <1>3. Tasks'
    BY <1>2 DEF Tasks, Disturb
  <1>4. ASSUME NEW x \in Readers PROVE QuietOK(task[x])'
    <2>1. PICK r : r = task'[x]
      OBVIOUS
    <2>2. QuietOK(r)'
      BY <1>2, <2>1, NotQuiet
    <2> QED
      BY <2>1, <2>2
  <1> QED
    BY <1>3, <1>4

LEMMA SwapLandsKeeps ==
  ASSUME Inv, SwapLands
  PROVE  Inv'
  <1>1. trade \in Swap
    BY TradeIs DEF SwapLands
  <1>2. trade.token \in Tokens /\ price[trade.token] \in Nat /\ cash \in Nat
    BY <1>1, Constants DEF Swap, Inv, Types, Chain
  <1>3. PICK p : p = price[trade.token]
    OBVIOUS
  <1>4. \/ p <= cash /\ wallet' = wallet \cup {trade.token} /\ cash' = cash - p
        \/ wallet' = wallet \ {trade.token} /\ cash' = cash + p
    BY <1>3 DEF SwapLands
  <1>5. cash' \in Nat /\ wallet' \subseteq Tokens
    <2>1. p \in Nat /\ wallet \subseteq Tokens
      BY <1>2, <1>3 DEF Inv, Types, Chain
    <2> QED
      BY <1>2, <1>4, <2>1
  <1>6. Chain'
    BY <1>5 DEF SwapLands, Inv, Types, Chain
  <1>7. trade' \in Swap
    BY <1>1 DEF SwapLands, Swap
  <1>8. Tasks' /\ \A x \in Readers : QuietOK(task[x])'
    BY Disturbs DEF SwapLands
  <1>9. UNCHANGED <<book, mode, loops, disk, engine, seen, day, spent>>
    BY DEF SwapLands, clock
  <1> QED
    BY <1>6, <1>7, <1>8, <1>9, Same DEF Inv, Types, Trading

LEMMA SwapFailsKeeps ==
  ASSUME Inv, SwapFails
  PROVE  Inv'
  <1>1. trade \in Swap
    BY TradeIs DEF SwapFails
  <1>2. trade.by \in Names
    BY <1>1 DEF Swap
  <1>3. Tasks' /\ \A x \in Readers : task'[x] = task[x] \/ task'[x].quiet = FALSE
    BY <1>2, ReturnsTyped DEF SwapFails
  <1>4. UNCHANGED <<chain, book, mode, loops, disk, engine, seen, day, spent>> /\ trade' = NoTrade
    BY DEF SwapFails, clock
  <1>5. Calm
    BY <1>4, NoTradeIs DEF Calm
  <1>6. \A x \in Readers : QuietOK(task[x])'
    BY <1>3, <1>5, Kept
  <1> QED
    BY <1>3, <1>4, <1>6, Same DEF Inv, Types, Trading

LEMMA Saved ==
  ASSUME NEW m \in Modes, NEW p \in Nat, NEW b \in SUBSET Tokens
  PROVE  [mode |-> m, peak |-> p, book |-> b] \in Disk
  BY DEF Disk

\* A swap is booked after it has landed, when no reading is undisturbed.
LEMMA SwapBookedKeeps ==
  ASSUME Inv, SwapBooked
  PROVE  Inv'
  <1>1. trade \in Swap /\ trade.stage = "landed"
    BY TradeIs DEF SwapBooked
  <1>2. trade.by \in Names /\ trade.token \in Tokens
    BY <1>1 DEF Swap
  <1>3. Tasks' /\ \A x \in Readers : task'[x] = task[x] \/ task'[x].quiet = FALSE
    BY <1>2, ReturnsTyped DEF SwapBooked
  <1>4. UNCHANGED <<chain, loops, engine, seen, day, spent>> /\ trade' = NoTrade
    BY DEF SwapBooked, clock
  <1>5. Tracking' /\ disk' \in Disk
    <2>1. Tracking /\ disk \in Disk /\ peak \in Nat
      BY DEF Inv, Types, Engine
    <2>2. CASE UNCHANGED <<book, mode, disk>>
      BY <1>4, <2>1, <2>2 DEF Tracking
    <2>3. CASE /\ book' \in {book \cup {trade.token}, book \ {trade.token}} /\ mode' \in {"TRADING", mode}
               /\ disk' = [mode |-> mode', peak |-> peak, book |-> book']
      <3>1. book' \in SUBSET Tokens /\ mode' \in Modes
        BY <1>2, <2>1, <2>3 DEF Tracking, Modes
      <3> QED
        BY <1>4, <2>1, <2>3, <3>1, Saved DEF Tracking
    <2> QED
      BY <2>2, <2>3 DEF SwapBooked
  <1>6. \A x \in Readers : task[x].quiet = FALSE
    <2>1. \A x \in Readers : task[x].quiet \in BOOLEAN
      BY DEF Inv, Types, Tasks, Local
    <2>2. \A x \in Readers : ~task[x].quiet
      BY <1>1 DEF Inv, QuietOK
    <2> QED
      BY <2>1, <2>2
  <1>7. ASSUME NEW x \in Readers PROVE QuietOK(task[x])'
    <2>1. PICK r : r = task'[x]
      OBVIOUS
    <2>2. QuietOK(r)'
      BY <1>3, <1>6, <2>1, NotQuiet
    <2> QED
      BY <2>1, <2>2
  <1> QED
    BY <1>3, <1>4, <1>5, <1>7, Same DEF Inv, Types, Trading

LEMMA SellsKeeps ==
  ASSUME Inv, NEW by \in {"monitor", "owner"}, NEW t \in Tokens, Sells(by, t)
  PROVE  Inv'
  <1>1. UNCHANGED <<chain, mode, loops, engine, seen, day>>
    BY DEF Sells
  <1>2. CASE SwapBegins(by, t, "sell") /\ UNCHANGED <<book, disk>>
    <2>1. by \in Names
      BY DEF Names
    <2>2. /\ Trading' /\ spent' \in Bounds /\ Tasks' /\ trade'.stage = "sent"
          /\ \A x \in Readers : task'[x] = task[x] \/ task'[x].quiet = FALSE
      BY <1>2, <2>1, SwapBeginsTyped
    <2>3. Calm
      BY <1>1, <1>2, <2>2 DEF Calm
    <2>4. \A x \in Readers : QuietOK(task[x])'
      BY <2>2, <2>3, Kept
    <2> QED
      BY <1>1, <1>2, <2>2, <2>4, Same DEF Inv, Types
  <1>3. CASE /\ t \notin wallet /\ t \in book
             /\ book' = book \ {t} /\ disk' = [mode |-> mode, peak |-> peak, book |-> book']
             /\ UNCHANGED <<task, trade, spent>>
    <2>1. book' \in SUBSET Tokens /\ mode \in Modes /\ peak \in Nat
      BY <1>3 DEF Inv, Types, Tracking, Engine
    <2>2. disk' \in Disk /\ Tracking'
      BY <1>1, <1>3, <2>1, Saved DEF Inv, Types, Tracking
    <2>3. Calm
      BY <1>1, <1>3 DEF Calm
    <2>4. \A x \in Readers : QuietOK(task[x])'
      BY <1>3, <2>3, Kept
    <2> QED
      BY <1>1, <1>3, <2>2, <2>4, Same DEF Inv, Types
  <1> QED
    BY <1>2, <1>3 DEF Sells

-----------------------------------------------------------------------------
(* The scan *)

LEMMA UpdateTyped ==
  ASSUME Inv, NEW e \in Nat, NEW d \in 0 .. MaxDays, Update(e, d)
  PROVE  peak' \in Nat /\ anchor' \in Nat /\ anchorDay' \in 0 .. MaxDays \cup {NoDay}
  BY DEF Inv, Types, Engine, Update

LEMMA TaskIs ==
  ASSUME Inv, NEW x \in Readers
  PROVE  task[x] \in Local /\ task[x].equity \in Nat /\ task[x].day \in 0 .. MaxDays
  BY DEF Inv, Types, Tasks, Local

\* Where every lot is tracked the reconciliation finds nothing to do.
LEMMA ReconciledIs ==
  ASSUME Inv, NEW c \in SUBSET Tokens, NEW b \in Reconciled(c)
  PROVE  b \in SUBSET Tokens /\ (c = wallet => b = c)
  BY DEF Reconciled

LEMMA DetachedIs ==
  ASSUME Inv,
         \/ trade' \in {Detached, trade}
         \/ trade' = [trade EXCEPT !.by = "nobody"] /\ trade # NoTrade
  PROVE  Trading' /\ trade'.stage = trade.stage
  <1>1. \/ trade' = trade
        \/ trade' = [trade EXCEPT !.by = "nobody"] /\ trade # NoTrade
    BY DEF Detached
  <1>2. CASE trade' = trade
    BY <1>2, Same
  <1>3. CASE trade' = [trade EXCEPT !.by = "nobody"] /\ trade # NoTrade
    <2>1. trade \in Swap
      BY <1>3 DEF Inv, Types, Trading
    <2>2. trade' \in Swap /\ trade'.stage = trade.stage
      BY <1>3, <2>1 DEF Swap, Names
    <2> QED
      BY <2>2 DEF Trading
  <1> QED
    BY <1>1, <1>2, <1>3

LEMMA ReaderNames == "scan" \in Readers /\ "owner" \in Readers /\ "scan" \in Names /\ "owner" \in Names
  BY DEF Readers, Names

LEMMA ScanBeginsKeeps ==
  ASSUME Inv, ScanBegins
  PROVE  Inv'
  <1>1. spent' \in Bounds
    BY DEF ScanBegins, clock, Inv, Types
  <1> QED
    BY <1>1, BeginKeeps, ReaderNames DEF ScanBegins, clock

LEMMA ScanUpdatesKeeps ==
  ASSUME Inv, ScanUpdates
  PROVE  Inv'
  <1>1. UNCHANGED <<chain, book, mode, loops, disk, seen, trade, day, spent>>
    BY DEF ScanUpdates, clock
  <1>2. PICK e \in Nat : e = task["scan"].equity
    BY TaskIs, ReaderNames
  <1>3. Engine'
    <2>1. CASE UNCHANGED engine
      BY <1>1, <2>1, Same
    <2>2. CASE Update(e, task["scan"].day)
      <3>1. peak' \in Nat /\ anchor' \in Nat /\ anchorDay' \in 0 .. MaxDays \cup {NoDay}
        BY <2>2, TaskIs, ReaderNames, UpdateTyped
      <3> QED
        BY <1>1, <3>1 DEF Inv, Types, Engine
    <2> QED
      BY <1>2, <2>1, <2>2 DEF ScanUpdates
  <1>4. Tasks' /\ \A x \in Readers : task'[x] = task[x] \/ task'[x].quiet = FALSE
    <2>1. CASE task' = Idle("scan")
      BY <2>1, Resting
    <2>2. CASE task' = [task EXCEPT !["scan"] = [Rest EXCEPT !.pc = "checking", !.equity = e]]
      <3>1. PICK r : r = [Rest EXCEPT !.pc = "checking", !.equity = e]
        OBVIOUS
      <3>2. r \in Local /\ r.quiet = FALSE
        BY <3>1, RestIs DEF Steps
      <3> QED
        BY <2>2, <3>1, <3>2, Going, ReaderNames
    <2> QED
      BY <1>2, <2>1, <2>2 DEF ScanUpdates
  <1>5. Calm
    BY <1>1 DEF Calm
  <1>6. \A x \in Readers : QuietOK(task[x])'
    BY <1>4, <1>5, Kept
  <1> QED
    BY <1>1, <1>3, <1>4, <1>6, Same DEF Inv, Types

LEMMA ScanChecksKeeps ==
  ASSUME Inv, ScanChecks
  PROVE  Inv'
  <1>1. UNCHANGED <<chain, engine, seen, day, spent>> /\ task["scan"].pc = "checking"
    BY DEF ScanChecks, clock
  <1>2. PICK b \in Reconciled(book) :
          /\ book' = b
          /\ disk' = IF b # book THEN [mode |-> mode, peak |-> peak, book |-> b] ELSE disk
    BY DEF ScanChecks
  <1>3. book \in SUBSET Tokens /\ mode \in Modes /\ peak \in Nat /\ loops \in BOOLEAN /\ disk \in Disk
    BY DEF Inv, Types, Tracking, Engine
  <1>4. book' \in SUBSET Tokens /\ (book = wallet => book' = book)
    BY <1>2, <1>3, ReconciledIs
  <1>5. disk' \in Disk
    <2>1. [mode |-> mode, peak |-> peak, book |-> b] \in Disk
      BY <1>2, <1>3, <1>4, Saved
    <2> QED
      BY <1>2, <1>3, <2>1
  <1>6. Tracking' /\ Trading' /\ trade'.stage = trade.stage
    <2>1. mode' \in Modes /\ loops' \in BOOLEAN
      BY <1>3 DEF ScanChecks, Modes
    <2>2. trade' \in {Detached, trade}
      BY DEF ScanChecks
    <2> QED
      BY <1>4, <2>1, <2>2, DetachedIs DEF Tracking
  <1>7. Tasks' /\ \A x \in Readers : task'[x] = task[x] \/ task'[x].quiet = FALSE
    <2>1. CASE task' = Idle("scan")
      BY <2>1, Resting
    <2>2. CASE task' = [task EXCEPT !["scan"].pc = "deciding", !["scan"].cash = seen]
      <3>1. PICK r \in Local : r = task["scan"]
        BY TaskIs, ReaderNames
      <3>2. r.quiet = FALSE
        BY <1>1, <3>1, QuietSteps, ReaderNames
      <3>3. PICK q : q = [r EXCEPT !.pc = "deciding", !.cash = seen]
        OBVIOUS
      <3>4. q \in Local /\ q.quiet = FALSE
        <4>1. seen \in Nat
          BY DEF Inv, Types, Engine
        <4> QED
          BY <3>1, <3>2, <3>3, <4>1 DEF Local, Steps
      <3>5. task' = [task EXCEPT !["scan"] = q]
        BY <2>2, <3>1, <3>3, ReaderNames DEF Inv, Types, Tasks
      <3> QED
        BY <3>4, <3>5, Going, ReaderNames
    <2> QED
      BY <2>1, <2>2 DEF ScanChecks
  <1>8. Calm
    BY <1>1, <1>4, <1>6 DEF Calm
  <1>9. \A x \in Readers : QuietOK(task[x])'
    BY <1>7, <1>8, Kept
  <1> QED
    BY <1>1, <1>5, <1>6, <1>7, <1>9, Same DEF Inv, Types

LEMMA ScanDecidesKeeps ==
  ASSUME Inv, ScanDecides
  PROVE  Inv'
  <1>1. UNCHANGED <<chain, book, mode, loops, engine, seen, day>>
    BY DEF ScanDecides
  <1>2. CASE (\E t \in Tokens : SwapBegins("scan", t, "buy")) /\ UNCHANGED disk
    <2>1. PICK t \in Tokens : SwapBegins("scan", t, "buy")
      BY <1>2
    <2>2. /\ Trading' /\ spent' \in Bounds /\ Tasks' /\ trade'.stage = "sent"
          /\ \A x \in Readers : task'[x] = task[x] \/ task'[x].quiet = FALSE
      BY <2>1, ReaderNames, SwapBeginsTyped
    <2>3. Calm
      BY <1>1, <2>2 DEF Calm
    <2>4. \A x \in Readers : QuietOK(task[x])'
      BY <2>2, <2>3, Kept
    <2> QED
      BY <1>1, <1>2, <2>2, <2>4, Same DEF Inv, Types
  <1>3. CASE /\ task' = Idle("scan") /\ disk' \in {disk, [mode |-> mode, peak |-> peak, book |-> book]}
             /\ UNCHANGED <<trade, spent>>
    <2>1. Tasks' /\ \A x \in Readers : task'[x] = task[x] \/ task'[x].quiet = FALSE
      BY <1>3, Resting
    <2>2. disk' \in Disk
      BY <1>3, Saved DEF Inv, Types, Tracking, Engine
    <2>3. Calm
      BY <1>1, <1>3 DEF Calm
    <2>4. \A x \in Readers : QuietOK(task[x])'
      BY <2>1, <2>3, Kept
    <2> QED
      BY <1>1, <1>3, <2>1, <2>2, <2>4, Same DEF Inv, Types
  <1> QED
    BY <1>2, <1>3 DEF ScanDecides

-----------------------------------------------------------------------------
(* The owner *)

LEMMA OwnerReadsKeeps ==
  ASSUME Inv, OwnerReads
  PROVE  Inv'
  <1>1. spent' \in Bounds
    BY Spends DEF OwnerReads
  <1> QED
    BY <1>1, BeginKeeps, ReaderNames DEF OwnerReads

LEMMA OwnerBuysKeeps ==
  ASSUME Inv, OwnerBuys
  PROVE  Inv'
  <1>1. UNCHANGED <<chain, book, mode, loops, disk, seen, day>>
    BY DEF OwnerBuys
  <1>2. PICK e \in Nat : e = task["owner"].equity
    BY TaskIs, ReaderNames
  <1>3. peak' \in Nat /\ anchor' \in Nat /\ anchorDay' \in 0 .. MaxDays \cup {NoDay}
    <2>1. Update(e, day) /\ day \in 0 .. MaxDays
      BY <1>2 DEF OwnerBuys, Inv, Types, Engine
    <2> QED
      BY <2>1, UpdateTyped
  <1>4. Engine'
    BY <1>1, <1>3 DEF Inv, Types, Engine
  <1>5. CASE \E t \in Tokens : SwapBegins("owner", t, "buy")
    <2>1. PICK t \in Tokens : SwapBegins("owner", t, "buy")
      BY <1>5
    <2>2. /\ Trading' /\ spent' \in Bounds /\ Tasks' /\ trade'.stage = "sent"
          /\ \A x \in Readers : task'[x] = task[x] \/ task'[x].quiet = FALSE
      BY <2>1, ReaderNames, SwapBeginsTyped
    <2>3. Calm
      BY <1>1, <2>2 DEF Calm
    <2>4. \A x \in Readers : QuietOK(task[x])'
      BY <2>2, <2>3, Kept
    <2> QED
      BY <1>1, <1>4, <2>2, <2>4, Same DEF Inv, Types
  <1>6. CASE task' = Idle("owner") /\ UNCHANGED <<trade, spent>>
    <2>1. Tasks' /\ \A x \in Readers : task'[x] = task[x] \/ task'[x].quiet = FALSE
      BY <1>6, Resting
    <2>2. Calm
      BY <1>1, <1>6 DEF Calm
    <2>3. \A x \in Readers : QuietOK(task[x])'
      BY <2>1, <2>2, Kept
    <2> QED
      BY <1>1, <1>4, <1>6, <2>1, <2>3, Same DEF Inv, Types
  <1> QED
    BY <1>5, <1>6 DEF OwnerBuys

LEMMA OwnerRebasesKeeps ==
  ASSUME Inv, OwnerRebases
  PROVE  Inv'
  <1>1. UNCHANGED <<chain, book, mode, loops, disk, anchor, anchorDay, seen, trade, day, spent>>
    BY DEF OwnerRebases, clock
  <1>2. peak' \in Nat
    BY TaskIs, ReaderNames DEF OwnerRebases
  <1>3. Engine'
    BY <1>1, <1>2 DEF Inv, Types, Engine
  <1>4. PICK r : r = [Rest EXCEPT !.pc = "rebasing"]
    OBVIOUS
  <1>5. r \in Local /\ r.quiet = FALSE
    BY <1>4, RestIs DEF Steps
  <1>6. task' = [task EXCEPT !["owner"] = r]
    BY <1>4 DEF OwnerRebases
  <1>7. Tasks' /\ \A x \in Readers : task'[x] = task[x] \/ task'[x].quiet = FALSE
    BY <1>5, <1>6, Going, ReaderNames
  <1>8. Calm
    BY <1>1 DEF Calm
  <1>9. \A x \in Readers : QuietOK(task[x])'
    BY <1>7, <1>8, Kept
  <1> QED
    BY <1>1, <1>3, <1>7, <1>9, Same DEF Inv, Types

LEMMA OwnerResumesKeeps ==
  ASSUME Inv, OwnerResumes
  PROVE  Inv'
  <1>1. UNCHANGED <<chain, loops, engine, seen, trade, day, spent>> /\ task["owner"].pc = "rebasing"
    BY DEF OwnerResumes, clock
  <1>2. book' \in SUBSET Tokens /\ (book = wallet => book' = book)
    <2>1. book \in SUBSET Tokens /\ book' \in Reconciled(book)
      BY DEF OwnerResumes, Inv, Types, Tracking
    <2>2. PICK b \in Reconciled(book) : b = book'
      BY <2>1
    <2> QED
      BY <2>1, <2>2, ReconciledIs
  <1>3. mode' = "TRADING" /\ disk' = [mode |-> mode', peak |-> peak, book |-> book']
    BY DEF OwnerResumes
  <1>4. mode' \in Modes /\ peak \in Nat
    BY <1>3 DEF Modes, Inv, Types, Engine
  <1>5. disk' \in Disk
    BY <1>2, <1>3, <1>4, Saved
  <1>6. Tracking'
    BY <1>1, <1>2, <1>4 DEF Inv, Types, Tracking
  <1>7. Tasks' /\ \A x \in Readers : task'[x] = task[x] \/ task'[x].quiet = FALSE
    <2>1. PICK r \in Local : r = task["owner"]
      BY TaskIs, ReaderNames
    <2>2. r.quiet = FALSE
      BY <1>1, <2>1, QuietSteps, ReaderNames
    <2>3. PICK q : q = [r EXCEPT !.pc = "announcing"]
      OBVIOUS
    <2>4. q \in Local /\ q.quiet = FALSE
      BY <2>1, <2>2, <2>3 DEF Local, Steps
    <2>5. task' = [task EXCEPT !["owner"] = q]
      BY <2>1, <2>3, ReaderNames DEF Inv, Types, Tasks, OwnerResumes
    <2> QED
      BY <2>4, <2>5, Going, ReaderNames
  <1>8. Calm
    BY <1>1, <1>2 DEF Calm
  <1>9. \A x \in Readers : QuietOK(task[x])'
    BY <1>7, <1>8, Kept
  <1> QED
    BY <1>1, <1>5, <1>6, <1>7, <1>9, Same DEF Inv, Types

LEMMA OwnerStartsKeeps ==
  ASSUME Inv, OwnerStartsLoops
  PROVE  Inv'
  <1>1. UNCHANGED <<chain, book, mode, disk, engine, seen, day, spent>> /\ loops' = TRUE
    BY DEF OwnerStartsLoops, clock
  <1>2. Tracking'
    BY <1>1 DEF Inv, Types, Tracking
  <1>3. Tasks' /\ \A x \in Readers : task'[x] = task[x] \/ task'[x].quiet = FALSE
    BY Resting DEF OwnerStartsLoops
  <1>4. Trading' /\ trade'.stage = trade.stage
    BY DetachedIs DEF OwnerStartsLoops
  <1>5. Calm
    BY <1>1, <1>4 DEF Calm
  <1>6. \A x \in Readers : QuietOK(task[x])'
    BY <1>3, <1>5, Kept
  <1> QED
    BY <1>1, <1>2, <1>3, <1>4, <1>6, Same DEF Inv, Types

LEMMA OwnerSavesKeeps ==
  ASSUME Inv, OwnerSaves
  PROVE  Inv'
  <1>1. UNCHANGED <<chain, book, mode, loops, engine, seen, task, trade, day, spent>>
    BY DEF OwnerSaves, clock
  <1>2. disk' \in Disk
    BY Saved DEF OwnerSaves, Inv, Types, Tracking, Engine
  <1>3. Calm
    BY <1>1 DEF Calm
  <1>4. \A x \in Readers : QuietOK(task[x])'
    BY <1>1, <1>3, Kept
  <1> QED
    BY <1>1, <1>2, <1>4, Same DEF Inv, Types

-----------------------------------------------------------------------------
(* Restarts, and the world *)

LEMMA RebootsKeep ==
  ASSUME Inv, Reboots
  PROVE  Inv'
  <1>1. PICK missed \in SUBSET Assets :
          LET e == IF Total(Assets \ missed) > 0 THEN Total(Assets \ missed) ELSE Worth
              restored == IF disk.peak > 0 THEN disk.peak ELSE Worth
          IN /\ spent.faults + 1 + Cardinality(missed) <= MaxFaults
             /\ spent' = [spent EXCEPT !.faults = @ + 1 + Cardinality(missed)]
             /\ peak' \in {e, restored}
             /\ anchor' = Worth /\ anchorDay' = NoDay
             /\ seen' \in {0, cash}
             /\ mode' = disk.mode /\ loops' = (disk.mode = "TRADING")
             /\ book' \in Reconciled(disk.book) \cup {disk.book}
             /\ disk' = [mode |-> mode', peak |-> peak', book |-> book']
             /\ task' = [r \in Readers |-> Rest]
             /\ trade' = IF trade = NoTrade THEN trade ELSE [trade EXCEPT !.by = "nobody"]
             /\ UNCHANGED <<chain, day>>
    BY DEF Reboots
  <1>2. Worth \in Nat /\ Total(Assets \ missed) \in Nat
    BY TotalNat DEF Inv, Types, Worth
  <1>3. disk.mode \in Modes /\ disk.peak \in Nat /\ disk.book \in SUBSET Tokens
    BY DEF Inv, Types, Disk
  <1>4. peak' \in Nat /\ anchor' \in Nat /\ seen' \in Nat
    BY <1>1, <1>2, <1>3 DEF Inv, Types, Chain
  <1>5. Engine'
    BY <1>1, <1>4 DEF Inv, Types, Engine
  <1>6. book' \in SUBSET Tokens
    <2>1. CASE book' \in Reconciled(disk.book)
      <3>1. PICK b \in Reconciled(disk.book) : b = book'
        BY <2>1
      <3> QED
        BY <1>3, <3>1, ReconciledIs
    <2> QED
      BY <1>1, <1>3, <2>1
  <1>7. mode' \in Modes /\ loops' \in BOOLEAN
    BY <1>1, <1>3
  <1>8. Tracking' /\ disk' \in Disk
    BY <1>1, <1>4, <1>6, <1>7, Saved DEF Tracking
  <1>9. spent' \in Bounds
    <2>1. IsFiniteSet(missed)
      BY AssetsFinite, FS_Subset
    <2>2. PICK c \in Nat : c = Cardinality(missed)
      BY <2>1, FS_CardinalityType
    <2>3. spent \in Bounds /\ spent.faults \in Nat
      BY Constants DEF Inv, Types, Bounds
    <2>4. spent.faults + 1 + c \in 0 .. MaxFaults
      BY <1>1, <2>2, <2>3, Constants
    <2>5. spent' = [spent EXCEPT !.faults = spent.faults + 1 + c]
      BY <1>1, <2>2
    <2> QED
      BY <2>3, <2>4, <2>5 DEF Bounds
  <1>10. Tasks' /\ \A x \in Readers : task'[x].quiet = FALSE
    <2>1. task' = [r \in Readers |-> Rest]
      BY <1>1
    <2> QED
      BY <2>1, RestIs DEF Tasks
  <1>11. Trading'
    BY <1>1, DetachedIs
  <1>12. ASSUME NEW x \in Readers PROVE QuietOK(task[x])'
    <2>1. PICK r : r = task'[x]
      OBVIOUS
    <2>2. QuietOK(r)'
      BY <1>10, <2>1, NotQuiet
    <2> QED
      BY <2>1, <2>2
  <1> QED
    BY <1>1, <1>5, <1>8, <1>9, <1>10, <1>11, <1>12, Same DEF Inv, Types

LEMMA PriceMovesKeeps ==
  ASSUME Inv, NEW t \in Tokens, PriceMoves(t)
  PROVE  Inv'
  <1>1. UNCHANGED <<cash, wallet, book, mode, loops, disk, engine, seen, trade, day>>
    BY DEF PriceMoves
  <1>2. Chain'
    BY <1>1 DEF PriceMoves, Inv, Types, Chain
  <1>3. Tasks' /\ \A x \in Readers : QuietOK(task[x])'
    BY Disturbs DEF PriceMoves
  <1>4. spent' \in Bounds
    BY Spends DEF PriceMoves
  <1> QED
    BY <1>1, <1>2, <1>3, <1>4, Same DEF Inv, Types

LEMMA MidnightKeeps ==
  ASSUME Inv, Midnight
  PROVE  Inv'
  <1>1. UNCHANGED <<chain, book, mode, loops, disk, engine, seen, task, trade, spent>>
    BY DEF Midnight
  <1>2. day' \in 0 .. MaxDays
    BY Constants DEF Midnight, Inv, Types, Engine
  <1>3. Engine'
    BY <1>1, <1>2 DEF Inv, Types, Engine, engine
  <1>4. Calm
    BY <1>1 DEF Calm
  <1>5. \A x \in Readers : QuietOK(task[x])'
    BY <1>1, <1>4, Kept
  <1> QED
    BY <1>1, <1>3, <1>5, Same DEF Inv, Types

LEMMA StartOK == Init => Inv
  <1> SUFFICES ASSUME Init PROVE Inv
    OBVIOUS
  <1>1. Chain
    BY Constants DEF Init, Chain
  <1>2. Worth \in Nat
    BY <1>1, TotalNat DEF Worth
  <1>3. Tracking /\ 0 \in 0 .. MaxDays
    BY Constants DEF Init, Tracking, Modes
  <1>4. Engine
    BY <1>1, <1>2, <1>3 DEF Init, Engine, Chain
  <1>5. disk \in Disk
    BY <1>3, <1>4, Saved DEF Init, Tracking, Engine
  <1>6. Tasks /\ \A x \in Readers : task[x].quiet = FALSE
    BY RestIs DEF Init, Tasks
  <1>7. Trading
    BY DEF Init, Trading
  <1>8. spent \in Bounds
    <2>1. 0 \in 0 .. MaxFaults /\ 0 \in 0 .. MaxCommands /\ 0 \in 0 .. MaxTrades /\ 0 \in 0 .. MaxMoves
      BY Constants
    <2> QED
      BY <2>1 DEF Init, Bounds
  <1>9. \A x \in Readers : QuietOK(task[x])
    BY <1>6, NotQuiet
  <1> QED
    BY <1>1, <1>3, <1>4, <1>5, <1>6, <1>7, <1>8, <1>9 DEF Inv, Types

LEMMA StepOK == Inv /\ [Next]_vars => Inv'
  <1> SUFFICES ASSUME Inv, [Next]_vars PROVE Inv'
    OBVIOUS
  <1>1. CASE Scan
    BY <1>1, ScanBeginsKeeps, ReadBalanceKeeps, ReadEndsKeeps, ScanUpdatesKeeps, ScanChecksKeeps,
       ScanDecidesKeeps, ReaderNames DEF Scan
  <1>2. CASE Owner
    BY <1>2, OwnerReadsKeeps, ReadBalanceKeeps, ReadEndsKeeps, OwnerBuysKeeps, OwnerRebasesKeeps,
       OwnerResumesKeeps, OwnerStartsKeeps, OwnerSavesKeeps, ReaderNames DEF Owner
  <1>3. CASE SwapLands \/ SwapFails \/ SwapBooked
    BY <1>3, SwapLandsKeeps, SwapFailsKeeps, SwapBookedKeeps
  <1>4. CASE \E t \in Tokens : Sells("monitor", t) \/ Sells("owner", t) \/ PriceMoves(t)
    BY <1>4, SellsKeeps, PriceMovesKeeps
  <1>5. CASE UNCHANGED vars
    <2>1. /\ UNCHANGED <<chain, book, mode, loops, disk, engine, seen, task, trade, day, spent>>
          /\ Calm
      BY <1>5 DEF vars, clock, Calm
    <2>2. \A x \in Readers : QuietOK(task[x])'
      BY <2>1, Kept
    <2> QED
      BY <2>1, <2>2, Same DEF Inv, Types
  <1> QED
    BY <1>1, <1>2, <1>3, <1>4, <1>5, RebootsKeep, MidnightKeeps DEF Next

LEMMA Always == Spec => []Inv
  BY StartOK, StepOK, PTL DEF Spec

-----------------------------------------------------------------------------
(* The theorems *)

\* The engine, the tasks and the file keep to their types, for any wallet, any number of balances
\* and any prices: the book never holds what is not a token.
THEOREM Typed == Spec => []TypeOK
  <1>1. Inv => TypeOK
    BY TypesAre DEF Inv
  <1> QED
    BY <1>1, Always, PTL

\* For any number of balances read in any order, a reading that the guard accepts and under which
\* nothing changed is what the wallet is worth.
THEOREM AcceptedIsExact == Spec => []QuietReadingExact
  <1>1. Inv => QuietReadingExact
    BY ReaderNames DEF Inv, QuietOK, Exact, QuietReadingExact
  <1> QED
    BY <1>1, Always, PTL
=============================================================================
