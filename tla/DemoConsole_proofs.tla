-------------------------- MODULE DemoConsole_proofs --------------------------
(***************************************************************************)
(* What holds of the console for any tokens, quotes, number of workers,    *)
(* buttons and cycles: the trade log matches the book whatever overlaps,   *)
(* and what the ledger, the stops and the halt promise as long as nothing, *)
(* or no two cycles, overlap.                                              *)
(***************************************************************************)
EXTENDS DemoConsole, SumFacts, FiniteSetTheorems, TLAPS

-----------------------------------------------------------------------------
(* The inductive invariant *)

Position == [token : Tokens, stake : Nat, entry : Nat \ {0}, stop : Nat, top : Nat, trailing : BOOLEAN]
Steps == {"rest", "walk", "close", "credit", "remove", "size", "order", "debit", "book", "end"}
Process == [pc : Steps,
            quote : [Tokens -> Nat], todo : SUBSET Nat, id : Nat, cash : Int, amount : Int,
            token : Tokens \cup {"none"}]
Closing == {"close", "credit", "remove"}
Buying == {"size", "order", "debit", "book"}

\* What is true of a process wherever it is: the positions it visits and closes were made, the
\* token it buys has a quote, its order is not too small; the event loop only closes.
ProcOK(r) ==
  /\ r.todo \subseteq 1 .. spent.opens
  /\ r.pc \in Closing => r.id \in 1 .. spent.opens
  /\ r.pc \in Buying => r.token \in Tokens /\ r.quote[r.token] > 0
  /\ r.pc \in {"order", "debit", "book"} => r.amount >= 0
LoopOK(r) == r.pc \in {"rest", "walk"} \cup Closing /\ r.token = "none"
Types ==
  /\ cash \in Int /\ peak \in Nat /\ open \subseteq DOMAIN pos
  /\ pos \in [1 .. spent.opens -> Position] /\ sold \in [1 .. spent.opens -> SUBSET Nat]
  /\ flags \in [running : BOOLEAN, paused : BOOLEAN]
  /\ proc \in [Processes -> Process] /\ overlap \in {"none", "buttons", "ticks"}
  /\ spent \in [opens : 0 .. MaxOpens, ticks : 0 .. MaxTicks, buttons : 0 .. MaxButtons]
Procs == LoopOK(proc[Loop]) /\ \A p \in Processes : ProcOK(proc[p])

\* A position that is open was never sold, one that is not was sold once.
Log == \A i \in 1 .. spent.opens : IF i \in open THEN sold[i] = {} ELSE \E q \in Nat : sold[i] = {q}
\* A position that trails has its stop at the entry or above.
Trails == \A i \in 1 .. spent.opens : pos[i].trailing => pos[i].stop >= pos[i].entry

\* The cash that a book and its trade log account for.
WorthOf(x, q) == (x.stake * q) \div x.entry
Stakes(P) == SumFunction([i \in DOMAIN P |-> P[i].stake])
Brought(P, S) == SumFunction([i \in DOMAIN P |-> SumFunction([q \in S[i] |-> WorthOf(P[i], q)])])
Balance(P, S) == StartCash - Stakes(P) + Brought(P, S)

\* What a process alone at work has credited and not logged yet, or debited and not booked.
Pending(r) ==
  IF r.pc = "remove" THEN WorthOf(pos[r.id], r.quote[pos[r.id].token])
  ELSE IF r.pc = "book" THEN 0 - r.amount
  ELSE 0
\* A process alone at work: what it read is still so.
AloneOK(p, r) ==
  /\ r.todo \subseteq open
  /\ r.pc \in Closing => r.id \in open \ r.todo
  /\ r.pc \in {"credit", "debit"} => r.cash = cash
  /\ r.pc \in {"order", "debit"} => r.amount <= cash
  /\ IF p = Loop THEN open = r.todo \cup IF r.pc \in Closing THEN {r.id} ELSE {}
     ELSE flags.running
  /\ cash = Balance(pos, sold) + Pending(r)
\* Nothing has overlapped: at most one process is at work.
Solo ==
  overlap = "none" =>
    /\ \A p, q \in Processes : p # q => proc[p].pc = "rest" \/ proc[q].pc = "rest"
    /\ \A p \in Processes : proc[p].pc # "rest" => AloneOK(p, proc[p])
    /\ Idle => cash = Balance(pos, sold)
    /\ cash >= 0 /\ (~flags.running => open = {})

Inv == Types /\ Procs /\ Log /\ Trails /\ Solo

-----------------------------------------------------------------------------
(* What a book and its trade log account for *)

LEMMA Quotient ==
  ASSUME NEW a \in Nat, NEW b \in Nat \ {0}
  PROVE  a \div b \in Nat
  OBVIOUS

LEMMA WorthIs ==
  ASSUME NEW x \in Position, NEW q \in Nat
  PROVE  WorthOf(x, q) \in Nat
  <1>1. x.stake \in Nat /\ x.entry \in Nat \ {0}
    BY DEF Position
  <1>2. PICK a : a = x.stake * q
    OBVIOUS
  <1>3. a \in Nat
    BY <1>1, <1>2
  <1> QED
    BY <1>1, <1>2, <1>3, Quotient DEF WorthOf

\* A book of n positions and its trade log, where each was sold once at most.
BookOK(P, S, n) ==
  /\ n \in Nat /\ P \in [1 .. n -> Position] /\ S \in [1 .. n -> SUBSET Nat]
  /\ \A i \in 1 .. n : S[i] = {} \/ \E q \in Nat : S[i] = {q}
StakesBy(P) == [i \in DOMAIN P |-> P[i].stake]
SalesOf(x, s) == [q \in s |-> WorthOf(x, q)]
SalesBy(P, S) == [i \in DOMAIN P |-> SumFunction(SalesOf(P[i], S[i]))]

LEMMA BalanceIs ==
  ASSUME NEW P, NEW S
  PROVE  Balance(P, S) = StartCash - SumFunction(StakesBy(P)) + SumFunction(SalesBy(P, S))
  BY DEF Balance, Stakes, Brought, StakesBy, SalesBy, SalesOf

LEMMA SalesAre ==
  ASSUME NEW x \in Position
  PROVE  /\ SumFunction(SalesOf(x, {})) = 0
         /\ \A q \in Nat : SumFunction(SalesOf(x, {q})) = WorthOf(x, q)
  <1>1. SumFunction(SalesOf(x, {})) = 0
    <2>1. DOMAIN SalesOf(x, {}) = {}
      BY DEF SalesOf
    <2> QED
      BY <2>1, SumEmpty
  <1>2. ASSUME NEW q \in Nat PROVE SumFunction(SalesOf(x, {q})) = WorthOf(x, q)
    <2>1. SalesOf(x, {q}) \in [{q} -> Int] /\ SalesOf(x, {q})[q] = WorthOf(x, q)
      <3>1. WorthOf(x, q) \in Int
        BY WorthIs
      <3> QED
        BY <3>1 DEF SalesOf
    <2> QED
      BY <2>1, SumSingle
  <1> QED
    BY <1>1, <1>2

LEMMA BookTypes ==
  ASSUME NEW P, NEW S, NEW n, BookOK(P, S, n)
  PROVE  /\ StakesBy(P) \in [1 .. n -> Int] /\ SalesBy(P, S) \in [1 .. n -> Int]
         /\ SumFunction(StakesBy(P)) \in Int /\ SumFunction(SalesBy(P, S)) \in Int
         /\ IsFiniteSet(1 .. n) /\ StartCash \in Nat /\ Balance(P, S) \in Int
  <1>1. IsFiniteSet(1 .. n)
    BY FS_Interval DEF BookOK
  <1>2. StakesBy(P) \in [1 .. n -> Int]
    BY DEF BookOK, StakesBy, Position
  <1>3. SalesBy(P, S) \in [1 .. n -> Int]
    <2>1. ASSUME NEW i \in 1 .. n PROVE SumFunction(SalesOf(P[i], S[i])) \in Int
      <3>1. P[i] \in Position /\ (S[i] = {} \/ \E q \in Nat : S[i] = {q})
        BY DEF BookOK
      <3>2. CASE S[i] = {}
        BY <3>1, <3>2, SalesAre
      <3>3. ASSUME NEW q \in Nat, S[i] = {q} PROVE SumFunction(SalesOf(P[i], S[i])) \in Int
        BY <3>1, <3>3, SalesAre, WorthIs
      <3> QED
        BY <3>1, <3>2, <3>3
    <2> QED
      BY <2>1 DEF BookOK, SalesBy
  <1>4. StartCash \in Nat
    BY ConsoleAssumption
  <1>5. SumFunction(StakesBy(P)) \in Int /\ SumFunction(SalesBy(P, S)) \in Int
    BY <1>1, <1>2, <1>3, SumAdd
  <1> QED
    BY <1>1, <1>2, <1>3, <1>4, <1>5, BalanceIs

\* A trade log before and after a sale, a book and its trade log after a purchase.
NeverSold(S, i) == S[i] = {}
SoldAt(S, i, q) == [S EXCEPT ![i] = {q}]
Unsold(S, n) == [j \in 1 .. n |-> IF j = n THEN {} ELSE S[j]]
Follows(n, m) == m = n + 1
Booked(P, x, n) == [j \in 1 .. n |-> IF j = n THEN x ELSE P[j]]

LEMMA SoldBalance ==   \* position i is sold at q
  ASSUME NEW P, NEW S, NEW n, BookOK(P, S, n), NEW i \in 1 .. n, NeverSold(S, i), NEW q \in Nat,
         NEW Z, Z = SoldAt(S, i, q)
  PROVE  BookOK(P, Z, n) /\ Balance(P, Z) = Balance(P, S) + WorthOf(P[i], q)
  <1>0. S[i] = {} /\ Z = [S EXCEPT ![i] = {q}]
    BY DEF NeverSold, SoldAt
  <1>1. BookOK(P, Z, n)
    BY <1>0 DEF BookOK
  <1>2. SalesBy(P, Z)[i] = WorthOf(P[i], q) /\ SalesBy(P, S)[i] = 0
    <2>1. P[i] \in Position /\ Z[i] = {q}
      BY <1>0 DEF BookOK
    <2>2. SalesBy(P, Z)[i] = SumFunction(SalesOf(P[i], {q}))
      BY <2>1 DEF SalesBy, BookOK
    <2>3. SalesBy(P, S)[i] = SumFunction(SalesOf(P[i], {}))
      BY <1>0 DEF SalesBy, BookOK
    <2> QED
      BY <2>1, <2>2, <2>3, SalesAre
  <1>3. \A j \in (1 .. n) \ {i} : SalesBy(P, Z)[j] = SalesBy(P, S)[j]
    BY <1>0 DEF SalesBy, BookOK
  <1>4. PICK f, g : f = SalesBy(P, S) /\ g = SalesBy(P, Z)
    OBVIOUS
  <1>5. f \in [1 .. n -> Int] /\ g \in [1 .. n -> Int] /\ IsFiniteSet(1 .. n)
    BY <1>1, <1>4, BookTypes
  <1>6. PICK D : D = 1 .. n
    OBVIOUS
  <1>7. SumFunction(g) = SumFunction(f) + g[i] - f[i]
    <2>1. f \in [D -> Int] /\ g \in [D -> Int] /\ IsFiniteSet(D) /\ i \in D
      BY <1>5, <1>6
    <2>2. \A y \in D \ {i} : g[y] = f[y]
      BY <1>3, <1>4, <1>6
    <2> QED
      BY <2>1, <2>2, SumChange
  <1>8. g[i] = WorthOf(P[i], q) /\ f[i] = 0
    BY <1>2, <1>4
  <1>9. SumFunction(f) \in Int /\ SumFunction(StakesBy(P)) \in Int /\ StartCash \in Nat
    BY <1>4, BookTypes
  <1>10. WorthOf(P[i], q) \in Nat
    BY WorthIs DEF BookOK
  <1>11. Balance(P, S) = StartCash - SumFunction(StakesBy(P)) + SumFunction(f)
    BY <1>4, BalanceIs
  <1>12. Balance(P, Z) = StartCash - SumFunction(StakesBy(P)) + SumFunction(g)
    BY <1>4, BalanceIs
  <1> QED
    BY <1>1, <1>7, <1>8, <1>9, <1>10, <1>11, <1>12

LEMMA BoughtBalance ==   \* one position more is booked
  ASSUME NEW P, NEW S, NEW n, BookOK(P, S, n), NEW x \in Position, NEW m, Follows(n, m),
         NEW R, R = Booked(P, x, m), NEW Z, Z = Unsold(S, m)
  PROVE  BookOK(R, Z, m) /\ Balance(R, Z) = Balance(P, S) - x.stake
  <1>1. n \in Nat /\ m \in Nat /\ 1 .. m = (1 .. n) \cup {m} /\ m \notin 1 .. n
    BY DEF BookOK, Follows
  <1>0. R = [j \in 1 .. m |-> IF j = m THEN x ELSE P[j]] /\ Z = [j \in 1 .. m |-> IF j = m THEN {} ELSE S[j]]
    BY DEF Booked, Unsold
  <1>2. R \in [1 .. m -> Position] /\ Z \in [1 .. m -> SUBSET Nat]
    BY <1>0, <1>1 DEF BookOK
  <1>3. BookOK(R, Z, m)
    BY <1>0, <1>1, <1>2 DEF BookOK
  <1>4. PICK k : k = m
    OBVIOUS
  <1>5. PICK f, g, h, e : f = StakesBy(P) /\ g = StakesBy(R) /\ h = SalesBy(P, S) /\ e = SalesBy(R, Z)
    OBVIOUS
  <1>6. PICK D : D = 1 .. n
    OBVIOUS
  <1>7. /\ f \in [D -> Int] /\ h \in [D -> Int] /\ IsFiniteSet(D) /\ k \notin D
        /\ SumFunction(f) \in Int /\ SumFunction(h) \in Int /\ StartCash \in Nat
    BY <1>1, <1>4, <1>5, <1>6, BookTypes
  <1>8. g \in [D \cup {k} -> Int] /\ e \in [D \cup {k} -> Int]
    BY <1>1, <1>3, <1>4, <1>5, <1>6, BookTypes
  <1>9. g[k] = x.stake /\ \A j \in D : g[j] = f[j]
    BY <1>0, <1>1, <1>4, <1>5, <1>6 DEF StakesBy, BookOK
  <1>10. e[k] = 0
    <2>1. e[k] = SumFunction(SalesOf(R[k], Z[k]))
      BY <1>1, <1>2, <1>4, <1>5 DEF SalesBy
    <2>2. R[k] \in Position /\ Z[k] = {}
      BY <1>0, <1>1, <1>2, <1>4
    <2> QED
      BY <2>1, <2>2, SalesAre
  <1>11. \A j \in D : e[j] = h[j]
    <2> SUFFICES ASSUME NEW j \in D PROVE e[j] = h[j]
      OBVIOUS
    <2>1. R[j] = P[j] /\ Z[j] = S[j]
      BY <1>0, <1>1, <1>6
    <2>2. e[j] = SumFunction(SalesOf(R[j], Z[j]))
      BY <1>1, <1>2, <1>5, <1>6 DEF SalesBy
    <2>3. h[j] = SumFunction(SalesOf(P[j], S[j]))
      BY <1>5, <1>6 DEF SalesBy, BookOK
    <2> QED
      BY <2>1, <2>2, <2>3
  <1>12. SumFunction(g) = SumFunction(f) + g[k] /\ SumFunction(e) = SumFunction(h) + e[k]
    <2>1. f \in [D -> Int] /\ h \in [D -> Int] /\ IsFiniteSet(D) /\ k \notin D
      BY <1>7
    <2>2. \A y \in D : g[y] = f[y]
      BY <1>9
    <2>3. g \in [D \cup {k} -> Int]
      BY <1>8
    <2>4. e \in [D \cup {k} -> Int]
      BY <1>8
    <2>5. SumFunction(g) = SumFunction(f) + g[k]
      BY <2>1, <2>2, <2>3, SumExtend
    <2>6. SumFunction(e) = SumFunction(h) + e[k]
      BY <2>1, <2>4, <1>11, SumExtend
    <2> QED
      BY <2>5, <2>6
  <1>14. Balance(P, S) = StartCash - SumFunction(f) + SumFunction(h)
    BY <1>5, BalanceIs
  <1>15. Balance(R, Z) = StartCash - SumFunction(g) + SumFunction(e)
    BY <1>5, BalanceIs
  <1>16. x.stake \in Nat
    BY DEF Position
  <1> QED
    BY <1>3, <1>7, <1>9, <1>10, <1>12, <1>14, <1>15, <1>16

LEMMA SameBalance ==   \* what a position was bought for is all that counts
  ASSUME NEW P, NEW S, NEW n, BookOK(P, S, n), NEW R \in [1 .. n -> Position],
         \A i \in 1 .. n : R[i].stake = P[i].stake /\ R[i].entry = P[i].entry
  PROVE  BookOK(R, S, n) /\ Balance(R, S) = Balance(P, S)
  <1>1. BookOK(R, S, n)
    BY DEF BookOK
  <1>2. \A i \in 1 .. n : SalesOf(R[i], S[i]) = SalesOf(P[i], S[i])
    BY DEF SalesOf, WorthOf
  <1>3. StakesBy(R) = StakesBy(P) /\ SalesBy(R, S) = SalesBy(P, S)
    BY <1>2 DEF StakesBy, SalesBy, BookOK
  <1> QED
    BY <1>1, <1>3, BalanceIs

LEMMA EmptyBalance ==
  ASSUME NEW P, NEW S, DOMAIN P = {}
  PROVE  Balance(P, S) = StartCash
  <1>1. DOMAIN StakesBy(P) = {} /\ DOMAIN SalesBy(P, S) = {}
    BY DEF StakesBy, SalesBy
  <1>2. SumFunction(StakesBy(P)) = 0 /\ SumFunction(SalesBy(P, S)) = 0
    BY <1>1, SumEmpty
  <1>3. StartCash \in Nat
    BY ConsoleAssumption
  <1> QED
    BY <1>2, <1>3, BalanceIs

-----------------------------------------------------------------------------
(* The initial states, and what a step of one process leaves of the others *)

LEMMA Begins == Init => Inv
  <1> SUFFICES ASSUME Init PROVE Inv
    OBVIOUS
  <1> USE DEF Init, Rest, Steps
  <1>1. {StartCash, MaxPositions, MinOrder, MaxOpens, MaxTicks, MaxButtons} \subseteq Nat
    BY ConsoleAssumption
  <1>2. spent.opens = 0 /\ 1 .. spent.opens = {} /\ DOMAIN pos = {} /\ DOMAIN sold = {}
    OBVIOUS
  <1>3. Rest \in Process
    BY DEF Process
  <1>4. Types
    <2>1. pos \in [1 .. spent.opens -> Position] /\ sold \in [1 .. spent.opens -> SUBSET Nat]
      BY <1>2
    <2>2. proc \in [Processes -> Process]
      BY <1>3
    <2>3. spent \in [opens : 0 .. MaxOpens, ticks : 0 .. MaxTicks, buttons : 0 .. MaxButtons]
      BY <1>1
    <2>4. StartCash \in Nat
      BY <1>1
    <2>5. cash \in Int /\ peak \in Nat /\ open \subseteq DOMAIN pos
      BY <2>4
    <2>6. flags \in [running : BOOLEAN, paused : BOOLEAN] /\ overlap \in {"none", "buttons", "ticks"}
      OBVIOUS
    <2> QED
      BY <2>1, <2>2, <2>3, <2>5, <2>6, Zenon DEF Types
  <1>5. Procs
    BY DEF Procs, ProcOK, LoopOK, Processes, Closing, Buying
  <1>6. Log /\ Trails
    BY <1>2 DEF Log, Trails
  <1>7. Solo
    <2>1. Balance(pos, sold) = StartCash
      BY <1>2, EmptyBalance
    <2>2. cash = Balance(pos, sold) /\ cash >= 0 /\ open = {}
      BY <1>1, <2>1
    <2>3. \A p \in Processes : proc[p].pc = "rest"
      OBVIOUS
    <2> QED
      BY <2>2, <2>3 DEF Solo
  <1> QED
    BY <1>4, <1>5, <1>6, <1>7 DEF Inv

LEMMA Numbers ==
  ASSUME Types
  PROVE  /\ spent.opens \in Nat /\ spent.opens <= MaxOpens /\ spent.ticks \in Nat
         /\ spent.buttons \in Nat /\ spent.ticks <= MaxTicks /\ spent.buttons <= MaxButtons
         /\ {StartCash, MaxPositions, MinOrder, MaxOpens, MaxTicks, MaxButtons} \subseteq Nat
  BY ConsoleAssumption DEF Types

LEMMA Fields ==   \* a process at p, and what the invariant says of it
  ASSUME Inv, NEW p \in Processes, NEW c, c = proc[p]
  PROVE  /\ c \in Process /\ ProcOK(c) /\ (p = Loop => LoopOK(c))
         /\ c.pc \in Steps
         /\ c.quote \in [Tokens -> Nat] /\ c.todo \in SUBSET Nat /\ c.id \in Nat /\ c.cash \in Int
         /\ c.amount \in Int /\ c.token \in Tokens \cup {"none"}
         /\ overlap = "none" /\ c.pc # "rest" => AloneOK(p, c) /\ cash >= 0 /\ (~flags.running => open = {})
  <1>1. c \in Process
    BY DEF Inv, Types
  <1>2. ProcOK(c) /\ (p = Loop => LoopOK(c))
    BY DEF Inv, Procs
  <1>3. overlap = "none" /\ c.pc # "rest" => AloneOK(p, c) /\ cash >= 0 /\ (~flags.running => open = {})
    BY DEF Inv, Solo
  <1> QED
    BY <1>1, <1>2, <1>3 DEF Process

LEMMA ProcsKept ==
  ASSUME Inv, NEW p \in Processes, NEW r \in Process, Goes(p, r),
         spent'.opens \in Nat, spent.opens <= spent'.opens, ProcOK(r)', p = Loop => LoopOK(r)
  PROVE  proc' \in [Processes -> Process] /\ Procs'
  <1>1. proc \in [Processes -> Process] /\ spent.opens \in Nat
    BY Numbers DEF Inv, Types
  <1>2. proc' = [proc EXCEPT ![p] = r]
    BY DEF Goes
  <1>3. proc' \in [Processes -> Process] /\ proc'[p] = r /\ \A q \in Processes \ {p} : proc'[q] = proc[q]
    BY <1>1, <1>2
  <1>4. ASSUME NEW q \in Processes PROVE ProcOK(proc[q])'
    <2>1. CASE q = p
      BY <1>3, <2>1 DEF ProcOK
    <2>2. CASE q # p
      <3>1. PICK d : d = proc[q]
        OBVIOUS
      <3>2. proc'[q] = d
        BY <1>3, <2>2, <3>1
      <3>3. ProcOK(d)
        BY <3>1, Fields
      <3>4. 1 .. spent.opens \subseteq 1 .. spent'.opens
        BY <1>1
      <3> QED
        BY <3>2, <3>3, <3>4 DEF ProcOK
    <2> QED
      BY <2>1, <2>2
  <1>5. LoopOK(proc[Loop])'
    <2>1. LoopOK(proc[Loop]) /\ Loop \in Processes
      BY DEF Inv, Procs, Processes
    <2>2. (proc'[Loop] = r /\ p = Loop) \/ proc'[Loop] = proc[Loop]
      BY <1>3, <2>1
    <2> QED
      BY <2>1, <2>2 DEF LoopOK
  <1> QED
    BY <1>3, <1>4, <1>5 DEF Procs

\* What must hold of a process that takes a step alone, and of what it leaves.
LeavesOK(p, r) ==
  /\ cash >= 0 /\ (~flags.running => open = {})
  /\ IF r.pc = "rest" THEN cash = Balance(pos, sold) ELSE AloneOK(p, r)

LEMMA SoloKept ==
  ASSUME Inv, NEW p \in Processes, proc[p].pc # "rest", NEW r \in Process, Goes(p, r),
         overlap' = overlap, overlap = "none" => LeavesOK(p, r)'
  PROVE  Solo'
  <1> SUFFICES ASSUME overlap' = "none"
      PROVE  /\ \A q, s \in Processes : q # s => proc'[q].pc = "rest" \/ proc'[s].pc = "rest"
             /\ \A q \in Processes : proc'[q].pc # "rest" => AloneOK(q, proc[q])'
             /\ (Idle => cash = Balance(pos, sold))'
             /\ cash' >= 0 /\ (~flags'.running => open' = {})
    BY DEF Solo
  <1>1. LeavesOK(p, r)'
    OBVIOUS
  <1>2. \A q \in Processes \ {p} : proc[q].pc = "rest"
    BY DEF Inv, Solo
  <1>3. proc \in [Processes -> Process] /\ proc' = [proc EXCEPT ![p] = r]
    BY DEF Inv, Types, Goes
  <1>4. proc'[p] = r /\ \A q \in Processes \ {p} : proc'[q].pc = "rest"
    BY <1>2, <1>3
  <1>5. \A q, s \in Processes : q # s => proc'[q].pc = "rest" \/ proc'[s].pc = "rest"
    BY <1>4
  <1>6. ASSUME NEW q \in Processes, proc'[q].pc # "rest" PROVE AloneOK(q, proc[q])'
    <2>1. q = p /\ r.pc # "rest"
      BY <1>4, <1>6
    <2>2. AloneOK(p, r)'
      BY <1>1, <2>1 DEF LeavesOK
    <2> QED
      BY <1>4, <2>1, <2>2 DEF AloneOK, Pending
  <1>7. (Idle => cash = Balance(pos, sold))'
    BY <1>1, <1>4 DEF Idle, LeavesOK
  <1> QED
    BY <1>1, <1>5, <1>6, <1>7 DEF LeavesOK

LEMMA BookIs ==
  ASSUME Inv
  PROVE  BookOK(pos, sold, spent.opens)
  <1>1. spent.opens \in Nat
    BY Numbers DEF Inv
  <1> QED
    BY <1>1 DEF BookOK, Inv, Types, Log

-----------------------------------------------------------------------------
(* _close *)

LEMMA BookKept ==
  ASSUME Inv, UNCHANGED <<open, pos, sold, spent>>
  PROVE  Log' /\ Trails' /\ open' \subseteq DOMAIN pos' /\ BookOK(pos, sold, spent.opens)
         /\ spent'.opens \in Nat /\ spent.opens <= spent'.opens
  <1>1. Log' /\ Trails' /\ open' \subseteq DOMAIN pos'
    BY DEF Inv, Types, Log, Trails
  <1> QED
    BY <1>1, BookIs, Numbers DEF Inv

\* A process that goes on to step k and notes the cash y.
Turn(c, k, y) == [c EXCEPT !.pc = k, !.cash = y]

LEMMA Turns ==   \* a process goes on, and notes an amount of cash
  ASSUME NEW c \in Process, NEW k \in Steps, NEW y \in Int, NEW r,
         r = Turn(c, k, y)
  PROVE  /\ r \in Process /\ r.pc = k /\ r.cash = y /\ r.todo = c.todo /\ r.id = c.id
         /\ r.token = c.token /\ r.quote = c.quote /\ r.amount = c.amount
  BY DEF Process, Turn

LEMMA CloseReadsKeeps ==
  ASSUME Inv, NEW p \in Processes, CloseReads(p)
  PROVE  Inv'
  <1> USE DEF CloseReads, ledger
  <1>1. PICK c : c = proc[p]
    OBVIOUS
  <1>2. PICK r : r = [c EXCEPT !.pc = "credit", !.cash = cash]
    OBVIOUS
  <1>3. Goes(p, r) /\ c.pc = "close"
    BY <1>1, <1>2
  <1>4. c \in Process /\ ProcOK(c) /\ (p = Loop => LoopOK(c))
    BY <1>1, Fields
  <1>5. /\ r \in Process /\ r.pc = "credit" /\ r.cash = cash /\ r.todo = c.todo /\ r.id = c.id
        /\ r.token = c.token /\ r.quote = c.quote
    BY <1>2, <1>4 DEF Process, Inv, Types, Steps
  <1>6. ProcOK(r)' /\ (p = Loop => LoopOK(r))
    BY <1>3, <1>4, <1>5 DEF ProcOK, LoopOK, Closing, Buying
  <1>7. Log' /\ Trails' /\ spent'.opens \in Nat /\ spent.opens <= spent'.opens
    BY BookKept
  <1>8. proc' \in [Processes -> Process] /\ Procs'
    BY <1>3, <1>5, <1>6, <1>7, ProcsKept
  <1>9. Types'
    BY <1>8 DEF Inv, Types
  <1>10. ASSUME overlap = "none" PROVE LeavesOK(p, r)'
    <2>1. AloneOK(p, c) /\ cash >= 0 /\ (~flags.running => open = {})
      BY <1>1, <1>3, <1>10, Fields
    <2>2. Pending(c) = 0 /\ Pending(r)' = 0
      BY <1>3, <1>5 DEF Pending
    <2>3. AloneOK(p, r)'
      BY <1>3, <1>5, <2>1, <2>2 DEF AloneOK, Closing
    <2> QED
      BY <1>5, <2>1, <2>3 DEF LeavesOK
  <1>11. Solo'
    BY <1>1, <1>3, <1>5, <1>10, SoloKept
  <1> QED
    BY <1>7, <1>8, <1>9, <1>11 DEF Inv

LEMMA CloseCreditsKeeps ==
  ASSUME Inv, NEW p \in Processes, CloseCredits(p)
  PROVE  Inv'
  <1>1. PICK c : c = proc[p]
    OBVIOUS
  <1>2. PICK r : r = [c EXCEPT !.pc = "remove", !.cash = 0]
    OBVIOUS
  <1>3. Goes(p, r) /\ c.pc = "credit" /\ UNCHANGED <<open, pos, sold, peak, flags, overlap, spent>>
    BY <1>1, <1>2 DEF CloseCredits
  <1>4. c \in Process /\ ProcOK(c) /\ (p = Loop => LoopOK(c)) /\ c.cash \in Int
    BY <1>1, Fields
  <1>5. /\ r \in Process /\ r.pc = "remove" /\ r.todo = c.todo /\ r.id = c.id
        /\ r.token = c.token /\ r.quote = c.quote
    <2>1. PICK k \in Steps, y \in Int : k = "remove" /\ y = 0
      BY DEF Steps
    <2>2. r = Turn(c, k, y)
      BY <1>2, <2>1 DEF Turn
    <2>3. c \in Process
      BY <1>4
    <2>4. /\ r \in Process /\ r.pc = k /\ r.todo = c.todo /\ r.id = c.id /\ r.token = c.token
          /\ r.quote = c.quote
      BY <2>2, <2>3, Turns
    <2> QED
      BY <2>1, <2>4
  <1>6. ProcOK(r)' /\ (p = Loop => LoopOK(r))
    BY <1>3, <1>4, <1>5 DEF ProcOK, LoopOK, Closing, Buying
  <1>7. Log' /\ Trails' /\ spent'.opens \in Nat /\ spent.opens <= spent'.opens
    BY <1>3, BookKept
  <1>8. proc' \in [Processes -> Process] /\ Procs'
    BY <1>3, <1>5, <1>6, <1>7, ProcsKept
  <1>9. PICK w : w = WorthOf(pos[c.id], c.quote[pos[c.id].token])
    OBVIOUS
  <1>10. w \in Nat
    <2>1. c.id \in 1 .. spent.opens
      BY <1>3, <1>4 DEF ProcOK, Closing
    <2>2. pos[c.id] \in Position
      BY <2>1 DEF Inv, Types
    <2>3. c.quote[pos[c.id].token] \in Nat
      BY <1>1, <2>2, Fields DEF Position
    <2> QED
      BY <1>9, <2>2, <2>3, WorthIs
  <1>11. cash' = c.cash + w
    BY <1>1, <1>9 DEF CloseCredits, Worth, WorthOf
  <1>12. Types'
    <2>1. cash' \in Int
      BY <1>4, <1>10, <1>11
    <2> QED
      BY <1>3, <1>8, <2>1 DEF Inv, Types
  <1>13. ASSUME overlap = "none" PROVE LeavesOK(p, r)'
    <2>1. AloneOK(p, c) /\ cash >= 0 /\ (~flags.running => open = {})
      BY <1>1, <1>3, <1>13, Fields
    <2>2. Pending(c) = 0 /\ Pending(r)' = w
      BY <1>3, <1>5, <1>9, Zenon DEF Pending
    <2>3. c.cash = cash /\ cash = Balance(pos, sold)
      <3>1. Balance(pos, sold) \in Int
        BY BookIs, BookTypes
      <3> QED
        BY <1>3, <2>1, <2>2, <3>1 DEF AloneOK
    <2>4. cash' = Balance(pos, sold)' + Pending(r)'
      BY <1>3, <1>11, <2>2, <2>3
    <2>5. AloneOK(p, r)'
      BY <1>3, <1>5, <2>1, <2>4 DEF AloneOK, Closing
    <2>6. cash' >= 0
      BY <1>4, <1>10, <1>11, <2>1, <2>3
    <2> QED
      BY <1>3, <1>5, <2>1, <2>5, <2>6 DEF LeavesOK
  <1>14. Solo'
    BY <1>1, <1>3, <1>5, <1>13, SoloKept
  <1> QED
    BY <1>7, <1>8, <1>12, <1>14 DEF Inv

LEMMA CloseRemovesKeeps ==
  ASSUME Inv, NEW p \in Processes, CloseRemoves(p)
  PROVE  Inv'
  <1>1. PICK c : c = proc[p]
    OBVIOUS
  <1>2. c.pc = "remove" /\ UNCHANGED <<cash, pos, peak, flags, overlap, spent>>
    BY <1>1 DEF CloseRemoves
  <1>3. c \in Process /\ ProcOK(c) /\ (p = Loop => LoopOK(c))
    BY <1>1, Fields
  <1>4. c.id \in 1 .. spent.opens
    BY <1>2, <1>3 DEF ProcOK, Closing
  <1>5. spent'.opens \in Nat /\ spent.opens <= spent'.opens
    BY <1>2, Numbers DEF Inv
  <1>6. pos[c.id] \in Position
    BY <1>4 DEF Inv, Types
  <1>7. PICK q : q = c.quote[pos[c.id].token]
    OBVIOUS
  <1>8. q \in Nat
    BY <1>1, <1>6, <1>7, Fields DEF Position
  <1>9. CASE c.id \notin open
    <2>1. Goes(p, Rest) /\ UNCHANGED <<open, sold>>
      BY <1>1, <1>9 DEF CloseRemoves
    <2>2. PICK r : r = Rest
      OBVIOUS
    <2>3. r \in Process /\ r.pc = "rest" /\ r.todo = {} /\ r.token = "none"
      BY <2>2 DEF Rest, Process, Steps
    <2>4. ProcOK(r)' /\ (p = Loop => LoopOK(r))
      BY <2>3 DEF ProcOK, LoopOK, Closing, Buying
    <2>5. Log' /\ Trails'
      BY <1>2, <2>1, BookKept
    <2>6. proc' \in [Processes -> Process] /\ Procs'
      BY <1>5, <2>1, <2>2, <2>3, <2>4, ProcsKept
    <2>7. Types'
      BY <1>2, <2>1, <2>6 DEF Inv, Types
    <2>8. overlap # "none"
      BY <1>1, <1>2, <1>9, Fields DEF AloneOK, Closing
    <2>9. Solo'
      BY <1>2, <2>8 DEF Solo
    <2> QED
      BY <2>5, <2>6, <2>7, <2>9 DEF Inv
  <1>10. CASE c.id \in open
    <2>0. PICK k \in {"walk", "end"} : k = IF c.token = "none" THEN "walk" ELSE "end"
      OBVIOUS
    <2>1. PICK r : r = [c EXCEPT !.pc = k, !.id = 0]
      OBVIOUS
    <2>2. /\ open' = open \ {c.id} /\ sold' = [sold EXCEPT ![c.id] = @ \cup {q}] /\ Goes(p, r)
      BY <1>1, <1>7, <1>10, <2>0, <2>1 DEF CloseRemoves, Without
    <2>3. r \in Process /\ r.pc = k /\ r.todo = c.todo /\ r.token = c.token
      <3>1. c \in Process
        BY <1>3
      <3> QED
        BY <2>0, <2>1, <3>1 DEF Process, Steps
    <2>4. ProcOK(r)' /\ (p = Loop => LoopOK(r))
      BY <1>2, <1>3, <2>0, <2>3 DEF ProcOK, LoopOK, Closing, Buying
    <2>5. sold[c.id] = {} /\ sold \in [1 .. spent.opens -> SUBSET Nat]
      BY <1>4, <1>10 DEF Inv, Log, Types
    <2>6. sold' = SoldAt(sold, c.id, q) /\ sold' \in [1 .. spent.opens -> SUBSET Nat] /\ sold'[c.id] = {q}
      BY <1>4, <1>8, <2>2, <2>5 DEF SoldAt
    <2>7. \A i \in 1 .. spent.opens : i # c.id => sold'[i] = sold[i]
      BY <2>2, <2>5
    <2>8. Log'
      BY <1>2, <1>8, <2>2, <2>6, <2>7 DEF Inv, Log
    <2>9. Trails'
      BY <1>2 DEF Inv, Trails
    <2>10. proc' \in [Processes -> Process] /\ Procs'
      BY <1>5, <2>2, <2>3, <2>4, ProcsKept
    <2>11. Types'
      BY <1>2, <2>2, <2>6, <2>10 DEF Inv, Types
    <2>12. ASSUME overlap = "none" PROVE LeavesOK(p, r)'
      <3>1. AloneOK(p, c) /\ cash >= 0 /\ (~flags.running => open = {})
        BY <1>1, <1>2, <2>12, Fields
      <3>2. Pending(c) = WorthOf(pos[c.id], q) /\ Pending(r)' = 0
        BY <1>2, <1>7, <2>3 DEF Pending
      <3>3. Balance(pos, sold') = Balance(pos, sold) + WorthOf(pos[c.id], q)
        <4>1. NeverSold(sold, c.id)
          BY <2>5 DEF NeverSold
        <4>2. PICK Z : Z = sold'
          OBVIOUS
        <4> QED
          BY <1>4, <1>8, <2>6, <4>1, <4>2, BookIs, SoldBalance
      <3>4. Balance(pos, sold)' = Balance(pos, sold')
        BY <1>2
      <3>5. cash = Balance(pos, sold) + WorthOf(pos[c.id], q)
        BY <3>1, <3>2 DEF AloneOK
      <3>6. cash' = Balance(pos, sold)' + Pending(r)' /\ cash' >= 0
        <4>1. cash \in Int
          BY DEF Inv, Types
        <4> QED
          BY <1>2, <3>1, <3>2, <3>3, <3>4, <3>5, <4>1
      <3>7. AloneOK(p, r)'
        <4>1. c.id \notin c.todo /\ c.todo \subseteq open
          BY <1>2, <3>1 DEF AloneOK, Closing
        <4>2. r.todo \subseteq open'
          BY <2>2, <2>3, <4>1
        <4>3. p = Loop => open' = r.todo
          BY <1>2, <2>2, <2>3, <3>1, <4>1 DEF AloneOK, Closing
        <4>4. p # Loop => flags'.running
          BY <1>2, <3>1 DEF AloneOK
        <4> QED
          BY <2>3, <3>6, <4>2, <4>3, <4>4 DEF AloneOK, Closing
      <3>8. ~flags'.running => open' = {}
        BY <1>2, <2>2, <3>1
      <3> QED
        BY <2>3, <3>6, <3>7, <3>8 DEF LeavesOK
    <2>13. Solo'
      BY <1>1, <1>2, <2>2, <2>3, <2>12, SoloKept
    <2> QED
      BY <2>8, <2>9, <2>10, <2>11, <2>13 DEF Inv
  <1> QED
    BY <1>9, <1>10

-----------------------------------------------------------------------------
(* tick *)

LEMMA Worker ==
  ASSUME NEW w \in Workers
  PROVE  w \in Processes /\ w # Loop
  BY ConsoleAssumption DEF Processes

\* A step that only takes one process on.
OnlyGoes(p, r) == Goes(p, r) /\ UNCHANGED <<cash, open, pos, sold, peak, flags, overlap, spent>>

LEMMA OnlyGoesKeeps ==
  ASSUME Inv, NEW p \in Processes, proc[p].pc # "rest", NEW r \in Process, OnlyGoes(p, r),
         r.pc # "rest", ProcOK(r), p = Loop => LoopOK(r),
         overlap = "none" /\ AloneOK(p, proc[p]) => AloneOK(p, r)
  PROVE  Inv'
  <1>1. Goes(p, r) /\ UNCHANGED <<cash, open, pos, sold, peak, flags, overlap, spent>>
    BY DEF OnlyGoes
  <1>2. Log' /\ Trails' /\ spent'.opens \in Nat /\ spent.opens <= spent'.opens
    BY <1>1, BookKept
  <1>3. ProcOK(r)'
    BY <1>1 DEF ProcOK
  <1>4. proc' \in [Processes -> Process] /\ Procs'
    BY <1>1, <1>2, <1>3, ProcsKept
  <1>5. Types'
    BY <1>1, <1>4 DEF Inv, Types
  <1>6. ASSUME overlap = "none" PROVE LeavesOK(p, r)'
    <2>1. PICK c : c = proc[p]
      OBVIOUS
    <2>2. AloneOK(p, c) /\ cash >= 0 /\ (~flags.running => open = {})
      BY <1>6, <2>1, Fields
    <2>3. AloneOK(p, r)
      BY <1>6, <2>1, <2>2
    <2>4. AloneOK(p, r)'
      BY <1>1, <2>3 DEF AloneOK, Pending
    <2> QED
      BY <1>1, <2>2, <2>4 DEF LeavesOK
  <1>7. Solo'
    BY <1>1, <1>6, SoloKept
  <1> QED
    BY <1>2, <1>4, <1>5, <1>7 DEF Inv

LEMMA BeginsKeeps ==   \* a process begins to visit every open position
  ASSUME Inv, NEW p \in Processes, proc[p].pc = "rest", NEW r \in Process, Goes(p, r), Overlaps(p),
         r.pc = "walk", r.todo = open, r.token = "none", p # Loop => flags.running,
         UNCHANGED <<cash, open, pos, sold, peak, flags>>, spent'.opens = spent.opens,
         spent' \in [opens : 0 .. MaxOpens, ticks : 0 .. MaxTicks, buttons : 0 .. MaxButtons]
  PROVE  Inv'
  <1>1. spent'.opens \in Nat /\ spent.opens <= spent'.opens
    BY Numbers DEF Inv
  <1>2. Log' /\ Trails'
    BY DEF Inv, Log, Trails
  <1>3. ProcOK(r)' /\ LoopOK(r)
    BY DEF ProcOK, LoopOK, Closing, Buying, Inv, Types
  <1>4. proc' \in [Processes -> Process] /\ Procs'
    BY <1>1, <1>3, ProcsKept
  <1>5. overlap' \in {"none", "buttons", "ticks"} /\ (overlap' = "none" => overlap = "none" /\ Idle)
    BY DEF Inv, Types, Overlaps
  <1>6. Types'
    BY <1>4, <1>5 DEF Inv, Types
  <1>7. ASSUME overlap' = "none"
        PROVE  /\ \A q, s \in Processes : q # s => proc'[q].pc = "rest" \/ proc'[s].pc = "rest"
               /\ \A q \in Processes : proc'[q].pc # "rest" => AloneOK(q, proc[q])'
               /\ (Idle => cash = Balance(pos, sold))'
               /\ cash' >= 0 /\ (~flags'.running => open' = {})
    <2>1. /\ \A q \in Processes : proc[q].pc = "rest"
          /\ cash = Balance(pos, sold) /\ cash >= 0 /\ (~flags.running => open = {})
      BY <1>5, <1>7 DEF Idle, Inv, Solo
    <2>2. proc \in [Processes -> Process] /\ proc' = [proc EXCEPT ![p] = r]
      BY DEF Inv, Types, Goes
    <2>3. proc'[p] = r /\ \A q \in Processes \ {p} : proc'[q].pc = "rest"
      BY <2>1, <2>2
    <2>4. Balance(pos, sold)' = Balance(pos, sold) /\ Balance(pos, sold) \in Int
      BY BookIs, BookTypes
    <2>5. AloneOK(p, r)'
      <3>1. Pending(r)' = 0
        BY DEF Pending
      <3>2. cash' = Balance(pos, sold)' + Pending(r)'
        BY <2>1, <2>4, <3>1
      <3> QED
        BY <3>2 DEF AloneOK, Closing
    <2>6. ASSUME NEW q \in Processes, proc'[q].pc # "rest" PROVE AloneOK(q, proc[q])'
      <3>1. q = p
        BY <2>3, <2>6
      <3> QED
        BY <2>3, <2>5, <3>1 DEF AloneOK, Pending
    <2>7. ~Idle'
      BY <2>3 DEF Idle
    <2>8. \A q, s \in Processes : q # s => proc'[q].pc = "rest" \/ proc'[s].pc = "rest"
      BY <2>3
    <2> QED
      BY <2>1, <2>6, <2>7, <2>8
  <1>8. Solo'
    BY <1>7 DEF Solo
  <1> QED
    BY <1>2, <1>4, <1>6, <1>8 DEF Inv

LEMMA Starting ==   \* the fields of a process that begins
  ASSUME Inv, NEW quote \in Markets, NEW r, NEW todo, todo = open,
         r = [Rest EXCEPT !.pc = "walk", !.quote = quote, !.todo = todo]
  PROVE  r \in Process /\ r.pc = "walk" /\ r.todo = open /\ r.token = "none"
  <1>1. quote \in [Tokens -> Nat]
    BY ConsoleAssumption
  <1>2. open \in SUBSET Nat
    BY DEF Inv, Types
  <1>3. PICK x : x = Rest
    OBVIOUS
  <1>4. x \in Process /\ x.token = "none"
    BY <1>3 DEF Rest, Process, Steps
  <1>5. r = [x EXCEPT !.pc = "walk", !.quote = quote, !.todo = todo]
    BY <1>3
  <1>6. r \in Process /\ r.pc = "walk" /\ r.todo = todo /\ r.token = x.token
    BY <1>1, <1>2, <1>4, <1>5 DEF Process, Steps
  <1> QED
    BY <1>4, <1>6

\* What is used of the bounds.
Spent(s) == s \in [opens : 0 .. MaxOpens, ticks : 0 .. MaxTicks, buttons : 0 .. MaxButtons]

LEMMA TickBeginsKeeps ==
  ASSUME Inv, NEW w \in Workers, TickBegins(w)
  PROVE  Inv'
  <1>1. PICK quote \in Markets : Goes(w, [Rest EXCEPT !.pc = "walk", !.quote = quote, !.todo = open])
    BY DEF TickBegins
  <1>2. PICK todo : todo = open
    OBVIOUS
  <1>3. PICK r : r = [Rest EXCEPT !.pc = "walk", !.quote = quote, !.todo = todo]
    OBVIOUS
  <1>4. r \in Process /\ r.pc = "walk" /\ r.todo = open /\ r.token = "none"
    BY <1>2, <1>3, Starting
  <1>5. Goes(w, r)
    BY <1>1, <1>2, <1>3
  <1>6. /\ proc[w].pc = "rest" /\ flags.running /\ spent.ticks < MaxTicks
        /\ spent' = [spent EXCEPT !.ticks = @ + 1] /\ Overlaps(w)
        /\ UNCHANGED <<cash, open, pos, sold, peak, flags>>
    BY DEF TickBegins, ledger
  <1>7. /\ spent'.opens = spent.opens
        /\ spent' \in [opens : 0 .. MaxOpens, ticks : 0 .. MaxTicks, buttons : 0 .. MaxButtons]
    <2>1. Spent(spent) /\ MaxTicks \in Nat
      BY Numbers DEF Inv, Types, Spent
    <2>2. Spent(spent') /\ spent'.opens = spent.opens
      BY <1>6, <2>1 DEF Spent
    <2> QED
      BY <2>2 DEF Spent
  <1> QED
    BY <1>4, <1>5, <1>6, <1>7, Worker, BeginsKeeps

LEMMA BelowIs ==
  ASSUME NEW q \in Nat
  PROVE  Below(q) \in Nat
  <1>1. 100 - StopPct \in Nat
    BY ConsoleAssumption
  <1>2. PICK d \in Nat : d = 100 - StopPct
    BY <1>1
  <1>3. PICK a : a = q * d
    OBVIOUS
  <1>4. a \in Nat
    BY <1>3
  <1>5. a \div 100 \in Nat
    BY <1>4
  <1> QED
    BY <1>2, <1>3, <1>5 DEF Below

LEMMA WatchedIs ==   \* what a visit makes of a position
  ASSUME NEW x \in Position, NEW q \in Nat, x.trailing => x.stop >= x.entry
  PROVE  /\ Watched(x, q) \in Position
         /\ Watched(x, q).stake = x.stake /\ Watched(x, q).entry = x.entry
         /\ Watched(x, q).stop >= x.stop /\ (x.trailing => Watched(x, q).trailing)
         /\ (Watched(x, q).trailing => Watched(x, q).stop >= x.entry)
  <1>1. x.stop \in Nat /\ x.top \in Nat /\ x.entry \in Nat \ {0} /\ x.trailing \in BOOLEAN
    BY DEF Position
  <1>2. PICK top \in Nat : top = Larger(x.top, q)
    BY <1>1 DEF Larger
  <1>3. PICK starts \in BOOLEAN : starts = (~x.trailing /\ 100 * (q - x.entry) >= 3 * x.entry)
    OBVIOUS
  <1>4. PICK b \in Nat : b = Below(top)
    BY BelowIs
  <1>5. PICK raised \in Nat : raised = IF starts THEN Larger(x.stop, x.entry) ELSE x.stop
    BY <1>1 DEF Larger
  <1>6. PICK stop \in Nat : stop = IF x.trailing \/ starts THEN Larger(raised, b) ELSE raised
    BY <1>1 DEF Larger
  <1>7. PICK trailing \in BOOLEAN : trailing = (x.trailing \/ starts)
    OBVIOUS
  <1>8. Watched(x, q) = [x EXCEPT !.top = top, !.trailing = trailing, !.stop = stop]
    BY <1>2, <1>3, <1>4, <1>5, <1>6, <1>7 DEF Watched
  <1>9. /\ Watched(x, q) \in Position /\ Watched(x, q).stake = x.stake /\ Watched(x, q).entry = x.entry
        /\ Watched(x, q).stop = stop /\ Watched(x, q).trailing = trailing
    BY <1>8 DEF Position
  <1>10. raised >= x.stop /\ (starts => raised >= x.entry)
    BY <1>1, <1>5 DEF Larger
  <1>11. stop >= x.stop /\ (trailing => stop >= x.entry)
    BY <1>1, <1>6, <1>7, <1>10 DEF Larger
  <1> QED
    BY <1>7, <1>9, <1>11

LEMMA TickWatchesKeeps ==
  ASSUME Inv, NEW w \in Workers, TickWatches(w)
  PROVE  Inv'
  <1>1. w \in Processes /\ w # Loop
    BY Worker
  <1>2. PICK c : c = proc[w]
    OBVIOUS
  <1>3. c \in Process /\ ProcOK(c) /\ c.quote \in [Tokens -> Nat] /\ c.todo \in SUBSET Nat
    BY <1>1, <1>2, Fields
  <1>4. PICK i : i = Min(c.todo)
    OBVIOUS
  <1>5. c.pc = "walk" /\ c.todo # {} /\ UNCHANGED <<cash, open, sold, peak, flags, overlap, spent>>
    BY <1>2 DEF TickWatches
  <1>6. i \in c.todo
    BY <1>3, <1>4, <1>5, MinIs
  <1>7. i \in 1 .. spent.opens
    BY <1>3, <1>6 DEF ProcOK
  <1>8. pos \in [1 .. spent.opens -> Position] /\ pos[i] \in Position
    BY <1>7 DEF Inv, Types
  <1>9. PICK q : q = c.quote[pos[i].token]
    OBVIOUS
  <1>10. q \in Nat
    BY <1>3, <1>8, <1>9 DEF Position
  <1>11. PICK rest \in SUBSET Nat : rest = c.todo \ {i}
    BY <1>3
  <1>12. CASE q = 0
    <2>1. PICK r : r = [c EXCEPT !.todo = rest]
      OBVIOUS
    <2>2. Goes(w, r) /\ pos' = pos
      BY <1>2, <1>4, <1>9, <1>11, <1>12, <2>1 DEF TickWatches
    <2>3. r \in Process /\ r.todo = rest /\ r.pc = c.pc
      BY <1>3, <1>11, <2>1 DEF Process
    <2>4. ProcOK(r)
      BY <1>3, <1>5, <1>11, <2>3 DEF ProcOK, Closing, Buying
    <2>5. AloneOK(w, c) => AloneOK(w, r)
      BY <1>1, <1>5, <1>11, <2>3 DEF AloneOK, Pending, Closing
    <2>6. OnlyGoes(w, r)
      BY <1>5, <2>2 DEF OnlyGoes
    <2> QED
      BY <1>1, <1>2, <1>5, <2>3, <2>4, <2>5, <2>6, OnlyGoesKeeps
  <1>13. CASE q # 0
    <2>1. PICK x : x = Watched(pos[i], q)
      OBVIOUS
    <2>2. pos' = [pos EXCEPT ![i] = x]
      BY <1>2, <1>4, <1>9, <1>13, <2>1 DEF TickWatches
    <2>3. pos[i].trailing => pos[i].stop >= pos[i].entry
      BY <1>7 DEF Inv, Trails
    <2>4. /\ x \in Position /\ x.stake = pos[i].stake /\ x.entry = pos[i].entry
          /\ x.trailing => x.stop >= x.entry
      <3>1. /\ x \in Position /\ x.stake = pos[i].stake /\ x.entry = pos[i].entry
            /\ x.trailing => x.stop >= pos[i].entry
        BY <1>8, <1>10, <2>1, <2>3, WatchedIs
      <3> QED
        BY <3>1
    <2>5. PICK k \in {"close", "walk"} : k = IF q <= x.stop THEN "close" ELSE "walk"
      OBVIOUS
    <2>6. PICK r : r = IF k = "close" THEN [c EXCEPT !.pc = "close", !.id = i, !.todo = rest]
                       ELSE [c EXCEPT !.todo = rest]
      OBVIOUS
    <2>7. Goes(w, r)
      <3>1. pos'[i] = x
        BY <1>7, <1>8, <2>2
      <3>2. Goes(w, IF q <= pos'[i].stop THEN [c EXCEPT !.pc = "close", !.id = i, !.todo = rest]
                    ELSE [c EXCEPT !.todo = rest])
        BY <1>2, <1>4, <1>9, <1>11, <1>13 DEF TickWatches
      <3> QED
        BY <2>5, <2>6, <3>1, <3>2
    <2>8. /\ r \in Process /\ r.todo = rest
          /\ k = "close" => r.id = i
          /\ r.pc = k
      <3>1. CASE k = "close"
        <4>1. r = [c EXCEPT !.pc = "close", !.id = i, !.todo = rest] /\ i \in Nat
          BY <1>3, <1>6, <2>6, <3>1
        <4> QED
          BY <1>3, <1>11, <3>1, <4>1 DEF Process, Steps
      <3>2. CASE k = "walk"
        <4>1. r = [c EXCEPT !.todo = rest]
          BY <2>6, <3>2
        <4> QED
          BY <1>3, <1>5, <1>11, <3>2, <4>1 DEF Process
      <3> QED
        BY <3>1, <3>2
    <2>9. ProcOK(r)'
      BY <1>3, <1>5, <1>7, <1>11, <2>5, <2>8 DEF ProcOK, Closing, Buying
    <2>10. spent'.opens \in Nat /\ spent.opens <= spent'.opens
      BY <1>5, Numbers DEF Inv
    <2>11. proc' \in [Processes -> Process] /\ Procs'
      BY <1>1, <2>7, <2>8, <2>9, <2>10, ProcsKept
    <2>12. pos' \in [1 .. spent.opens -> Position] /\ DOMAIN pos' = DOMAIN pos
      BY <1>8, <2>2, <2>4
    <2>13. Types'
      BY <1>5, <2>11, <2>12 DEF Inv, Types
    <2>14. Log'
      BY <1>5 DEF Inv, Log
    <2>15. Trails'
      <3>1. ASSUME NEW j \in 1 .. spent.opens PROVE pos'[j].trailing => pos'[j].stop >= pos'[j].entry
        <4>1. CASE j = i
          BY <1>7, <1>8, <2>2, <2>4, <4>1
        <4>2. CASE j # i
          <5>1. pos'[j] = pos[j]
            BY <1>8, <2>2, <4>2
          <5> QED
            BY <5>1 DEF Inv, Trails
        <4> QED
          BY <4>1, <4>2
      <3> QED
        BY <1>5, <3>1 DEF Trails
    <2>16. ASSUME overlap = "none" PROVE LeavesOK(w, r)'
      <3>1. AloneOK(w, c) /\ cash >= 0 /\ (~flags.running => open = {})
        BY <1>1, <1>2, <1>5, <2>16, Fields
      <3>2. \A j \in 1 .. spent.opens : pos'[j].stake = pos[j].stake /\ pos'[j].entry = pos[j].entry
        BY <1>8, <2>2, <2>4
      <3>3. Balance(pos', sold) = Balance(pos, sold)
        <4>1. PICK R : R = pos'
          OBVIOUS
        <4>2. R \in [1 .. spent.opens -> Position] /\ BookOK(pos, sold, spent.opens)
          BY <2>12, <4>1, BookIs
        <4>3. \A j \in 1 .. spent.opens : R[j].stake = pos[j].stake /\ R[j].entry = pos[j].entry
          BY <3>2, <4>1
        <4>4. Balance(R, sold) = Balance(pos, sold)
          BY <4>2, <4>3, SameBalance
        <4> QED
          BY <4>1, <4>4
      <3>4. Balance(pos, sold)' = Balance(pos', sold)
        BY <1>5
      <3>5. Pending(c) = 0 /\ Pending(r)' = 0
        BY <1>5, <2>5, <2>8 DEF Pending
      <3>6. cash' = Balance(pos, sold)' + Pending(r)'
        BY <1>5, <3>1, <3>3, <3>4, <3>5 DEF AloneOK
      <3>7. AloneOK(w, r)'
        BY <1>1, <1>5, <1>6, <1>11, <2>5, <2>8, <3>1, <3>6 DEF AloneOK, Closing
      <3> QED
        BY <1>5, <2>5, <2>8, <3>1, <3>7 DEF LeavesOK
    <2>17. Solo'
      BY <1>1, <1>2, <1>5, <2>7, <2>8, <2>16, SoloKept
    <2> QED
      BY <2>11, <2>13, <2>14, <2>15, <2>17 DEF Inv
  <1> QED
    BY <1>12, <1>13

LEMMA TickDecidesKeeps ==
  ASSUME Inv, NEW w \in Workers, TickDecides(w)
  PROVE  Inv'
  <1>1. w \in Processes /\ w # Loop
    BY Worker
  <1>2. PICK c : c = proc[w]
    OBVIOUS
  <1>3. c \in Process /\ ProcOK(c) /\ c.quote \in [Tokens -> Nat]
    BY <1>1, <1>2, Fields
  <1>4. c.pc = "walk" /\ c.todo = {} /\ UNCHANGED <<cash, open, pos, sold, peak, flags, overlap, spent>>
    BY <1>2 DEF TickDecides, ledger
  <1>5. CASE Goes(w, [c EXCEPT !.pc = "end"])
    <2>1. PICK r : r = [c EXCEPT !.pc = "end"]
      OBVIOUS
    <2>2. r \in Process /\ r.todo = {} /\ r.pc = "end"
      BY <1>3, <1>4, <2>1 DEF Process, Steps
    <2>3. ProcOK(r)
      BY <2>2 DEF ProcOK, Closing, Buying
    <2>4. AloneOK(w, c) => AloneOK(w, r)
      BY <1>1, <1>4, <2>2 DEF AloneOK, Pending, Closing
    <2>5. OnlyGoes(w, r)
      BY <1>4, <1>5, <2>1 DEF OnlyGoes
    <2> QED
      BY <1>1, <1>2, <1>4, <2>2, <2>3, <2>4, <2>5, OnlyGoesKeeps
  <1>6. ASSUME NEW t \in Tokens, c.quote[t] > 0, Goes(w, [c EXCEPT !.pc = "size", !.token = t])
        PROVE  Inv'
    <2>1. PICK r : r = [c EXCEPT !.pc = "size", !.token = t]
      OBVIOUS
    <2>2. r \in Process /\ r.todo = {} /\ r.pc = "size" /\ r.token = t /\ r.quote = c.quote
      BY <1>3, <1>4, <2>1 DEF Process, Steps
    <2>3. ProcOK(r)
      BY <1>6, <2>2 DEF ProcOK, Closing, Buying
    <2>4. AloneOK(w, c) => AloneOK(w, r)
      BY <1>1, <1>4, <2>2 DEF AloneOK, Pending, Closing
    <2>5. OnlyGoes(w, r)
      BY <1>4, <1>6, <2>1 DEF OnlyGoes
    <2> QED
      BY <1>1, <1>2, <1>4, <2>2, <2>3, <2>4, <2>5, OnlyGoesKeeps
  <1>7. ASSUME NEW t \in Tokens, NEW i \in open, Goes(w, [c EXCEPT !.pc = "close", !.id = i, !.token = t])
        PROVE  Inv'
    <2>1. PICK r : r = [c EXCEPT !.pc = "close", !.id = i, !.token = t]
      OBVIOUS
    <2>2. i \in 1 .. spent.opens /\ i \in Nat
      BY DEF Inv, Types
    <2>3. r \in Process /\ r.todo = {} /\ r.pc = "close" /\ r.id = i
      BY <1>3, <1>4, <2>1, <2>2 DEF Process, Steps
    <2>4. ProcOK(r)
      BY <2>2, <2>3 DEF ProcOK, Closing, Buying
    <2>5. AloneOK(w, c) => AloneOK(w, r)
      BY <1>1, <1>4, <2>3 DEF AloneOK, Pending, Closing
    <2>6. OnlyGoes(w, r)
      BY <1>4, <1>7, <2>1 DEF OnlyGoes
    <2> QED
      BY <1>1, <1>2, <1>4, <2>3, <2>4, <2>5, <2>6, OnlyGoesKeeps
  <1> QED
    BY <1>2, <1>5, <1>6, <1>7 DEF TickDecides

LEMMA TickSizesKeeps ==
  ASSUME Inv, NEW w \in Workers, TickSizes(w)
  PROVE  Inv'
  <1>1. w \in Processes /\ w # Loop
    BY Worker
  <1>2. PICK c : c = proc[w]
    OBVIOUS
  <1>3. c \in Process /\ ProcOK(c)
    BY <1>1, <1>2, Fields
  <1>4. c.pc = "size" /\ UNCHANGED <<cash, open, pos, sold, peak, flags, overlap, spent>>
    BY <1>2 DEF TickSizes, ledger
  <1>5. PICK k \in Convictions :
          LET amount == Lesser(cash, (peak * k) \div 100) IN
          Goes(w, IF amount < MinOrder THEN [c EXCEPT !.pc = "end"]
                  ELSE [c EXCEPT !.pc = "order", !.amount = amount])
    BY <1>2 DEF TickSizes
  <1>6. k \in Nat /\ peak \in Nat /\ cash \in Int /\ MinOrder \in Nat
    BY ConsoleAssumption DEF Inv, Types
  <1>7. PICK share : share = (peak * k) \div 100
    OBVIOUS
  <1>8. share \in Int
    <2>1. PICK a : a = peak * k
      OBVIOUS
    <2>2. a \in Nat
      BY <1>6, <2>1
    <2>3. a \div 100 \in Nat
      BY <2>2
    <2> QED
      BY <1>7, <2>1, <2>3
  <1>9. PICK amount \in Int : amount = Lesser(cash, share) /\ amount <= cash
    BY <1>6, <1>8 DEF Lesser
  <1>10. Goes(w, IF amount < MinOrder THEN [c EXCEPT !.pc = "end"]
                 ELSE [c EXCEPT !.pc = "order", !.amount = amount])
    BY <1>5, <1>7, <1>9
  <1>11. CASE amount < MinOrder
    <2>1. PICK r : r = [c EXCEPT !.pc = "end"]
      OBVIOUS
    <2>2. r \in Process /\ r.todo = c.todo /\ r.pc = "end"
      BY <1>3, <2>1 DEF Process, Steps
    <2>3. ProcOK(r)
      BY <1>3, <2>2 DEF ProcOK, Closing, Buying
    <2>4. AloneOK(w, c) => AloneOK(w, r)
      BY <1>1, <1>4, <2>2 DEF AloneOK, Pending, Closing
    <2>5. OnlyGoes(w, r)
      BY <1>4, <1>10, <1>11, <2>1 DEF OnlyGoes
    <2> QED
      BY <1>1, <1>2, <1>4, <2>2, <2>3, <2>4, <2>5, OnlyGoesKeeps
  <1>12. CASE ~(amount < MinOrder)
    <2>1. PICK r : r = [c EXCEPT !.pc = "order", !.amount = amount]
      OBVIOUS
    <2>2. /\ r \in Process /\ r.todo = c.todo /\ r.pc = "order" /\ r.amount = amount
          /\ r.token = c.token /\ r.quote = c.quote
      BY <1>3, <2>1 DEF Process, Steps
    <2>3. amount >= 0
      BY <1>6, <1>12
    <2>4. ProcOK(r)
      BY <1>3, <1>4, <2>2, <2>3 DEF ProcOK, Closing, Buying
    <2>5. AloneOK(w, c) => AloneOK(w, r)
      BY <1>1, <1>4, <1>9, <2>2 DEF AloneOK, Pending, Closing
    <2>6. OnlyGoes(w, r)
      BY <1>4, <1>10, <1>12, <2>1 DEF OnlyGoes
    <2> QED
      BY <1>1, <1>2, <1>4, <2>2, <2>4, <2>5, <2>6, OnlyGoesKeeps
  <1> QED
    BY <1>11, <1>12

LEMMA TickReadsCashKeeps ==
  ASSUME Inv, NEW w \in Workers, TickReadsCash(w)
  PROVE  Inv'
  <1>1. w \in Processes /\ w # Loop
    BY Worker
  <1>2. PICK c : c = proc[w]
    OBVIOUS
  <1>3. c \in Process /\ ProcOK(c)
    BY <1>1, <1>2, Fields
  <1>4. PICK r, y : y = cash /\ r = [c EXCEPT !.pc = "debit", !.cash = y]
    OBVIOUS
  <1>5. c.pc = "order" /\ OnlyGoes(w, r)
    BY <1>2, <1>4 DEF TickReadsCash, OnlyGoes, ledger
  <1>6. y \in Int
    BY <1>4 DEF Inv, Types
  <1>7. /\ r \in Process /\ r.todo = c.todo /\ r.pc = "debit" /\ r.amount = c.amount /\ r.cash = y
        /\ r.token = c.token /\ r.quote = c.quote
    BY <1>3, <1>4, <1>6 DEF Process, Steps
  <1>8. ProcOK(r)
    BY <1>3, <1>5, <1>7 DEF ProcOK, Closing, Buying
  <1>9. AloneOK(w, c) => AloneOK(w, r)
    BY <1>1, <1>4, <1>5, <1>7 DEF AloneOK, Pending, Closing
  <1> QED
    BY <1>1, <1>2, <1>5, <1>7, <1>8, <1>9, OnlyGoesKeeps

LEMMA TickDebitsKeeps ==
  ASSUME Inv, NEW w \in Workers, TickDebits(w)
  PROVE  Inv'
  <1>1. w \in Processes /\ w # Loop
    BY Worker
  <1>2. PICK c : c = proc[w]
    OBVIOUS
  <1>3. c \in Process /\ ProcOK(c) /\ c.cash \in Int /\ c.amount \in Int
    BY <1>1, <1>2, Fields
  <1>4. PICK k \in Steps, y \in Int : k = "book" /\ y = 0
    BY DEF Steps
  <1>5. PICK r : r = Turn(c, k, y)
    OBVIOUS
  <1>6. /\ c.pc = "debit" /\ cash' = c.cash - c.amount /\ Goes(w, r)
        /\ UNCHANGED <<open, pos, sold, peak, flags, overlap, spent>>
    BY <1>2, <1>4, <1>5 DEF TickDebits, Debited, Turn
  <1>7. c \in Process
    BY <1>3
  <1>8. /\ r \in Process /\ r.pc = k /\ r.todo = c.todo /\ r.amount = c.amount
        /\ r.token = c.token /\ r.quote = c.quote
    BY <1>5, <1>7, Turns
  <1>9. ProcOK(r)'
    BY <1>3, <1>4, <1>6, <1>8 DEF ProcOK, Closing, Buying
  <1>10. Log' /\ Trails' /\ spent'.opens \in Nat /\ spent.opens <= spent'.opens
    BY <1>6, BookKept
  <1>11. proc' \in [Processes -> Process] /\ Procs'
    BY <1>1, <1>6, <1>8, <1>9, <1>10, ProcsKept
  <1>12. Types'
    <2>1. cash' \in Int
      BY <1>3, <1>6
    <2> QED
      BY <1>6, <1>11, <2>1 DEF Inv, Types
  <1>13. ASSUME overlap = "none" PROVE LeavesOK(w, r)'
    <2>1. AloneOK(w, c) /\ cash >= 0 /\ (~flags.running => open = {})
      BY <1>1, <1>2, <1>6, <1>13, Fields
    <2>2. c.cash = cash /\ c.amount <= cash /\ cash \in Int
      BY <1>6, <2>1 DEF AloneOK, Inv, Types
    <2>3. Pending(c) = 0 /\ Pending(r)' = 0 - c.amount
      BY <1>4, <1>6, <1>8 DEF Pending
    <2>4. Balance(pos, sold) \in Int /\ Balance(pos, sold)' = Balance(pos, sold)
      BY <1>6, BookIs, BookTypes
    <2>5. cash = Balance(pos, sold)
      BY <2>1, <2>3, <2>4 DEF AloneOK
    <2>6. cash' = Balance(pos, sold)' + Pending(r)' /\ cash' >= 0
      BY <1>3, <1>6, <2>2, <2>3, <2>4, <2>5
    <2>7. AloneOK(w, r)'
      BY <1>1, <1>4, <1>6, <1>8, <2>1, <2>6 DEF AloneOK, Closing
    <2> QED
      BY <1>4, <1>6, <1>8, <2>1, <2>6, <2>7 DEF LeavesOK
  <1>14. Solo'
    BY <1>1, <1>2, <1>6, <1>8, <1>13, SoloKept
  <1> QED
    BY <1>10, <1>11, <1>12, <1>14 DEF Inv

LEMMA TickBooksKeeps ==
  ASSUME Inv, NEW w \in Workers, TickBooks(w)
  PROVE  Inv'
  <1>1. w \in Processes /\ w # Loop
    BY Worker
  <1>2. PICK c : c = proc[w]
    OBVIOUS
  <1>3. c \in Process /\ ProcOK(c) /\ c.quote \in [Tokens -> Nat] /\ c.amount \in Int /\ c.pc = "book"
    BY <1>1, <1>2, Fields DEF TickBooks
  <1>4. PICK n, m : n = spent.opens /\ m = n + 1
    OBVIOUS
  <1>5. n \in Nat /\ m \in Nat /\ m = n + 1 /\ m \in 1 .. MaxOpens /\ MaxOpens \in Nat
    BY <1>4, Numbers DEF Inv, TickBooks, Ids
  <1>6. c.token \in Tokens /\ c.quote[c.token] > 0 /\ c.amount >= 0
    BY <1>3 DEF ProcOK, Buying
  <1>7. PICK q \in Nat \ {0} : q = c.quote[c.token]
    BY <1>3, <1>6
  <1>8. PICK x : x = [token |-> c.token, stake |-> c.amount, entry |-> q,
                      stop |-> Below(q), top |-> q, trailing |-> FALSE]
    OBVIOUS
  <1>9. x \in Position /\ x.stake = c.amount /\ x.trailing = FALSE
    <2>1. c.amount \in Nat /\ Below(q) \in Nat
      BY <1>3, <1>6, BelowIs
    <2> QED
      BY <1>6, <1>8, <2>1 DEF Position
  <1>10. PICK r : r = [c EXCEPT !.pc = "end"]
    OBVIOUS
  <1>11. /\ pos' = Booked(pos, x, m) /\ sold' = Unsold(sold, m)
         /\ open' = open \cup {m} /\ spent' = [spent EXCEPT !.opens = m] /\ Goes(w, r)
         /\ UNCHANGED <<cash, peak, flags, overlap>>
    BY <1>2, <1>4, <1>7, <1>8, <1>10 DEF TickBooks, Booked, Unsold
  <1>12. r \in Process /\ r.pc = "end" /\ r.todo = c.todo
    BY <1>3, <1>10 DEF Process, Steps
  <1>13. /\ spent'.opens = m
         /\ spent' \in [opens : 0 .. MaxOpens, ticks : 0 .. MaxTicks, buttons : 0 .. MaxButtons]
    <2>1. m \in 0 .. MaxOpens
      BY <1>5
    <2> QED
      BY <1>11, <2>1 DEF Inv, Types
  <1>14. 1 .. m = (1 .. n) \cup {m} /\ m \notin 1 .. n
    BY <1>5
  <1>15. /\ pos' \in [1 .. m -> Position] /\ sold' \in [1 .. m -> SUBSET Nat]
         /\ pos'[m] = x /\ sold'[m] = {}
         /\ \A j \in 1 .. n : pos'[j] = pos[j] /\ sold'[j] = sold[j]
    BY <1>4, <1>9, <1>11, <1>14 DEF Booked, Unsold, Inv, Types
  <1>16. open \subseteq 1 .. n /\ DOMAIN pos' = 1 .. m
    BY <1>4, <1>15 DEF Inv, Types
  <1>17. ProcOK(r)'
    BY <1>3, <1>4, <1>12, <1>13, <1>14 DEF ProcOK, Closing, Buying
  <1>18. proc' \in [Processes -> Process] /\ Procs'
    <2>1. spent'.opens \in Nat /\ spent.opens <= spent'.opens
      BY <1>4, <1>5, <1>13
    <2> QED
      BY <1>1, <1>11, <1>12, <1>17, <2>1, ProcsKept
  <1>19. Types'
    <2>1. open' \subseteq DOMAIN pos'
      BY <1>11, <1>14, <1>16
    <2> QED
      BY <1>11, <1>13, <1>15, <1>18, <2>1 DEF Inv, Types
  <1>20. Log'
    <2>1. ASSUME NEW i \in 1 .. m
          PROVE  IF i \in open' THEN sold'[i] = {} ELSE \E z \in Nat : sold'[i] = {z}
      <3>1. CASE i = m
        BY <1>11, <1>15, <3>1
      <3>2. CASE i # m
        <4>1. i \in 1 .. n /\ sold'[i] = sold[i] /\ (i \in open' <=> i \in open)
          BY <1>11, <1>14, <1>15, <3>2
        <4>2. IF i \in open THEN sold[i] = {} ELSE \E z \in Nat : sold[i] = {z}
          BY <1>4, <4>1 DEF Inv, Log
        <4> QED
          BY <4>1, <4>2
      <3> QED
        BY <3>1, <3>2
    <2> QED
      BY <1>13, <2>1 DEF Log
  <1>21. Trails'
    <2>1. ASSUME NEW i \in 1 .. m, pos'[i].trailing PROVE pos'[i].stop >= pos'[i].entry
      <3>1. i # m
        BY <1>9, <1>15, <2>1
      <3>2. i \in 1 .. n /\ pos'[i] = pos[i]
        BY <1>14, <1>15, <3>1
      <3> QED
        BY <1>4, <2>1, <3>2 DEF Inv, Trails
    <2> QED
      BY <1>13, <2>1 DEF Trails
  <1>22. ASSUME overlap = "none" PROVE LeavesOK(w, r)'
    <2>1. AloneOK(w, c) /\ cash >= 0 /\ (~flags.running => open = {})
      BY <1>1, <1>2, <1>3, <1>22, Fields
    <2>2. flags'.running
      BY <1>1, <1>11, <2>1 DEF AloneOK
    <2>3. Pending(c) = 0 - c.amount /\ Pending(r)' = 0
      BY <1>3, <1>12 DEF Pending
    <2>4. PICK R, Z : R = pos' /\ Z = sold'
      OBVIOUS
    <2>5. Balance(R, Z) = Balance(pos, sold) - x.stake
      <3>1. BookOK(pos, sold, n) /\ Follows(n, m) /\ R = Booked(pos, x, m) /\ Z = Unsold(sold, m)
        BY <1>4, <1>11, <2>4, BookIs DEF Follows
      <3>2. x \in Position
        BY <1>9
      <3> QED
        BY <3>1, <3>2, BoughtBalance
    <2>6. Balance(pos, sold)' = Balance(R, Z)
      BY <2>4
    <2>7. Balance(pos, sold) \in Int
      BY BookIs, BookTypes
    <2>8. cash' = Balance(pos, sold)' + Pending(r)'
      BY <1>3, <1>9, <1>11, <2>1, <2>3, <2>5, <2>6, <2>7 DEF AloneOK
    <2>9. AloneOK(w, r)'
      BY <1>1, <1>11, <1>12, <2>1, <2>2, <2>8 DEF AloneOK, Closing
    <2> QED
      BY <1>11, <1>12, <2>1, <2>2, <2>9 DEF LeavesOK
  <1>23. Solo'
    BY <1>1, <1>2, <1>3, <1>11, <1>12, <1>22, SoloKept
  <1> QED
    BY <1>18, <1>19, <1>20, <1>21, <1>23 DEF Inv

LEMMA ShownIs ==   \* what the wallet is worth is a number
  ASSUME Inv, NEW quote \in [Tokens -> Nat]
  PROVE  Equity(quote) \in Int /\ Shown(quote) \in Int
  <1>1. IsFiniteSet(open)
    <2>1. open \subseteq 1 .. spent.opens /\ IsFiniteSet(1 .. spent.opens)
      BY Numbers, FS_Interval DEF Inv, Types
    <2> QED
      BY <2>1, FS_Subset
  <1>2. PICK D : D = open
    OBVIOUS
  <1>3. ASSUME NEW i \in D
        PROVE  Worth(i, quote[pos[i].token]) \in Int /\ Worth(i, pos[i].entry) \in Int
    <2>1. pos[i] \in Position
      BY <1>2 DEF Inv, Types
    <2>2. quote[pos[i].token] \in Nat /\ pos[i].entry \in Nat
      BY <2>1 DEF Position
    <2> QED
      BY <2>1, <2>2, WorthIs DEF Worth, WorthOf
  <1>4. PICK f : f = [i \in D |-> Worth(i, quote[pos[i].token])]
    OBVIOUS
  <1>5. PICK g : g = [i \in D |-> Worth(i, IF quote[pos[i].token] = 0 THEN pos[i].entry
                                            ELSE quote[pos[i].token])]
    OBVIOUS
  <1>6. f \in [D -> Int]
    BY <1>3, <1>4
  <1>7. g \in [D -> Int]
    <2>1. ASSUME NEW i \in D
          PROVE  Worth(i, IF quote[pos[i].token] = 0 THEN pos[i].entry ELSE quote[pos[i].token]) \in Int
      <3>1. CASE quote[pos[i].token] = 0
        BY <1>3, <3>1
      <3>2. CASE quote[pos[i].token] # 0
        BY <1>3, <3>2
      <3> QED
        BY <3>1, <3>2
    <2> QED
      BY <1>5, <2>1
  <1>8. SumFunction(f) \in Int /\ SumFunction(g) \in Int
    BY <1>1, <1>2, <1>6, <1>7, SumAdd
  <1>9. Equity(quote) = cash + SumFunction(f) /\ Shown(quote) = cash + SumFunction(g)
    BY <1>2, <1>4, <1>5 DEF Equity, Shown
  <1> QED
    BY <1>8, <1>9 DEF Inv, Types

LEMMA TickEndsKeeps ==
  ASSUME Inv, NEW w \in Workers, TickEnds(w)
  PROVE  Inv'
  <1>1. w \in Processes /\ w # Loop
    BY Worker
  <1>2. PICK c : c = proc[w]
    OBVIOUS
  <1>3. c.quote \in [Tokens -> Nat] /\ c.pc = "end"
    BY <1>1, <1>2, Fields DEF TickEnds
  <1>4. PICK r : r = Rest
    OBVIOUS
  <1>5. r \in Process /\ r.pc = "rest" /\ r.todo = {}
    BY <1>4 DEF Rest, Process, Steps
  <1>6. Goes(w, r) /\ UNCHANGED <<cash, open, pos, sold, flags, overlap, spent>>
    BY <1>4 DEF TickEnds, ledger
  <1>7. peak' \in Nat
    <2>1. peak \in Nat /\ Equity(c.quote) \in Int /\ Shown(c.quote) \in Int
      BY <1>3, ShownIs DEF Inv, Types
    <2>2. peak' = Larger(peak, Larger(Equity(c.quote), Shown(c.quote)))
      BY <1>2 DEF TickEnds
    <2> QED
      BY <2>1, <2>2 DEF Larger
  <1>8. ProcOK(r)'
    BY <1>5 DEF ProcOK, Closing, Buying
  <1>9. Log' /\ Trails' /\ spent'.opens \in Nat /\ spent.opens <= spent'.opens
    BY <1>6, BookKept
  <1>10. proc' \in [Processes -> Process] /\ Procs'
    BY <1>1, <1>5, <1>6, <1>8, <1>9, ProcsKept
  <1>11. Types'
    BY <1>6, <1>7, <1>10 DEF Inv, Types
  <1>12. ASSUME overlap = "none" PROVE LeavesOK(w, r)'
    <2>1. AloneOK(w, c) /\ cash >= 0 /\ (~flags.running => open = {})
      BY <1>1, <1>2, <1>3, <1>12, Fields
    <2>2. Pending(c) = 0
      BY <1>3 DEF Pending
    <2>3. cash' = Balance(pos, sold)'
      <3>1. Balance(pos, sold) \in Int
        BY BookIs, BookTypes
      <3> QED
        BY <1>6, <2>1, <2>2, <3>1 DEF AloneOK
    <2> QED
      BY <1>5, <1>6, <2>1, <2>3 DEF LeavesOK
  <1>13. Solo'
    BY <1>1, <1>2, <1>3, <1>5, <1>6, <1>12, SoloKept
  <1> QED
    BY <1>9, <1>10, <1>11, <1>13 DEF Inv

-----------------------------------------------------------------------------
(* The buttons *)

LEMMA PressedIs ==
  ASSUME Inv, Pressed
  PROVE  Spent(spent') /\ spent'.opens = spent.opens /\ spent'.opens \in Nat
  <1>1. Spent(spent) /\ MaxButtons \in Nat /\ spent.opens \in Nat
    BY Numbers DEF Inv, Types, Spent
  <1>2. spent.buttons < MaxButtons /\ spent' = [spent EXCEPT !.buttons = @ + 1]
    BY DEF Pressed
  <1> QED
    BY <1>1, <1>2 DEF Spent

LEMMA IdleButtonKeeps ==   \* a button that moves no process and none of the ledger
  ASSUME Inv, Pressed, UNCHANGED <<cash, open, pos, sold, proc, overlap>>, peak' \in Nat,
         flags' \in [running : BOOLEAN, paused : BOOLEAN], flags.running => flags'.running
  PROVE  Inv'
  <1>1. Spent(spent') /\ spent'.opens = spent.opens
    BY PressedIs
  <1>2. Types'
    BY <1>1 DEF Inv, Types, Spent
  <1>3. Procs' /\ Log' /\ Trails'
    BY <1>1 DEF Inv, Procs, ProcOK, LoopOK, Log, Trails
  <1>4. Solo'
    <2>1. ASSUME NEW p \in Processes, AloneOK(p, proc[p]) PROVE AloneOK(p, proc[p])'
      BY <2>1 DEF AloneOK, Pending
    <2>2. (Idle => cash = Balance(pos, sold)) => (Idle => cash = Balance(pos, sold))'
      BY DEF Idle
    <2>3. Solo
      BY DEF Inv
    <2> QED
      BY <2>1, <2>2, <2>3 DEF Solo
  <1> QED
    BY <1>2, <1>3, <1>4 DEF Inv

LEMMA LiquidateKeeps ==
  ASSUME Inv, Liquidate
  PROVE  Inv'
  <1>1. PICK quote \in Markets :
          Goes(Loop, [Rest EXCEPT !.pc = "walk", !.quote = quote, !.todo = open])
    BY DEF Liquidate, Listed
  <1>2. PICK todo : todo = open
    OBVIOUS
  <1>3. PICK r : r = [Rest EXCEPT !.pc = "walk", !.quote = quote, !.todo = todo]
    OBVIOUS
  <1>4. r \in Process /\ r.pc = "walk" /\ r.todo = open /\ r.token = "none"
    BY <1>2, <1>3, Starting
  <1>5. Goes(Loop, r)
    BY <1>1, <1>2, <1>3
  <1>6. /\ Pressed /\ proc[Loop].pc = "rest" /\ Overlaps(Loop)
        /\ UNCHANGED <<cash, open, pos, sold, peak, flags>>
    BY DEF Liquidate, ledger
  <1>7. /\ spent'.opens = spent.opens
        /\ spent' \in [opens : 0 .. MaxOpens, ticks : 0 .. MaxTicks, buttons : 0 .. MaxButtons]
    BY <1>6, PressedIs DEF Spent
  <1>8. Loop \in Processes
    BY DEF Processes
  <1> QED
    BY <1>4, <1>5, <1>6, <1>7, <1>8, BeginsKeeps

LEMMA LiquidateNextKeeps ==
  ASSUME Inv, LiquidateNext
  PROVE  Inv'
  <1>1. Loop \in Processes
    BY DEF Processes
  <1>2. PICK c : c = proc[Loop]
    OBVIOUS
  <1>3. c \in Process /\ ProcOK(c) /\ LoopOK(c) /\ c.todo \in SUBSET Nat
    BY <1>1, <1>2, Fields
  <1>4. PICK i : i = Min(c.todo)
    OBVIOUS
  <1>5. c.pc = "walk" /\ c.todo # {}
    BY <1>2 DEF LiquidateNext
  <1>6. i \in c.todo /\ i \in Nat
    BY <1>3, <1>4, <1>5, MinIs
  <1>7. PICK rest \in SUBSET Nat : rest = c.todo \ {i}
    BY <1>3
  <1>8. PICK r : r = [c EXCEPT !.pc = "close", !.id = i, !.todo = rest]
    OBVIOUS
  <1>9. OnlyGoes(Loop, r)
    BY <1>2, <1>4, <1>7, <1>8 DEF LiquidateNext, OnlyGoes, ledger
  <1>10. r \in Process /\ r.pc = "close" /\ r.id = i /\ r.todo = rest /\ r.token = c.token
    BY <1>3, <1>6, <1>7, <1>8 DEF Process, Steps
  <1>11. ProcOK(r) /\ LoopOK(r)
    BY <1>3, <1>6, <1>7, <1>10 DEF ProcOK, LoopOK, Closing, Buying
  <1>12. AloneOK(Loop, c) => AloneOK(Loop, r)
    BY <1>5, <1>6, <1>7, <1>10 DEF AloneOK, Pending, Closing
  <1> QED
    BY <1>1, <1>2, <1>5, <1>9, <1>10, <1>11, <1>12, OnlyGoesKeeps

LEMMA LiquidateStopsKeeps ==
  ASSUME Inv, LiquidateStops
  PROVE  Inv'
  <1>1. Loop \in Processes
    BY DEF Processes
  <1>2. PICK c : c = proc[Loop]
    OBVIOUS
  <1>3. c.pc = "walk" /\ c.todo = {} /\ flags' = [running |-> FALSE, paused |-> TRUE]
    BY <1>2 DEF LiquidateStops
  <1>4. PICK r : r = Rest
    OBVIOUS
  <1>5. r \in Process /\ r.pc = "rest" /\ r.todo = {} /\ r.token = "none"
    BY <1>4 DEF Rest, Process, Steps
  <1>6. Goes(Loop, r) /\ UNCHANGED <<cash, open, pos, sold, peak, overlap, spent>>
    BY <1>4 DEF LiquidateStops, ledger
  <1>7. ProcOK(r)' /\ LoopOK(r)
    BY <1>5 DEF ProcOK, LoopOK, Closing, Buying
  <1>8. Log' /\ Trails' /\ spent'.opens \in Nat /\ spent.opens <= spent'.opens
    BY <1>6, BookKept
  <1>9. proc' \in [Processes -> Process] /\ Procs'
    BY <1>1, <1>5, <1>6, <1>7, <1>8, ProcsKept
  <1>10. Types'
    BY <1>3, <1>6, <1>9 DEF Inv, Types
  <1>11. ASSUME overlap = "none" PROVE LeavesOK(Loop, r)'
    <2>1. AloneOK(Loop, c) /\ cash >= 0
      BY <1>1, <1>2, <1>3, <1>11, Fields
    <2>2. Pending(c) = 0
      BY <1>3 DEF Pending
    <2>3. cash' = Balance(pos, sold)'
      <3>1. Balance(pos, sold) \in Int
        BY BookIs, BookTypes
      <3> QED
        BY <1>6, <2>1, <2>2, <3>1 DEF AloneOK
    <2>4. open' = {}
      BY <1>3, <1>6, <2>1 DEF AloneOK, Closing
    <2> QED
      BY <1>5, <1>6, <2>1, <2>3, <2>4 DEF LeavesOK
  <1>12. Solo'
    BY <1>1, <1>2, <1>3, <1>5, <1>6, <1>11, SoloKept
  <1> QED
    BY <1>8, <1>9, <1>10, <1>12 DEF Inv

LEMMA ButtonsKeep ==
  ASSUME Inv, Buttons
  PROVE  Inv'
  <1>1. CASE Start
    <2>1. Pressed /\ flags' = [running |-> TRUE, paused |-> FALSE] /\ peak' = peak
          /\ UNCHANGED <<cash, open, pos, sold, proc, overlap>>
      BY <1>1 DEF Start, ledger
    <2> QED
      BY <2>1, IdleButtonKeeps DEF Inv, Types
  <1>2. CASE Pause
    <2>1. Pressed /\ flags' = [flags EXCEPT !.paused = ~@] /\ peak' = peak
          /\ UNCHANGED <<cash, open, pos, sold, proc, overlap>>
      BY <1>2 DEF Pause, ledger
    <2>2. flags' \in [running : BOOLEAN, paused : BOOLEAN] /\ flags'.running = flags.running
      BY <2>1 DEF Inv, Types
    <2> QED
      BY <2>1, <2>2, IdleButtonKeeps DEF Inv, Types
  <1>3. CASE Snapshot
    <2>1. PICK quote \in Markets : peak' = Larger(peak, Shown(quote))
      BY <1>3 DEF Snapshot
    <2>2. quote \in [Tokens -> Nat]
      BY ConsoleAssumption
    <2>3. peak \in Nat /\ Shown(quote) \in Int
      BY <2>2, ShownIs DEF Inv, Types
    <2>4. peak' \in Nat
      BY <2>1, <2>3 DEF Larger
    <2>5. Pressed /\ UNCHANGED <<cash, open, pos, sold, flags, proc, overlap>>
      BY <1>3 DEF Snapshot, ledger
    <2> QED
      BY <2>4, <2>5, IdleButtonKeeps DEF Inv, Types
  <1> QED
    BY <1>1, <1>2, <1>3, LiquidateKeeps, LiquidateNextKeeps, LiquidateStopsKeeps DEF Buttons

-----------------------------------------------------------------------------
(* Every step *)

LEMMA StutterKeeps ==
  ASSUME Inv, UNCHANGED vars
  PROVE  Inv'
  BY DEF vars, ledger, Inv, Types, Procs, ProcOK, LoopOK, Log, Trails, Solo, AloneOK, Pending, Idle

LEMMA StepKeeps == Inv /\ [Next]_vars => Inv'
  <1> SUFFICES ASSUME Inv, [Next]_vars PROVE Inv'
    OBVIOUS
  <1>1. ASSUME NEW p \in Processes, Works(p) PROVE Inv'
    BY <1>1, CloseReadsKeeps, CloseCreditsKeeps, CloseRemovesKeeps DEF Works
  <1>2. ASSUME NEW w \in Workers, TickGoesOn(w) PROVE Inv'
    BY <1>2, TickWatchesKeeps, TickDecidesKeeps, TickSizesKeeps, TickReadsCashKeeps,
       TickDebitsKeeps, TickBooksKeeps, TickEndsKeeps DEF TickGoesOn
  <1> QED
    BY <1>1, <1>2, TickBeginsKeeps, ButtonsKeep, StutterKeeps DEF Next

LEMMA Always == Spec => []Inv
  BY Begins, StepKeeps, PTL DEF Spec

-----------------------------------------------------------------------------
(* The theorems *)

\* The shapes of demo._empty and of what tick and console_action make of it, for any tokens,
\* markets, number of workers and length of the run.
THEOREM Typed == Spec => []TypeOK
  <1>1. Inv => TypeOK
    <2> SUFFICES ASSUME Inv PROVE TypeOK
      OBVIOUS
    <2>1. DOMAIN pos = 1 .. spent.opens
      BY DEF Inv, Types
    <2>2. \A i \in DOMAIN pos : pos[i] \in Position
      BY DEF Inv, Types
    <2>3. DOMAIN proc = Processes /\ \A p \in Processes : proc[p].todo \subseteq DOMAIN pos
      BY <2>1 DEF Inv, Types, Procs, ProcOK
    <2> QED
      BY <2>1, <2>2, <2>3 DEF Inv, Types, TypeOK, Position
  <1> QED
    BY <1>1, Always, PTL

\* Whatever cycles and buttons overlap, demo._close logs each position once at most, and the open
\* ones are exactly those it has not logged.
THEOREM EachIsSoldOnce == Spec => []LogMatchesBook
  <1>1. Inv => LogMatchesBook
    <2> SUFFICES ASSUME Inv, NEW i \in DOMAIN pos
        PROVE  Cardinality(sold[i]) = IF i \in open THEN 0 ELSE 1
      BY DEF LogMatchesBook
    <2>1. IF i \in open THEN sold[i] = {} ELSE \E q \in Nat : sold[i] = {q}
      BY DEF Inv, Types, Log
    <2> QED
      BY <2>1, FS_EmptySet, FS_Singleton
  <1> QED
    BY <1>1, Always, PTL

\* As long as nothing overlaps, the cash between two requests is what the trade log of demo.tick
\* and demo._close accounts for, and never negative.
THEOREM CashIsAccountedFor == Spec => []LedgerExact
  <1>1. Inv => LedgerExact
    <2> SUFFICES ASSUME Inv, overlap = "none", Idle
        PROVE  /\ cash >= 0
               /\ cash = StartCash
                         - SumFunction([i \in DOMAIN pos |-> pos[i].stake])
                         + SumFunction([i \in DOMAIN pos |-> SumFunction([q \in sold[i] |-> Worth(i, q)])])
      BY DEF LedgerExact
    <2>1. cash >= 0 /\ cash = Balance(pos, sold)
      BY DEF Inv, Solo
    <2>2. \A i \in DOMAIN pos : [q \in sold[i] |-> WorthOf(pos[i], q)] = [q \in sold[i] |-> Worth(i, q)]
      BY DEF Worth, WorthOf
    <2>3. [i \in DOMAIN pos |-> SumFunction([q \in sold[i] |-> WorthOf(pos[i], q)])]
          = [i \in DOMAIN pos |-> SumFunction([q \in sold[i] |-> Worth(i, q)])]
      BY <2>2
    <2> QED
      BY <2>1, <2>3 DEF Balance, Stakes, Brought
  <1> QED
    BY <1>1, Always, PTL

\* As long as nothing overlaps, an agent that the panic or withdraw of console_action stopped
\* holds nothing until it is started again.
THEOREM StoppedIsFlat == Spec => []StoppedHoldsNothing
  <1>1. Inv => StoppedHoldsNothing
    BY DEF Inv, Solo, StoppedHoldsNothing
  <1> QED
    BY <1>1, Always, PTL

-----------------------------------------------------------------------------
(* The stops *)

\* What a step may do to an open position.
Tightens(i) ==
  /\ pos'[i].stop >= pos[i].stop
  /\ pos[i].trailing => pos'[i].trailing
  /\ pos'[i].trailing => pos'[i].stop >= pos[i].entry

LEMMA SamePosition ==
  ASSUME Inv, NEW i \in open, pos'[i] = pos[i]
  PROVE  Tightens(i)
  <1>1. i \in 1 .. spent.opens
    BY DEF Inv, Types
  <1>2. pos[i] \in Position /\ (pos[i].trailing => pos[i].stop >= pos[i].entry)
    BY <1>1 DEF Inv, Types, Trails
  <1>3. pos[i].stop \in Nat
    BY <1>2 DEF Position
  <1> QED
    BY <1>2, <1>3 DEF Tightens

LEMMA VisitTightens ==
  ASSUME Inv, NEW w \in Workers, TickWatches(w), NEW j \in open
  PROVE  Tightens(j)
  <1>1. w \in Processes
    BY Worker
  <1>2. PICK c : c = proc[w]
    OBVIOUS
  <1>3. ProcOK(c) /\ c.quote \in [Tokens -> Nat] /\ c.todo \in SUBSET Nat
    BY <1>1, <1>2, Fields
  <1>4. PICK i : i = Min(c.todo)
    OBVIOUS
  <1>5. i \in 1 .. spent.opens
    BY <1>2, <1>3, <1>4, MinIs DEF TickWatches, ProcOK
  <1>6. pos \in [1 .. spent.opens -> Position] /\ pos[i] \in Position
    BY <1>5 DEF Inv, Types
  <1>7. PICK q : q = c.quote[pos[i].token]
    OBVIOUS
  <1>8. q \in Nat
    BY <1>3, <1>6, <1>7 DEF Position
  <1>9. CASE q = 0
    BY <1>2, <1>4, <1>7, <1>9, SamePosition DEF TickWatches
  <1>10. CASE q # 0
    <2>1. pos' = [pos EXCEPT ![i] = Watched(pos[i], q)]
      BY <1>2, <1>4, <1>7, <1>10 DEF TickWatches
    <2>2. CASE j = i
      <3>1. pos[i].trailing => pos[i].stop >= pos[i].entry
        BY <1>5 DEF Inv, Trails
      <3>2. pos'[i] = Watched(pos[i], q)
        BY <1>5, <1>6, <2>1
      <3> QED
        BY <1>6, <1>8, <2>2, <3>1, <3>2, WatchedIs DEF Tightens
    <2>3. CASE j # i
      <3>1. pos'[j] = pos[j]
        BY <1>6, <2>1, <2>3
      <3> QED
        BY <3>1, SamePosition
    <2> QED
      BY <2>2, <2>3
  <1> QED
    BY <1>9, <1>10

LEMMA StepTightens ==
  ASSUME Inv, [Next]_vars, NEW i \in open
  PROVE  Tightens(i)
  <1>1. ASSUME pos' = pos PROVE Tightens(i)
    BY <1>1, SamePosition
  <1>2. ASSUME NEW p \in Processes, Works(p) PROVE pos' = pos
    BY <1>2 DEF Works, CloseReads, CloseCredits, CloseRemoves, ledger
  <1>3. ASSUME NEW w \in Workers, TickBooks(w) PROVE Tightens(i)
    <2>1. i \in 1 .. spent.opens /\ spent.opens \in Nat
      BY Numbers DEF Inv, Types
    <2>2. i \in 1 .. spent.opens + 1 /\ i # spent.opens + 1
      BY <2>1
    <2>3. pos'[i] = pos[i]
      BY <1>3, <2>2 DEF TickBooks
    <2> QED
      BY <2>3, SamePosition
  <1>4. ASSUME NEW w \in Workers, TickBegins(w) \/ TickGoesOn(w), ~TickWatches(w), ~TickBooks(w)
        PROVE  pos' = pos
    BY <1>4 DEF TickBegins, TickGoesOn, TickDecides, TickSizes, TickReadsCash, TickDebits, TickEnds, ledger
  <1>5. ASSUME Buttons PROVE pos' = pos
    BY <1>5 DEF Buttons, Start, Pause, Liquidate, LiquidateNext, LiquidateStops, Snapshot, ledger
  <1>6. ASSUME UNCHANGED vars PROVE pos' = pos
    BY <1>6 DEF vars, ledger
  <1> QED
    BY <1>1, <1>2, <1>3, <1>4, <1>5, <1>6, VisitTightens DEF Next

\* As long as no two cycles overlap, the asymmetric exit of demo.tick never loosens a stop nor
\* turns a trailing off, and keeps a position that trails at its entry or above.
THEOREM StopsTighten == Spec => StopOnlyTightens
  <1>1. Inv /\ [Next]_vars =>
          [overlap' # "ticks" =>
             \A i \in open \cap open' :
               /\ pos'[i].stop >= pos[i].stop
               /\ pos[i].trailing => pos'[i].trailing
               /\ pos'[i].trailing => pos'[i].stop >= pos[i].entry]_vars
    BY StepTightens DEF Tightens
  <1> QED
    BY <1>1, Always, PTL DEF Spec, StopOnlyTightens
=============================================================================
