---------------------------- MODULE Agent_proofs ----------------------------
(***************************************************************************)
(* Theorems about Agent, for every value of its constants: its types, the  *)
(* trade mutex and the scan that stops with the agent; that it implements  *)
(* Killswitch; and what its book keeps to as long as nobody else buys.     *)
(***************************************************************************)
EXTENDS Agent, FiniteSetTheorems, TLAPS

(***************************************************************************)
(* The types alone are not inductive: a booked purchase takes its symbol   *)
(* from the task's cur, which Ref lets be None.  Where cur is used as a    *)
(* position, or its symbol as a token, it is one.                          *)
(***************************************************************************)
TokenPC == BuyingPC \cup SellPC
Good(r) ==
  /\ r \in Task
  /\ r.pc \in TokenPC \cup ReconcilePC \cup {"tick"} => r.cur.sym \in Symbols
  /\ r.pc \in ReconcilePC \cup {"tick"} => r.cur \in Position

GoodThreads == \A th \in detached : th.kind \in LockedPC => th.sym \in Symbols

TypeInv ==
  /\ TypeOK
  /\ \A t \in Tasks : Good(task[t])
  /\ GoodThreads

-----------------------------------------------------------------------------
(* Local states *)

GoodTasks == task \in [Tasks -> Task] /\ \A t \in Tasks : Good(task[t])

LEMMA SetKeeps ==
  ASSUME GoodTasks, NEW t \in Tasks, NEW r, Good(r), Set(t, r)
  PROVE  GoodTasks'
  BY DEF GoodTasks, Good, Set

LEMMA FreshTyped ==
  ASSUME NEW l \in PCs, NEW c \in OwnerCommands \cup {"none"}
  PROVE  /\ [Fresh EXCEPT !.pc = l, !.cmd = c] \in Task
         /\ Parked(l) \in Task
         /\ Parked(l).pc = l
         /\ Command(c) \in Task
  <1>1. NoRef \in Ref
    BY AgentAssumption DEF NoRef, Ref
  <1>2. Fresh \in Task
    BY <1>1 DEF Task, Fresh, PCs, HandlerPC, Results
  <1> QED
    BY <1>2 DEF Task, Parked, Command

\* A resting task owns no position.
LEMMA ParkedGood ==
  ASSUME NEW l \in PCs, l \notin TokenPC \cup ReconcilePC \cup {"tick"}
  PROVE  Good(Parked(l))
  BY FreshTyped DEF Good, OwnerCommands

LEMMA RestingGood == \A t \in Tasks : Good(Resting(t))
  BY ParkedGood DEF Resting, PCs, HandlerPC, TokenPC, BuyingPC, SellPC, ReconcilePC

\* What an action may change of a good local state.
LEMMA Updates ==
  ASSUME NEW r, Good(r), NEW l \in PCs,
         l \in TokenPC \cup ReconcilePC \cup {"tick"} => r.pc \in TokenPC \cup ReconcilePC \cup {"tick"},
         l \in ReconcilePC \cup {"tick"} => r.pc \in ReconcilePC \cup {"tick"},
         NEW x \in Results
  PROVE  /\ Good([r EXCEPT !.pc = l])
         /\ Good([r EXCEPT !.res = x])
         /\ Good([r EXCEPT !.pc = l, !.res = x])
         /\ \A b \in BOOLEAN : Good([r EXCEPT !.pc = l, !.retried = b])
         /\ \A s \in SUBSET Symbols : Good([r EXCEPT !.pc = l, !.read = s])
         /\ \A s \in SUBSET Symbols : Good([r EXCEPT !.pc = l, !.read = s, !.res = x])
  BY DEF Good, Task

-----------------------------------------------------------------------------
(* Buying *)

LEMMA TakeLockKeeps ==
  ASSUME TypeInv, NEW t \in Tasks, NEW r, Good(r), TakeLock(t, r)
  PROVE  /\ GoodTasks'
         /\ lock' \in Tasks \cup {None}
         /\ wedged' \in BOOLEAN
  BY SetKeeps DEF TypeInv, TypeOK, TakeLock, GoodTasks, Good

LEMMA OpenBeginsKeeps ==
  ASSUME TypeInv, NEW t \in Tasks, NEW s \in Symbols, OpenBegins(t, s)
  PROVE  /\ GoodTasks'
         /\ lock' \in Tasks \cup {None}
         /\ wedged' \in BOOLEAN
  <1> DEFINE r == [task[t] EXCEPT !.pc = "buySwap", !.cur = Ticket(s), !.res = "none",
                                  !.retried = FALSE, !.cands = @ \ {s}]
  <1>1. Good(task[t])
    BY DEF TypeInv
  <1>2. Ticket(s) \in Ref /\ Ticket(s).sym = s
    BY AgentAssumption DEF Ticket, Ref
  <1>3. Good(r)
    BY <1>1, <1>2 DEF Good, Task, PCs, ScanPC, BuyingPC, ReconcilePC, Results
  <1> QED
    BY <1>3, TakeLockKeeps DEF OpenBegins

\* A purchase books a position, and then the task rests.
LEMMA OpenedKeeps ==
  ASSUME TypeInv, NEW t \in Tasks, task[t].pc \in BuyingPC, Opened(t)
  PROVE  /\ GoodTasks'
         /\ positions' \subseteq Position
         /\ nextId' \in 1 .. MaxIds + 1
         /\ state' \in AgentStates
         /\ recentBuys' \in Nat
         /\ cooling' \in BOOLEAN
  <1>1. task[t].cur.sym \in Symbols
    BY DEF TypeInv, Good, TokenPC
  <1>2. nextId \in 1 .. MaxIds /\ nextId + 1 \in 1 .. MaxIds + 1
    BY AgentAssumption DEF TypeInv, TypeOK, Opened
  <1>3. positions' \subseteq Position
    BY <1>1, <1>2 DEF TypeInv, TypeOK, Opened, Position
  <1>4. GoodTasks'
    BY RestingGood, SetKeeps DEF TypeInv, TypeOK, GoodTasks, Opened
  <1> QED
    BY <1>2, <1>3, <1>4 DEF TypeInv, TypeOK, Opened, AgentStates

LEMMA OpenFailedKeeps ==
  ASSUME TypeInv, NEW t \in Tasks, OpenFailed(t)
  PROVE  GoodTasks'
  <1>1. Good(Parked("validate"))
    BY ParkedGood DEF PCs, ScanPC, HandlerPC, TokenPC, BuyingPC, SellPC, ReconcilePC
  <1>2. Good([Parked("validate") EXCEPT !.cands = task[t].cands])
    BY <1>1 DEF TypeInv, Good, Task, TypeOK
  <1> QED
    BY <1>2, RestingGood, SetKeeps DEF TypeInv, TypeOK, GoodTasks, OpenFailed

LEMMA BuySwapReturnsType ==
  ASSUME TypeInv, NEW t \in Tasks, BuySwapReturns(t)
  PROVE  TypeInv'
  <1> USE DEF TypeInv, TypeOK, GoodTasks
  <1>1. task[t].pc \in BuyingPC
    BY DEF BuySwapReturns, At, BuyingPC
  <1>2. Good([task[t] EXCEPT !.pc = "buyWait", !.retried = TRUE])
    BY <1>1, Updates DEF PCs, ScanPC, BuyingPC, TokenPC, ReconcilePC, Results
  <1>3. Good([task[t] EXCEPT !.pc = "buyPx"])
    BY <1>1, Updates DEF PCs, ScanPC, BuyingPC, TokenPC, ReconcilePC, Results
  <1>4. /\ GoodTasks'
        /\ positions' \subseteq Position
        /\ nextId' \in 1 .. MaxIds + 1
        /\ state' \in AgentStates
        /\ recentBuys' \in Nat
        /\ cooling' \in BOOLEAN
    <2>1. CASE Opened(t)
      BY <1>1, <2>1, OpenedKeeps
    <2>2. CASE OpenFailed(t) /\ UNCHANGED <<state, book, risk>>
      BY <2>2, OpenFailedKeeps DEF book, risk
    <2>3. CASE Set(t, [task[t] EXCEPT !.pc = "buyWait", !.retried = TRUE])
               /\ UNCHANGED <<state, book, risk>>
      BY <1>2, <2>3, SetKeeps DEF book, risk
    <2>4. CASE Set(t, Resting(t)) /\ UNCHANGED <<state, book, risk>>
      BY <2>4, RestingGood, SetKeeps DEF book, risk
    <2>5. CASE Set(t, [task[t] EXCEPT !.pc = "buyPx"]) /\ UNCHANGED <<state, book, risk>>
      BY <1>3, <2>5, SetKeeps DEF book, risk
    <2> QED
      BY <2>1, <2>2, <2>3, <2>4, <2>5 DEF BuySwapReturns
  <1> QED
    BY <1>4 DEF BuySwapReturns, owner, GoodThreads

LEMMA BuyRetriesType ==
  ASSUME TypeInv, NEW t \in Tasks, BuyRetries(t)
  PROVE  TypeInv'
  <1>1. Good([task[t] EXCEPT !.pc = "buySwap", !.res = "none"])
    BY Updates DEF BuyRetries, At, TypeInv, PCs, ScanPC, BuyingPC, TokenPC, ReconcilePC, Results
  <1>2. GoodTasks' /\ lock' \in Tasks \cup {None} /\ wedged' \in BOOLEAN
    BY <1>1, TakeLockKeeps DEF BuyRetries
  <1> QED
    BY <1>2 DEF BuyRetries, TypeInv, TypeOK, GoodTasks, GoodThreads, book, risk, owner

LEMMA BuyPriceReturnsType ==
  ASSUME TypeInv, NEW t \in Tasks, BuyPriceReturns(t)
  PROVE  TypeInv'
  <1>1. CASE Opened(t)
    BY <1>1, OpenedKeeps
       DEF BuyPriceReturns, At, BuyingPC, TypeInv, TypeOK, GoodTasks, GoodThreads, owner
  <1>2. CASE Set(t, Resting(t)) /\ UNCHANGED <<state, book, risk>>
    BY <1>2, RestingGood, SetKeeps
       DEF BuyPriceReturns, TypeInv, TypeOK, GoodTasks, GoodThreads, book, risk, owner
  <1> QED
    BY <1>1, <1>2 DEF BuyPriceReturns

-----------------------------------------------------------------------------
(* Swap threads *)

LEMMA LandingTyped ==
  ASSUME TypeOK, NEW k \in SwapPC, NEW s, k \in LockedPC => s \in Symbols,
         NEW out \in SwapOutcomes, NEW w \in Landing(k, s, out)
  PROVE  w \subseteq Symbols
  BY DEF TypeOK, Landing, Moved, SwapPC, LockedPC, SwapOutcomes

LEMMA SwapLandsType ==
  ASSUME TypeInv, NEW t \in Tasks, SwapLands(t)
  PROVE  TypeInv'
  <1>1. PICK out \in Outcomes : \E w \in Landing(task[t].pc, task[t].cur.sym, out) :
               wallet' = w /\ Set(t, [task[t] EXCEPT !.res = out])
    BY DEF SwapLands
  <1>2. out \in SwapOutcomes /\ out \in Results
    BY AgentAssumption DEF Results
  <1>3. Good(task[t]) /\ task[t].pc \in SwapPC
    BY DEF TypeInv, SwapLands, InFlight
  <1>4. task[t].pc \in LockedPC => task[t].cur.sym \in Symbols
    BY <1>3 DEF Good, LockedPC, TokenPC, BuyingPC, SellPC
  <1>5. wallet' \subseteq Symbols
    BY <1>1, <1>2, <1>3, <1>4, LandingTyped DEF TypeInv
  <1>6. Good([task[t] EXCEPT !.res = out])
    BY <1>2, <1>3 DEF Good, Task
  <1>7. GoodTasks'
    BY <1>1, <1>6, SetKeeps DEF TypeInv, TypeOK, GoodTasks
  <1> QED
    BY <1>5, <1>7 DEF SwapLands, TypeInv, TypeOK, GoodTasks, GoodThreads, book, risk, owner

LEMMA DetachedLandsType ==
  ASSUME TypeInv, DetachedLands
  PROVE  TypeInv'
  <1>1. PICK th \in detached, out \in Outcomes : \E w \in Landing(th.kind, th.sym, out) :
               wallet' = w /\ detached' = detached \ {th}
    BY DEF DetachedLands
  <1>2. th.kind \in SwapPC /\ (th.kind \in LockedPC => th.sym \in Symbols)
    BY DEF TypeInv, TypeOK, Thread, GoodThreads
  <1>3. wallet' \subseteq Symbols
    BY <1>1, <1>2, LandingTyped, AgentAssumption DEF TypeInv
  <1> QED
    BY <1>1, <1>3 DEF DetachedLands, TypeInv, TypeOK, GoodTasks, GoodThreads, book, risk, owner

-----------------------------------------------------------------------------
(* Selling *)

LEMMA SellingGood ==
  ASSUME NEW r \in Task, NEW p \in Position, NEW S \in SUBSET Position
  PROVE  Good(Selling(r, p, S))
  <1>1. p \in Ref /\ p.sym \in Symbols
    BY DEF Position, Ref
  <1> QED
    BY <1>1 DEF Selling, Good, Task, PCs, SellPC, Results, TokenPC, BuyingPC, ReconcilePC

LEMMA TickGood ==
  ASSUME NEW p \in Position, NEW S \in SUBSET Position
  PROVE  Good([Parked("tick") EXCEPT !.cur = p, !.todo = S])
  <1>1. p \in Ref /\ p.sym \in Symbols
    BY DEF Position, Ref
  <1>2. Parked("tick") \in Task
    BY FreshTyped DEF PCs, OwnerCommands
  <1> QED
    BY <1>1, <1>2 DEF Good, Task, TokenPC, BuyingPC, SellPC, ReconcilePC, PCs

LEMMA SellBalanceType ==
  ASSUME TypeInv, NEW t \in Tasks, SellBalance(t)
  PROVE  TypeInv'
  <1>1. PICK r \in {wallet \cap {task[t].cur.sym}, {task[t].cur.sym}} :
               Set(t, [task[t] EXCEPT !.pc = "sellDec", !.read = r])
    BY DEF SellBalance
  <1>2. Good(task[t]) /\ task[t].pc \in TokenPC
    BY DEF TypeInv, SellBalance, At, TokenPC, SellPC
  <1>3. r \in SUBSET Symbols
    BY <1>1, <1>2 DEF Good
  <1>4. Good([task[t] EXCEPT !.pc = "sellDec", !.read = r])
    BY <1>2, <1>3, Updates DEF PCs, SellPC, TokenPC, BuyingPC, ReconcilePC, Results
  <1>5. GoodTasks'
    BY <1>1, <1>4, SetKeeps DEF TypeInv, TypeOK, GoodTasks
  <1> QED
    BY <1>5 DEF SellBalance, TypeInv, TypeOK, GoodTasks, GoodThreads, book, risk, owner

LEMMA SellGoesType ==
  ASSUME TypeInv, NEW t \in Tasks, SellGoes(t)
  PROVE  TypeInv'
  <1>1. Good(task[t]) /\ task[t].pc \in TokenPC
    BY DEF TypeInv, SellGoes, At, TokenPC, SellPC
  <1>2. Good([task[t] EXCEPT !.pc = "sellSwap", !.read = {}])
    BY <1>1, Updates DEF PCs, SellPC, TokenPC, BuyingPC, ReconcilePC, Results
  <1>3. Good([task[t] EXCEPT !.pc = "sellOut", !.read = {}, !.res = "dust"])
    BY <1>1, Updates DEF PCs, SellPC, TokenPC, BuyingPC, ReconcilePC, Results
  <1>4. CASE task[t].cur.sym \in task[t].read
    <2>1. GoodTasks' /\ lock' \in Tasks \cup {None} /\ wedged' \in BOOLEAN
      BY <1>2, <1>4, TakeLockKeeps DEF SellGoes
    <2> QED
      BY <1>4, <2>1 DEF SellGoes, TypeInv, TypeOK, GoodTasks, GoodThreads, risk, owner
  <1>5. CASE task[t].cur.sym \notin task[t].read
    <2>1. GoodTasks'
      BY <1>3, <1>5, SetKeeps DEF SellGoes, TypeInv, TypeOK, GoodTasks
    <2> QED
      BY <1>5, <2>1 DEF SellGoes, TypeInv, TypeOK, GoodTasks, GoodThreads, risk, owner
  <1> QED
    BY <1>4, <1>5

LEMMA SellSwapReturnsType ==
  ASSUME TypeInv, NEW t \in Tasks, SellSwapReturns(t)
  PROVE  TypeInv'
  <1>1. Good(task[t]) /\ task[t].pc \in TokenPC
    BY DEF TypeInv, SellSwapReturns, At, TokenPC, SellPC
  <1>2. Good([task[t] EXCEPT !.pc = "sellWait", !.retried = TRUE])
    BY <1>1, Updates DEF PCs, SellPC, TokenPC, BuyingPC, ReconcilePC, Results
  <1>3. Good([task[t] EXCEPT !.pc = "sellOut", !.res = "fail"])
    BY <1>1, Updates DEF PCs, SellPC, TokenPC, BuyingPC, ReconcilePC, Results, SwapOutcomes
  <1>4. Good([task[t] EXCEPT !.pc = "sellOut"])
    BY <1>1, Updates DEF PCs, SellPC, TokenPC, BuyingPC, ReconcilePC, Results
  <1>5. GoodTasks' /\ positions' \subseteq Position /\ cooling' \in BOOLEAN
    BY <1>2, <1>3, <1>4, RestingGood, SetKeeps DEF SellSwapReturns, TypeInv, TypeOK, GoodTasks
  <1> QED
    BY <1>5 DEF SellSwapReturns, TypeInv, TypeOK, GoodTasks, GoodThreads, owner

LEMMA SellRetriesType ==
  ASSUME TypeInv, NEW t \in Tasks, SellRetries(t)
  PROVE  TypeInv'
  <1>1. Good([task[t] EXCEPT !.pc = "sellSwap", !.res = "none"])
    BY Updates DEF SellRetries, At, TypeInv, PCs, SellPC, TokenPC, BuyingPC, ReconcilePC, Results
  <1>2. GoodTasks' /\ lock' \in Tasks \cup {None} /\ wedged' \in BOOLEAN
    BY <1>1, TakeLockKeeps DEF SellRetries
  <1> QED
    BY <1>2 DEF SellRetries, TypeInv, TypeOK, GoodTasks, GoodThreads, book, risk, owner

-----------------------------------------------------------------------------
(* Reconciling *)

LEMMA WalkAtGood ==
  ASSUME NEW r \in Task, NEW S \in SUBSET Position, NEW i \in Nat, NEW q \in WalkAt(r, S, i)
  PROVE  Good(q)
  <1>1. CASE i < Cardinality(S)
    <2>1. PICK p \in S : q = [r EXCEPT !.pc = "recBal", !.idx = i, !.cur = p, !.read = {}]
      BY <1>1 DEF WalkAt
    <2>2. p \in Position /\ p \in Ref /\ p.sym \in Symbols
      BY DEF Position, Ref
    <2> QED
      BY <2>1, <2>2 DEF Good, Task, PCs, ScanPC, ReconcilePC
  <1>2. CASE ~(i < Cardinality(S))
    <2>1. q = [r EXCEPT !.pc = "impRead", !.idx = 0, !.cur = NoRef, !.live = FALSE,
                        !.view = {}, !.kept = {}, !.gone = FALSE, !.read = {}]
      BY <1>2 DEF WalkAt
    <2>2. NoRef \in Ref
      BY AgentAssumption DEF NoRef, Ref
    <2> QED
      BY <2>1, <2>2 DEF Good, Task, PCs, ScanPC, ReconcilePC, TokenPC, BuyingPC, SellPC
  <1> QED
    BY <1>1, <1>2

LEMMA ReconcilingGood ==
  ASSUME TypeOK, NEW r \in Task, NEW q \in Reconciling(r)
  PROVE  Good(q)
  <1>1. [r EXCEPT !.live = TRUE] \in Task
    BY DEF Task
  <1> QED
    BY <1>1, WalkAtGood DEF Reconciling, TypeOK

\* Rebinding the list replaces the one local state and re-targets the other walkers.
LEMMA RebindKeeps ==
  ASSUME TypeInv, NEW t \in Tasks, NEW r, Good(r), NEW k, Rebind(t, r, k)
  PROVE  GoodTasks'
  <1>1. \A u \in Tasks : Good([task[u] EXCEPT !.live = FALSE, !.view = positions])
    BY DEF TypeInv, TypeOK, Good, Task
  <1>2. \A u \in Tasks : task'[u] \in {r, [task[u] EXCEPT !.live = FALSE, !.view = positions],
                                       task[u]}
    BY DEF Rebind
  <1>3. \A u \in Tasks : Good(task'[u])
    BY <1>1, <1>2 DEF TypeInv
  <1>4. task' \in [Tasks -> Task]
    BY <1>3 DEF Rebind, Good
  <1> QED
    BY <1>3, <1>4 DEF GoodTasks

LEMMA WalkOnKeeps ==
  ASSUME TypeInv, NEW t \in Tasks, task[t].pc \in ReconcilePC,
         NEW k \in SUBSET Position, NEW g \in BOOLEAN, WalkOn(t, k, g)
  PROVE  GoodTasks' /\ positions' \subseteq Position
  <1> DEFINE q == [task[t] EXCEPT !.kept = k, !.gone = g]
  <1>1. q \in Task /\ Walked(t) \in SUBSET Position /\ task[t].idx + 1 \in Nat
    <2>1. task[t] \in Task /\ positions \in SUBSET Position
      BY DEF TypeInv, TypeOK
    <2>2. task[t].idx \in Nat /\ task[t].view \in SUBSET Position
      BY <2>1 DEF Task
    <2>3. q \in Task
      BY <2>1 DEF Task
    <2> QED
      BY <2>1, <2>2, <2>3 DEF Walked
  <1>2. PICK r \in WalkAt(q, Walked(t), task[t].idx + 1) :
          IF r.pc = "impRead" /\ g THEN Rebind(t, r, k) ELSE Set(t, r) /\ UNCHANGED positions
    BY DEF WalkOn
  <1>3. Good(r)
    BY <1>1, WalkAtGood
  <1>4. CASE r.pc = "impRead" /\ g
    BY <1>2, <1>3, <1>4, RebindKeeps DEF Rebind
  <1>5. CASE ~(r.pc = "impRead" /\ g)
    BY <1>2, <1>3, <1>5, SetKeeps DEF TypeInv, TypeOK, GoodTasks
  <1> QED
    BY <1>4, <1>5

LEMMA ReconcileBalanceType ==
  ASSUME TypeInv, NEW t \in Tasks, ReconcileBalance(t)
  PROVE  TypeInv'
  <1>1. Good(task[t]) /\ task[t].pc \in ReconcilePC
    BY DEF TypeInv, ReconcileBalance, At, ReconcilePC
  <1>2. task[t].kept \cup {task[t].cur} \in SUBSET Position /\ task[t].gone \in BOOLEAN
    BY <1>1 DEF Good, Task
  <1>3. Good([task[t] EXCEPT !.pc = "recPx", !.read = wallet \cap {task[t].cur.sym}])
    <2>1. wallet \cap {task[t].cur.sym} \in SUBSET Symbols
      BY DEF TypeInv, TypeOK
    <2> QED
      BY <1>1, <2>1, Updates DEF PCs, ScanPC, ReconcilePC, TokenPC, BuyingPC, SellPC, Results
  <1>4. GoodTasks' /\ positions' \subseteq Position
    BY <1>1, <1>2, <1>3, SetKeeps, WalkOnKeeps DEF ReconcileBalance, TypeInv, TypeOK, GoodTasks
  <1> QED
    BY <1>4 DEF ReconcileBalance, TypeInv, TypeOK, GoodTasks, GoodThreads, risk, owner

LEMMA ReconcilePriceType ==
  ASSUME TypeInv, NEW t \in Tasks, ReconcilePrice(t)
  PROVE  TypeInv'
  <1>1. Good(task[t]) /\ task[t].pc \in ReconcilePC
    BY DEF TypeInv, ReconcilePrice, At, ReconcilePC
  <1>2. /\ task[t].kept \cup {task[t].cur} \in SUBSET Position
        /\ task[t].kept \in SUBSET Position
        /\ task[t].gone \in BOOLEAN
    BY <1>1 DEF Good, Task
  <1>3. GoodTasks' /\ positions' \subseteq Position
    BY <1>1, <1>2, WalkOnKeeps DEF ReconcilePrice
  <1> QED
    BY <1>3 DEF ReconcilePrice, TypeInv, TypeOK, GoodTasks, GoodThreads, risk, owner

LEMMA ImportReadsType ==
  ASSUME TypeInv, NEW t \in Tasks, ImportReads(t)
  PROVE  TypeInv'
  <1>1. PICK priced \in SUBSET wallet :
               Set(t, [task[t] EXCEPT !.pc = "impGot", !.read = priced])
    BY DEF ImportReads
  <1>2. Good([task[t] EXCEPT !.pc = "impGot", !.read = priced])
    BY Updates DEF TypeInv, TypeOK, PCs, ScanPC, ReconcilePC, TokenPC, BuyingPC, SellPC, Results
  <1>3. GoodTasks'
    BY <1>1, <1>2, SetKeeps DEF TypeInv, TypeOK, GoodTasks
  <1> QED
    BY <1>3 DEF ImportReads, TypeInv, TypeOK, GoodTasks, GoodThreads, book, risk, owner

LEMMA ImportAppliesType ==
  ASSUME TypeInv, NEW t \in Tasks, ImportApplies(t)
  PROVE  TypeInv'
  <1>1. Good([task[t] EXCEPT !.pc = "recDone", !.read = {}])
    BY Updates DEF TypeInv, TypeOK, PCs, ScanPC, ReconcilePC, TokenPC, BuyingPC, SellPC, Results
  <1>2. GoodTasks'
    BY <1>1, SetKeeps DEF ImportApplies, TypeInv, TypeOK, GoodTasks
  <1>3. Imported(t) \subseteq Symbols
    BY DEF Imported, TypeInv, TypeOK, Task
  <1>4. /\ positions' \subseteq Position
        /\ nextId' \in 1 .. MaxIds + 1
        /\ state' \in AgentStates
    <2>1. PICK n \in nextId .. MaxIds + 1, id \in [Imported(t) -> nextId .. MaxIds] :
            /\ positions' = positions \cup {[sym |-> s, id |-> id[s]] : s \in Imported(t)}
            /\ nextId' = n
      BY DEF ImportApplies
    <2>2. nextId \in 1 .. MaxIds + 1 /\ MaxIds \in Nat
      BY AgentAssumption DEF TypeInv, TypeOK
    <2>3. \A s \in Imported(t) : [sym |-> s, id |-> id[s]] \in Position
      BY <1>3, <2>1, <2>2 DEF Position
    <2> QED
      BY <2>1, <2>2, <2>3 DEF ImportApplies, TypeInv, TypeOK, AgentStates
  <1> QED
    BY <1>2, <1>4 DEF ImportApplies, TypeInv, TypeOK, GoodTasks, GoodThreads, risk, owner

-----------------------------------------------------------------------------
(* The loops *)

\* An action that only moves one task, from a good local state to a good one.
LEMMA MoveType ==
  ASSUME TypeInv, NEW t \in Tasks, NEW r, Good(r), Set(t, r),
         UNCHANGED <<state, halted, book, wallet, lock, wedged, detached, risk, owner>>
  PROVE  TypeInv'
  <1>1. GoodTasks'
    BY SetKeeps DEF TypeInv, TypeOK, GoodTasks
  <1> QED
    BY <1>1 DEF TypeInv, TypeOK, GoodTasks, GoodThreads, book, risk, owner

LEMMA RestPCs ==
  \A l \in {"dead", "top", "idle", "boot", "equity", "hbSwap", "market", "brain", "validate"} :
    Good(Parked(l))
  BY ParkedGood DEF PCs, ScanPC, HandlerPC, TokenPC, BuyingPC, SellPC, ReconcilePC

\* _start_loops and _cancel_loops park both loops and detach their swap threads.
LEMMA ReplaceLoopsKeeps ==
  ASSUME TypeInv, NEW l \in {"top", "dead"}, NEW tasks, \A t \in Handlers : Good(tasks[t]),
         ReplaceLoops(l, tasks)
  PROVE  GoodTasks' /\ lock' \in Tasks \cup {None} /\ detached' \subseteq Thread /\ GoodThreads'
  <1>1. \A t \in Tasks : task'[t] \in {Parked(l), tasks[t]} /\ (t \in Loops => task'[t] = Parked(l))
    BY DEF ReplaceLoops
  <1>2. \A t \in Tasks : Good(task'[t])
    BY <1>1, RestPCs DEF Tasks
  <1>3. GoodTasks'
    BY <1>2 DEF ReplaceLoops, GoodTasks, Good
  <1>4. \A t \in Tasks : InFlight(t) =>
          /\ [kind |-> task[t].pc, sym |-> task[t].cur.sym] \in Thread
          /\ task[t].pc \in LockedPC => task[t].cur.sym \in Symbols
    <2> TAKE t \in Tasks
    <2> HAVE InFlight(t)
    <2>1. Good(task[t])
      BY DEF TypeInv
    <2> QED
      BY <2>1 DEF InFlight, Thread, Good, Task, Ref, LockedPC, TokenPC, BuyingPC, SellPC
  <1>5. Loops \subseteq Tasks
    BY DEF Tasks
  <1>6. detached' \subseteq Thread /\ GoodThreads'
    BY <1>4, <1>5 DEF ReplaceLoops, TypeInv, TypeOK, GoodThreads
  <1> QED
    BY <1>3, <1>6 DEF ReplaceLoops, TypeInv, TypeOK

LEMMA ScanMovesType ==
  ASSUME TypeInv, ScanWakes \/ ScanEquity \/ ScanHeartbeat \/ ScanAnalyses \/ ScanGate \/ ScanPicks
  PROVE  TypeInv'
  <1>1. "scan" \in Tasks /\ task["scan"] \in Task
    BY DEF Tasks, Loops, TypeInv, TypeOK
  <1>2. CASE ScanWakes
    BY <1>1, <1>2, RestPCs, MoveType DEF ScanWakes
  <1>3. CASE ScanEquity
    <2>1. CASE Set("scan", Parked("top"))
      BY <1>1, <1>3, <2>1, RestPCs, MoveType DEF ScanEquity
    <2>2. CASE \E r \in Reconciling(task["scan"]) : Set("scan", r)
      BY <1>1, <1>3, <2>2, ReconcilingGood, MoveType DEF ScanEquity, TypeInv
    <2> QED
      BY <1>3, <2>1, <2>2 DEF ScanEquity
  <1>4. CASE ScanHeartbeat
    BY <1>1, <1>4, RestPCs, MoveType DEF ScanHeartbeat
  <1>5. CASE ScanAnalyses
    BY <1>1, <1>5, RestPCs, MoveType DEF ScanAnalyses
  <1>6. CASE ScanGate
    <2>1. Set("scan", Parked("top")) \/ Set("scan", Parked("brain"))
      BY <1>6 DEF ScanGate
    <2> QED
      BY <1>1, <1>6, <2>1, RestPCs, MoveType DEF ScanGate
  <1>7. CASE ScanPicks
    <2>1. PICK c \in SUBSET (Symbols \ Held) :
            Set("scan", IF c = {} THEN Parked("top") ELSE [Parked("validate") EXCEPT !.cands = c])
      BY <1>7 DEF ScanPicks
    <2>2. Good([Parked("validate") EXCEPT !.cands = c])
      BY RestPCs DEF Good, Task
    <2> QED
      BY <1>1, <1>7, <2>1, <2>2, RestPCs, MoveType DEF ScanPicks
  <1> QED
    BY <1>2, <1>3, <1>4, <1>5, <1>6, <1>7

LEMMA ScanOthersType ==
  ASSUME TypeInv, ScanPanics \/ ScanAnomaly \/ HeartbeatReturns \/ ScanValidates
  PROVE  TypeInv'
  <1>1. "scan" \in Tasks /\ task["scan"] \in Task /\ Good(task["scan"])
    BY DEF Tasks, Loops, TypeInv, TypeOK
  <1>2. CASE ScanPanics
    <2>1. \A t \in Handlers : Good(task[t])
      BY DEF TypeInv, Tasks
    <2>2. GoodTasks' /\ lock' \in Tasks \cup {None} /\ detached' \subseteq Thread /\ GoodThreads'
      BY <1>2, <2>1, ReplaceLoopsKeeps DEF ScanPanics, CancelLoops
    <2> QED
      BY <1>2, <2>2 DEF ScanPanics, TypeInv, TypeOK, GoodTasks, book, risk, owner, AgentStates
  <1>3. CASE ScanAnomaly
    <2>1. GoodTasks'
      BY <1>1, <1>3, RestPCs, SetKeeps DEF ScanAnomaly, TypeInv, TypeOK, GoodTasks
    <2> QED
      BY <1>3, <2>1
         DEF ScanAnomaly, TypeInv, TypeOK, GoodTasks, GoodThreads, book, risk, owner, AgentStates
  <1>4. CASE HeartbeatReturns
    <2>1. GoodTasks'
      BY <1>1, <1>4, RestPCs, SetKeeps DEF HeartbeatReturns, TypeInv, TypeOK, GoodTasks
    <2> QED
      BY <1>4, <2>1 DEF HeartbeatReturns, TypeInv, TypeOK, GoodTasks, GoodThreads, book, owner
  <1>5. CASE ScanValidates
    <2>1. PICK s \in task["scan"].cands :
            \/ /\ Set("scan", IF task["scan"].cands \ {s} = {} THEN Parked("top")
                              ELSE [Parked("validate") EXCEPT !.cands = task["scan"].cands \ {s}])
               /\ UNCHANGED <<lock, wedged, pending>>
            \/ /\ pending' = IF pending = None THEN s ELSE pending
               /\ Set("scan", Parked("top"))
               /\ UNCHANGED <<lock, wedged>>
            \/ OpenBegins("scan", s) /\ UNCHANGED pending
      BY <1>5 DEF ScanValidates
    <2>2. s \in Symbols
      BY <1>1 DEF Task
    <2>3. Good([Parked("validate") EXCEPT !.cands = task["scan"].cands \ {s}])
      BY <1>1, RestPCs DEF Good, Task
    <2>4. GoodTasks' /\ lock' \in Tasks \cup {None} /\ wedged' \in BOOLEAN
                     /\ pending' \in Symbols \cup {None}
      BY <1>1, <2>1, <2>2, <2>3, RestPCs, SetKeeps, OpenBeginsKeeps
         DEF TypeInv, TypeOK, GoodTasks
    <2> QED
      BY <1>5, <2>4 DEF ScanValidates, TypeInv, TypeOK, GoodTasks, GoodThreads, book, risk
  <1> QED
    BY <1>2, <1>3, <1>4, <1>5

LEMMA EmptiedTyped == TypeOK => Emptied \in AgentStates
  BY DEF TypeOK, Emptied, AgentStates

LEMMA CheckNextKeeps ==
  ASSUME TypeInv, NEW S \in SUBSET Position, CheckNext(S)
  PROVE  GoodTasks' /\ state' \in AgentStates
  <1>1. "monitor" \in Tasks
    BY DEF Tasks, Loops
  <1>2. CASE S = {}
    BY <1>1, <1>2, RestPCs, SetKeeps, EmptiedTyped DEF CheckNext, TypeInv, TypeOK, GoodTasks
  <1>3. CASE S # {}
    <2>1. PICK p \in S : Set("monitor", [Parked("tick") EXCEPT !.cur = p, !.todo = S \ {p}])
      BY <1>3 DEF CheckNext, Oldest
    <2>2. Good([Parked("tick") EXCEPT !.cur = p, !.todo = S \ {p}])
      BY TickGood
    <2> QED
      BY <1>1, <1>3, <2>1, <2>2, SetKeeps DEF CheckNext, TypeInv, TypeOK, GoodTasks
  <1> QED
    BY <1>2, <1>3

LEMMA MonitorType ==
  ASSUME TypeInv, MonitorWakes \/ MonitorTick \/ MonitorSold
  PROVE  TypeInv'
  <1>1. "monitor" \in Tasks /\ task["monitor"] \in Task /\ Good(task["monitor"])
    BY DEF Tasks, Loops, TypeInv, TypeOK
  <1>2. task["monitor"].todo \in SUBSET Position
    BY <1>1 DEF Task
  <1>3. GoodTasks' /\ state' \in AgentStates
    <2>1. CASE MonitorWakes
      BY <1>1, <2>1, RestPCs, SetKeeps, CheckNextKeeps DEF MonitorWakes, TypeInv, TypeOK, GoodTasks
    <2>2. CASE MonitorTick
      <3>1. task["monitor"].cur \in Position
        BY <1>1, <2>2 DEF MonitorTick, At, Good
      <3>2. Good(Selling(task["monitor"], task["monitor"].cur, task["monitor"].todo))
        BY <1>1, <1>2, <3>1, SellingGood
      <3> QED
        BY <1>1, <1>2, <2>2, <3>2, SetKeeps, CheckNextKeeps
           DEF MonitorTick, TypeInv, TypeOK, GoodTasks
    <2>3. CASE MonitorSold
      <3>1. CASE task["monitor"].todo = {}
        BY <1>1, <2>3, <3>1, RestPCs, SetKeeps, EmptiedTyped
           DEF MonitorSold, TypeInv, TypeOK, GoodTasks
      <3>2. CASE task["monitor"].todo # {}
        <4> DEFINE S == task["monitor"].todo
        <4>1. PICK p \in S : Set("monitor", [Parked("tick") EXCEPT !.cur = p, !.todo = S \ {p}])
          BY <2>3, <3>2 DEF MonitorSold, Oldest
        <4>2. Good([Parked("tick") EXCEPT !.cur = p, !.todo = S \ {p}])
          BY <1>2, TickGood
        <4>3. state' \in AgentStates
          BY <2>3, EmptiedTyped DEF MonitorSold, TypeInv, TypeOK
        <4> QED
          BY <1>1, <4>1, <4>2, <4>3, SetKeeps DEF TypeInv, TypeOK, GoodTasks
      <3> QED
        BY <3>1, <3>2
    <2> QED
      BY <2>1, <2>2, <2>3
  <1> QED
    BY <1>3 DEF MonitorWakes, MonitorTick, MonitorSold, TypeInv, TypeOK, GoodTasks, GoodThreads,
                book, risk, owner

-----------------------------------------------------------------------------
(* The handlers *)

LEMMA OwnerTask == TypeInv => "owner" \in Tasks /\ task["owner"] \in Task /\ Good(task["owner"])
  BY DEF Tasks, Handlers, TypeInv, TypeOK

\* The first local state of a command.
LEMMA CommandGood ==
  ASSUME NEW c \in OwnerCommands \cup {"none"},
         NEW l \in {"idle", "rsEquity", "panicOut", "transfer", "fbEquity", "fbValidate", "announce"},
         NEW S \in SUBSET Symbols
  PROVE  /\ Command(c) \in Task
         /\ Good([Command(c) EXCEPT !.pc = l])
         /\ Good([Command(c) EXCEPT !.pc = l, !.cands = S])
         /\ [Command(c) EXCEPT !.cands = S] \in Task
  <1>1. Command(c) \in Task
    BY FreshTyped DEF PCs
  <1> QED
    BY <1>1 DEF Good, Task, PCs, HandlerPC, TokenPC, BuyingPC, SellPC, ReconcilePC

LEMMA FreshGood == Good(Fresh)
  BY RestPCs DEF Parked, Good, Task, Fresh

LEMMA SellFirstKeeps ==
  ASSUME TypeInv, NEW r \in Task, NEW S \in SUBSET Position, NEW q, Good(q),
         SellFirst("owner", r, S, Set("owner", q))
  PROVE  GoodTasks'
  <1>1. CASE S = {}
    BY <1>1, OwnerTask, SetKeeps DEF SellFirst, TypeInv, TypeOK, GoodTasks
  <1>2. CASE S # {}
    <2>1. PICK p \in S : Set("owner", Selling(r, p, S \ {p}))
      BY <1>2 DEF SellFirst, Oldest
    <2>2. Good(Selling(r, p, S \ {p}))
      BY SellingGood
    <2> QED
      BY <2>1, <2>2, OwnerTask, SetKeeps DEF TypeInv, TypeOK, GoodTasks
  <1> QED
    BY <1>1, <1>2

LEMMA SellNextKeeps ==
  ASSUME TypeInv, NEW r \in Task, NEW S \in SUBSET Position, SellNext("owner", r, S)
  PROVE  GoodTasks'
  <1>1. CASE S = {}
    BY <1>1, OwnerTask, FreshGood, SetKeeps DEF SellNext, TypeInv, TypeOK, GoodTasks
  <1>2. CASE S # {}
    <2>1. PICK p \in S :
            \/ \E x \in positions : Set("owner", Selling(r, x, S \ {p}))
            \/ Set("owner", [r EXCEPT !.pc = "sellNext", !.todo = S \ {p}])
      BY <1>2 DEF SellNext, Oldest
    <2>2. \A x \in positions : Good(Selling(r, x, S \ {p}))
      BY SellingGood DEF TypeInv, TypeOK
    <2>3. Good([r EXCEPT !.pc = "sellNext", !.todo = S \ {p}])
      BY DEF Good, Task, PCs, HandlerPC, TokenPC, BuyingPC, SellPC, ReconcilePC
    <2> QED
      BY <2>1, <2>2, <2>3, OwnerTask, SetKeeps DEF TypeInv, TypeOK, GoodTasks
  <1> QED
    BY <1>1, <1>2

LEMMA OwnerSalesType ==
  ASSUME TypeInv, OwnerSold \/ SellSkips \/ PanicLiquidates \/ Withdraw \/ SellAll \/ Sell
  PROVE  TypeInv'
  <1>1. task["owner"] \in Task /\ task["owner"].todo \in SUBSET Position
    BY OwnerTask DEF Task
  <1>2. positions \in SUBSET Position
    BY DEF TypeInv, TypeOK
  <1>3. /\ Good([Command("withdraw") EXCEPT !.pc = "transfer"])
        /\ Good([Fresh EXCEPT !.pc = "transfer", !.cmd = "withdraw"])
        /\ \A c \in OwnerCommands : Command(c) \in Task
    <2>1. [Fresh EXCEPT !.pc = "transfer", !.cmd = "withdraw"] \in Task
      BY FreshGood DEF Good, Task, PCs, HandlerPC, OwnerCommands
    <2>2. Good([Fresh EXCEPT !.pc = "transfer", !.cmd = "withdraw"])
      BY <2>1 DEF Good, Task, TokenPC, BuyingPC, SellPC, ReconcilePC
    <2>3. Good([Command("withdraw") EXCEPT !.pc = "transfer"])
      BY CommandGood DEF OwnerCommands
    <2>4. \A c \in OwnerCommands : Command(c) \in Task
      BY FreshTyped DEF PCs
    <2> QED
      BY <2>2, <2>3, <2>4
  <1>4. GoodTasks'
    <2>1. CASE OwnerSold
      BY <1>1, <1>3, <2>1, OwnerTask, FreshGood, SetKeeps, SellNextKeeps, SellFirstKeeps
         DEF OwnerSold, TypeInv, TypeOK, GoodTasks
    <2>2. CASE SellSkips
      BY <1>1, <2>2, SellNextKeeps DEF SellSkips
    <2>3. CASE PanicLiquidates
      BY <1>1, <1>2, <2>3, FreshGood, SellFirstKeeps DEF PanicLiquidates
    <2>4. CASE Withdraw
      BY <1>2, <1>3, <2>4, SellFirstKeeps DEF Withdraw, OwnerCommands
    <2>5. CASE SellAll
      BY <1>2, <1>3, <2>5, SellNextKeeps DEF SellAll, OwnerCommands
    <2>6. CASE Sell
      <3>1. PICK p \in positions : Set("owner", Selling(Command("sell"), p, {}))
        BY <2>6 DEF Sell, Oldest
      <3>2. Good(Selling(Command("sell"), p, {}))
        BY <1>2, <1>3, SellingGood DEF OwnerCommands
      <3> QED
        BY <3>1, <3>2, OwnerTask, SetKeeps DEF TypeInv, TypeOK, GoodTasks
    <2> QED
      BY <2>1, <2>2, <2>3, <2>4, <2>5, <2>6
  <1>5. state' \in AgentStates /\ halted' \in BOOLEAN
    BY EmptiedTyped
       DEF TypeInv, TypeOK, OwnerSold, SellSkips, PanicLiquidates, Withdraw, SellAll, Sell
  <1> QED
    BY <1>4, <1>5 DEF TypeInv, TypeOK, GoodTasks, GoodThreads, book, risk, owner,
                      OwnerSold, SellSkips, PanicLiquidates, Withdraw, SellAll, Sell

LEMMA StartingType ==
  ASSUME TypeInv, Start \/ BootResumes \/ RestartReads \/ Buy
  PROVE  TypeInv'
  <1>1. "owner" \in Tasks /\ "boot" \in Tasks /\ task["owner"] \in Task
    BY OwnerTask DEF Tasks, Handlers
  <1>2. \A c \in OwnerCommands : \A S \in SUBSET Symbols :
          Command(c) \in Task /\ [Command(c) EXCEPT !.cands = S] \in Task
    BY CommandGood
  <1>3. "start" \in OwnerCommands /\ "buy" \in OwnerCommands
    BY DEF OwnerCommands
  <1>4. TypeOK
    BY DEF TypeInv
  <1>5. CASE Start
    BY <1>1, <1>2, <1>3, <1>4, <1>5, ReconcilingGood, MoveType DEF Start
  <1>6. CASE BootResumes
    BY <1>1, <1>2, <1>3, <1>4, <1>6, FreshGood, ReconcilingGood, MoveType DEF BootResumes
  <1>7. CASE RestartReads
    BY <1>1, <1>4, <1>7, ReconcilingGood, MoveType DEF RestartReads
  <1>8. CASE Buy
    <2>1. PICK s \in Symbols :
            \/ \E q \in Reconciling([Command("buy") EXCEPT !.cands = {s}]) : Set("owner", q)
            \/ Set("owner", [[Command("buy") EXCEPT !.cands = {s}] EXCEPT !.pc = "fbEquity"])
      BY <1>8 DEF Buy
    <2>2. [Command("buy") EXCEPT !.cands = {s}] \in Task
      BY <1>2, <1>3
    <2>3. Good([[Command("buy") EXCEPT !.cands = {s}] EXCEPT !.pc = "fbEquity"])
      BY <2>2 DEF Good, Task, PCs, HandlerPC, TokenPC, BuyingPC, SellPC, ReconcilePC
    <2>4. PICK q : Good(q) /\ Set("owner", q)
      BY <1>4, <2>1, <2>2, <2>3, ReconcilingGood
    <2> QED
      BY <1>1, <1>8, <2>4, MoveType DEF Buy
  <1> QED
    BY <1>5, <1>6, <1>7, <1>8

LEMMA AnnouncingType ==
  ASSUME TypeInv, NEW t \in Tasks, StartDone(t) \/ Announced(t)
  PROVE  TypeInv'
  <1>1. Good(task[t]) /\ task[t] \in Task
    BY DEF TypeInv, TypeOK
  <1>2. task[t].cmd \in OwnerCommands \cup {"none"} /\ task[t].cands \in SUBSET Symbols
    BY <1>1 DEF Task
  <1>3. CASE StartDone(t)
    <2>1. Good([Command(task[t].cmd) EXCEPT !.pc = "announce", !.cands = task[t].cands])
      BY <1>2, CommandGood
    <2>2. GoodTasks'
      BY <1>3, <2>1, SetKeeps DEF StartDone, TypeInv, TypeOK, GoodTasks
    <2> QED
      BY <1>3, <2>2
         DEF StartDone, TypeInv, TypeOK, GoodTasks, GoodThreads, book, risk, owner, AgentStates
  <1>4. CASE Announced(t)
    <2> DEFINE new == IF task[t].cmd = "buy" THEN [task[t] EXCEPT !.pc = "fbEquity"] ELSE Fresh
               tasks == [task EXCEPT ![t] = new]
    <2>1. Good([task[t] EXCEPT !.pc = "fbEquity"])
      BY <1>1 DEF Good, Task, PCs, HandlerPC, TokenPC, BuyingPC, SellPC, ReconcilePC
    <2>2. \A u \in Handlers : Good(tasks[u])
      BY <2>1, FreshGood DEF TypeInv, TypeOK, Tasks
    <2>3. ReplaceLoops("top", tasks)
      BY <1>4 DEF Announced, StartLoops, TypeInv, TypeOK
    <2>4. GoodTasks' /\ lock' \in Tasks \cup {None} /\ detached' \subseteq Thread /\ GoodThreads'
      <3> HIDE DEF tasks
      <3> QED
        BY <2>2, <2>3, ReplaceLoopsKeeps
    <2> QED
      BY <1>4, <2>4 DEF Announced, TypeInv, TypeOK, GoodTasks, book, risk, owner
  <1> QED
    BY <1>3, <1>4

LEMMA StoppingType ==
  ASSUME TypeInv, Pause \/ Panic \/ WithdrawTransfers
  PROVE  TypeInv'
  <1>1. \A t \in Handlers : Good(task[t])
    BY DEF TypeInv, Tasks
  <1>2. Good([Command("panic") EXCEPT !.pc = "panicOut"]) /\ Good(Fresh)
    BY CommandGood, FreshGood DEF OwnerCommands
  <1>3. task \in [Tasks -> Task] /\ Handlers \subseteq Tasks /\ "owner" \in Tasks
    BY DEF TypeInv, TypeOK, Tasks, Handlers
  <1>4. CASE Pause
    BY <1>1, <1>4, ReplaceLoopsKeeps
       DEF Pause, CancelLoops, TypeInv, TypeOK, GoodTasks, book, risk, owner, AgentStates
  <1>5. CASE Panic
    <2> DEFINE tasks == [task EXCEPT !["owner"] = [Command("panic") EXCEPT !.pc = "panicOut"]]
    <2>1. \A t \in Handlers : Good(tasks[t])
      BY <1>1, <1>2, <1>3
    <2>2. ReplaceLoops("dead", tasks)
      BY <1>5 DEF Panic, CancelLoops
    <2>3. GoodTasks' /\ lock' \in Tasks \cup {None} /\ detached' \subseteq Thread /\ GoodThreads'
      <3> HIDE DEF tasks
      <3> QED
        BY <2>1, <2>2, ReplaceLoopsKeeps
    <2> QED
      BY <1>5, <2>3 DEF Panic, TypeInv, TypeOK, GoodTasks, book, risk, owner, AgentStates
  <1>6. CASE WithdrawTransfers /\ state' = "PAUSED" /\ CancelLoops([task EXCEPT !["owner"] = Fresh])
    <2> DEFINE tasks == [task EXCEPT !["owner"] = Fresh]
    <2>1. \A t \in Handlers : Good(tasks[t])
      BY <1>1, <1>2, <1>3
    <2>2. ReplaceLoops("dead", tasks)
      BY <1>6 DEF CancelLoops
    <2>3. GoodTasks' /\ lock' \in Tasks \cup {None} /\ detached' \subseteq Thread /\ GoodThreads'
      <3> HIDE DEF tasks
      <3> QED
        BY <2>1, <2>2, ReplaceLoopsKeeps
    <2> QED
      BY <1>6, <2>3 DEF WithdrawTransfers, TypeInv, TypeOK, GoodTasks, book, risk, owner, AgentStates
  <1>7. CASE WithdrawTransfers /\ Set("owner", Fresh) /\ UNCHANGED <<state, lock, detached>>
    <2>1. GoodTasks'
      BY <1>2, <1>3, <1>7, SetKeeps DEF TypeInv, GoodTasks
    <2> QED
      BY <1>7, <2>1 DEF WithdrawTransfers, TypeInv, TypeOK, GoodTasks, GoodThreads, book, risk, owner
  <1> QED
    BY <1>4, <1>5, <1>6, <1>7 DEF WithdrawTransfers

LEMMA OwnerBuysType ==
  ASSUME TypeInv, ForceBuyGate \/ OwnerValidated \/ Approve \/ Restart
  PROVE  TypeInv'
  <1>1. "owner" \in Tasks /\ task["owner"] \in Task /\ Good(task["owner"])
    BY OwnerTask
  <1>2. CASE ForceBuyGate
    <2>1. Good([task["owner"] EXCEPT !.pc = "fbValidate"])
      BY <1>1 DEF Good, Task, PCs, HandlerPC, TokenPC, BuyingPC, SellPC, ReconcilePC
    <2>2. Set("owner", Fresh) \/ Set("owner", [task["owner"] EXCEPT !.pc = "fbValidate"])
      BY <1>2 DEF ForceBuyGate
    <2> QED
      BY <1>1, <1>2, <2>1, <2>2, FreshGood, MoveType DEF ForceBuyGate
  <1>3. CASE OwnerValidated
    <2>1. task["owner"].cands \in SUBSET Symbols
      BY <1>1 DEF Task
    <2>2. GoodTasks' /\ lock' \in Tasks \cup {None} /\ wedged' \in BOOLEAN
      BY <1>1, <1>3, <2>1, FreshGood, SetKeeps, OpenBeginsKeeps
         DEF OwnerValidated, TypeInv, TypeOK, GoodTasks
    <2> QED
      BY <1>3, <2>2 DEF OwnerValidated, TypeInv, TypeOK, GoodTasks, GoodThreads, book, risk, owner
  <1>4. CASE Approve
    <2>1. {pending} \in SUBSET Symbols
      BY <1>4 DEF Approve, TypeInv, TypeOK
    <2>2. Good([Command("approve") EXCEPT !.pc = "fbValidate", !.cands = {pending}])
      BY <2>1, CommandGood DEF OwnerCommands
    <2>3. GoodTasks'
      BY <1>1, <1>4, <2>2, SetKeeps DEF Approve, TypeInv, TypeOK, GoodTasks
    <2> QED
      BY <1>4, <2>3 DEF Approve, TypeInv, TypeOK, GoodTasks, GoodThreads, book, risk
  <1>5. CASE Restart
    <2>1. Good([Command("restart") EXCEPT !.pc = "rsEquity"])
      BY CommandGood DEF OwnerCommands
    <2>2. GoodTasks'
      BY <1>1, <1>5, <2>1, SetKeeps DEF Restart, TypeInv, TypeOK, GoodTasks
    <2> QED
      BY <1>5, <2>2 DEF Restart, TypeInv, TypeOK, GoodTasks, GoodThreads, book, risk, owner
  <1> QED
    BY <1>2, <1>3, <1>4, <1>5

LEMMA QuietType ==
  ASSUME TypeInv, Reject \/ SetCopilot \/ ProposalExpires \/ CooldownElapses
  PROVE  TypeInv'
  <1>1. GoodTasks'
    BY DEF Reject, SetCopilot, ProposalExpires, CooldownElapses, TypeInv, TypeOK, GoodTasks
  <1>2. CASE Reject
    BY <1>1, <1>2 DEF Reject, TypeInv, TypeOK, GoodTasks, GoodThreads, book, risk
  <1>3. CASE SetCopilot
    BY <1>1, <1>3 DEF SetCopilot, TypeInv, TypeOK, GoodTasks, GoodThreads, book, risk
  <1>4. CASE ProposalExpires
    BY <1>1, <1>4 DEF ProposalExpires, TypeInv, TypeOK, GoodTasks, GoodThreads, book, risk
  <1>5. CASE CooldownElapses
    BY <1>1, <1>5 DEF CooldownElapses, TypeInv, TypeOK, GoodTasks, GoodThreads, book, owner
  <1> QED
    BY <1>2, <1>3, <1>4, <1>5

-----------------------------------------------------------------------------
(* Type correctness *)

LEMMA InitType == Init => TypeInv
  <1> SUFFICES ASSUME Init PROVE TypeInv
    OBVIOUS
  <1>1. \A t \in Tasks : Good(task[t]) /\ task[t] \in Task
    <2> TAKE t \in Tasks
    <2>1. task[t] \in {Parked("dead"), Parked("boot"), Parked("idle")}
      BY DEF Init
    <2> QED
      BY <2>1, RestPCs DEF Good
  <1>2. task \in [Tasks -> Task]
    BY <1>1 DEF Init
  <1>3. positions \subseteq Position /\ nextId \in 1 .. MaxIds + 1
    <2>1. PICK syms \in SUBSET Symbols : \E id \in [syms -> 1 .. MaxIds] :
            /\ Cardinality(syms) <= MaxIds
            /\ positions = {[sym |-> s, id |-> id[s]] : s \in syms}
            /\ nextId = Cardinality(syms) + 1
      BY DEF Init
    <2>2. positions \subseteq Position
      BY <2>1 DEF Position
    <2>3. Cardinality(syms) \in Nat
      BY FS_Subset, FS_CardinalityType, AgentAssumption
    <2> QED
      BY <2>1, <2>2, <2>3, AgentAssumption
  <1>4. state \in AgentStates
    BY AgentAssumption DEF Init
  <1> QED
    BY <1>1, <1>2, <1>3, <1>4 DEF Init, TypeInv, TypeOK, GoodThreads

LEMMA StepType == TypeInv /\ [Next]_vars => TypeInv'
  <1> SUFFICES ASSUME TypeInv, [Next]_vars PROVE TypeInv'
    OBVIOUS
  <1>1. {"scan", "monitor", "owner", "boot"} \subseteq Tasks
    BY DEF Tasks, Loops, Handlers
  <1>2. ASSUME NEW t \in Tasks, Buying(t) PROVE TypeInv'
    BY <1>2, BuySwapReturnsType, BuyRetriesType, BuyPriceReturnsType DEF Buying
  <1>3. ASSUME NEW t \in Tasks, SellingSteps(t) PROVE TypeInv'
    BY <1>3, SellBalanceType, SellGoesType, SellSwapReturnsType, SellRetriesType DEF SellingSteps
  <1>4. ASSUME NEW t \in Tasks, ReconcilingSteps(t) PROVE TypeInv'
    BY <1>4, ReconcileBalanceType, ReconcilePriceType, ImportReadsType, ImportAppliesType
       DEF ReconcilingSteps
  <1>5. CASE ScanStep
    BY <1>1, <1>2, <1>4, <1>5, ScanMovesType, ScanOthersType DEF ScanStep
  <1>6. CASE MonitorStep
    BY <1>1, <1>3, <1>6, MonitorType DEF MonitorStep
  <1>7. CASE BootStep
    BY <1>1, <1>4, <1>7, StartingType, AnnouncingType DEF BootStep
  <1>8. CASE OwnerStep
    BY <1>1, <1>2, <1>3, <1>4, <1>8, StartingType, AnnouncingType, StoppingType,
       OwnerBuysType, OwnerSalesType DEF OwnerStep
  <1>9. CASE OwnerCommand
    BY <1>9, StartingType, StoppingType, OwnerBuysType, OwnerSalesType, QuietType DEF OwnerCommand
  <1>10. CASE \E t \in Tasks : SwapLands(t)
    BY <1>10, SwapLandsType
  <1>11. CASE DetachedLands \/ ProposalExpires \/ CooldownElapses
    BY <1>11, DetachedLandsType, QuietType
  <1>12. CASE UNCHANGED vars
    BY <1>12 DEF vars, TypeInv, TypeOK, GoodThreads, InFlight
  <1> QED
    BY <1>5, <1>6, <1>7, <1>8, <1>9, <1>10, <1>11, <1>12 DEF Next

\* Type correctness, for any tokens, limits and commands: in particular a booked position
\* always has a token, however the tasks of agent.py interleave.
THEOREM TypeCorrect == Spec => []TypeOK
  <1>1. TypeInv => TypeOK
    BY DEF TypeInv
  <1> QED
    BY <1>1, InitType, StepType, PTL DEF Spec

-----------------------------------------------------------------------------
(* The trade mutex, and the scan that stops with the agent *)

Safe == TypeInv /\ MutexOwnsSwap /\ ScanOnlyWhileTrading

Idling == {"dead", "top"}                   \* a loop between two cycles
StateKept == state' = state \/ state' \in Trading

\* What a move of t to r may do to the mutex: nothing, or give it back.
Tidy(t, r) == \/ lock' = lock /\ (r.pc \in LockedPC <=> task[t].pc \in LockedPC)
              \/ lock' = None /\ task[t].pc \in LockedPC /\ r.pc \notin LockedPC
\* What it may do to a scan cycle: end it, or go on with one under way.
Cycling(t, r) == t = "scan" /\ task[t].pc \in Idling => r.pc \in Idling

LEMMA SetSafe ==
  ASSUME Safe, NEW t \in Tasks, NEW r, Set(t, r), Tidy(t, r), Cycling(t, r), StateKept
  PROVE  MutexOwnsSwap' /\ ScanOnlyWhileTrading'
  <1>1. task'[t] = r /\ \A u \in Tasks \ {t} : task'[u] = task[u]
    BY DEF Set, Safe, TypeInv, TypeOK
  <1>2. MutexOwnsSwap'
    BY <1>1, AgentAssumption DEF Tidy, Safe, MutexOwnsSwap
  <1>3. ScanOnlyWhileTrading'
    <2>1. "scan" \in Tasks
      BY DEF Tasks, Loops
    <2> QED
      BY <1>1, <2>1 DEF Safe, ScanOnlyWhileTrading, Cycling, StateKept, Idling
  <1> QED
    BY <1>2, <1>3

LEMMA TakeLockSafe ==
  ASSUME Safe, NEW t \in Tasks, NEW r, TakeLock(t, r), r.pc \in LockedPC, Cycling(t, r),
         StateKept
  PROVE  MutexOwnsSwap' /\ ScanOnlyWhileTrading'
  <1>1. CASE lock = None /\ lock' = t /\ Set(t, r)
    <2>1. task'[t] = r /\ \A u \in Tasks \ {t} : task'[u] = task[u]
      BY <1>1 DEF Set, Safe, TypeInv, TypeOK
    <2>2. \A u \in Tasks : lock # u
      BY <1>1, AgentAssumption
    <2>3. MutexOwnsSwap'
      BY <1>1, <2>1, <2>2 DEF Safe, MutexOwnsSwap
    <2>4. "scan" \in Tasks
      BY DEF Tasks, Loops
    <2> QED
      BY <2>1, <2>3, <2>4 DEF Safe, ScanOnlyWhileTrading, Cycling, StateKept, Idling
  <1>2. CASE UNCHANGED <<lock, task>>
    BY <1>2 DEF Safe, MutexOwnsSwap, ScanOnlyWhileTrading, StateKept
  <1> QED
    BY <1>1, <1>2 DEF TakeLock

\* Nobody moves.
LEMMA StillSafe ==
  ASSUME Safe, task' = task, lock' = lock, StateKept
  PROVE  MutexOwnsSwap' /\ ScanOnlyWhileTrading'
  BY DEF Safe, MutexOwnsSwap, ScanOnlyWhileTrading, StateKept

\* Both loops are replaced, while no handler takes or gives back the mutex.
LEMMA ReplaceSafe ==
  ASSUME Safe, NEW l \in Idling, NEW tasks, ReplaceLoops(l, tasks),
         \A t \in Handlers : tasks[t].pc \in LockedPC <=> task[t].pc \in LockedPC
  PROVE  MutexOwnsSwap' /\ ScanOnlyWhileTrading'
  <1>1. \A t \in Loops : task'[t].pc \in Idling
    BY DEF ReplaceLoops, Tasks, Parked, Fresh
  <1>2. \A t \in Loops : lock' # t
    BY AgentAssumption DEF ReplaceLoops, Tasks
  <1>3. \A t \in Handlers : lock' = t <=> lock = t
    BY AgentAssumption DEF ReplaceLoops, Tasks, Loops, Handlers
  <1>4. \A t \in Handlers : task'[t].pc \in LockedPC <=> task[t].pc \in LockedPC
    BY DEF ReplaceLoops, Tasks, Loops, Handlers
  <1>5. MutexOwnsSwap'
    BY <1>1, <1>2, <1>3, <1>4 DEF Safe, MutexOwnsSwap, Tasks, LockedPC, Idling
  <1> QED
    BY <1>1, <1>5 DEF ScanOnlyWhileTrading, Loops, Idling

LEMMA NewPCs ==
  /\ \A l : Parked(l).pc = l
  /\ \A l, c : [Parked(l) EXCEPT !.cands = c].pc = l
  /\ \A l, c : [Fresh EXCEPT !.pc = l, !.cmd = c].pc = l
  /\ \A c : Command(c).pc = "idle"
  /\ \A l, c : [Command(c) EXCEPT !.pc = l].pc = l
  /\ \A l, c, s : [Command(c) EXCEPT !.pc = l, !.cands = s].pc = l
  /\ \A p, s, l : [Parked(l) EXCEPT !.cur = p, !.todo = s].pc = l
  /\ \A t : Resting(t).pc = IF t \in Loops THEN "top" ELSE "idle"
  /\ Fresh.pc = "idle"
  BY DEF Parked, Command, Fresh, Resting

LEMMA UpdatedPCs ==
  ASSUME NEW r \in Task
  PROVE  /\ \A l : [r EXCEPT !.pc = l].pc = l
         /\ \A l, x : [r EXCEPT !.pc = l, !.res = x].pc = l
         /\ \A l, x : [r EXCEPT !.pc = l, !.retried = x].pc = l
         /\ \A l, x : [r EXCEPT !.pc = l, !.read = x].pc = l
         /\ \A l, x : [r EXCEPT !.pc = l, !.todo = x].pc = l
         /\ \A l, x, y : [r EXCEPT !.pc = l, !.read = x, !.res = y].pc = l
         /\ \A x : [r EXCEPT !.res = x].pc = r.pc
         /\ \A p, S : Selling(r, p, S).pc = "sellBal"
  BY DEF Task, Selling

LEMMA WalkAtPC ==
  ASSUME NEW r \in Task, NEW S, NEW i, NEW q \in WalkAt(r, S, i)
  PROVE  q.pc \in {"recBal", "impRead"}
  <1>1. CASE i < Cardinality(S)
    BY <1>1 DEF WalkAt, Task
  <1>2. CASE ~(i < Cardinality(S))
    BY <1>2 DEF WalkAt, Task
  <1> QED
    BY <1>1, <1>2

LEMMA ReconcilingPC ==
  ASSUME NEW r \in Task, NEW q \in Reconciling(r)
  PROVE  q.pc \in {"recBal", "impRead"}
  <1> DEFINE x == [r EXCEPT !.live = TRUE]
  <1>1. x \in Task
    BY DEF Task
  <1>2. q \in WalkAt(x, positions, 0)
    BY DEF Reconciling
  <1> HIDE DEF x
  <1> QED
    BY <1>1, <1>2, WalkAtPC

Kept == MutexOwnsSwap' /\ ScanOnlyWhileTrading'

\* The common case: t moves from an unlocked await to an unlocked await.
LEMMA MoveSafe ==
  ASSUME Safe, NEW t \in Tasks, NEW r, Set(t, r), lock' = lock, StateKept,
         task[t].pc \notin LockedPC \cup Idling, r.pc \notin LockedPC
  PROVE  Kept
  BY SetSafe DEF Tidy, Cycling, Kept

\* ... and t gives back the mutex after a swap.
LEMMA ReleaseSafe ==
  ASSUME Safe, NEW t \in Tasks, NEW r, Set(t, r), lock' = None, StateKept,
         task[t].pc \in LockedPC, r.pc \notin LockedPC
  PROVE  Kept
  BY SetSafe DEF Tidy, Cycling, Kept, LockedPC, Idling

LEMMA Shorthands ==
  /\ LockedPC = {"buySwap", "sellSwap"}
  /\ Idling = {"dead", "top"}
  /\ \A t : Resting(t).pc \in {"top", "idle"}
  BY NewPCs DEF LockedPC, Idling

LEMMA OpenFailedSafe ==
  ASSUME NEW t \in Tasks, OpenFailed(t)
  PROVE  \E r : Set(t, r) /\ r.pc \in {"validate", "top", "idle"}
  <1>1. CASE t = "scan" /\ task[t].cands # {}
    <2> DEFINE r == [Parked("validate") EXCEPT !.cands = task[t].cands]
    <2>1. r.pc = "validate" /\ Set(t, r)
      BY <1>1, NewPCs DEF OpenFailed
    <2> QED
      BY <2>1
  <1>2. CASE ~(t = "scan" /\ task[t].cands # {})
    BY <1>2, Shorthands DEF OpenFailed
  <1> QED
    BY <1>1, <1>2

LEMMA BuyingSafe ==
  ASSUME Safe, NEW t \in Tasks, Buying(t)
  PROVE  Kept
  <1>1. task[t] \in Task
    BY DEF Safe, TypeInv, TypeOK
  <1>2. CASE BuySwapReturns(t)
    <2>1. task[t].pc = "buySwap" /\ lock' = None
      BY <1>2 DEF BuySwapReturns, At
    <2>2. ASSUME NEW r, Set(t, r), StateKept, r.pc \notin LockedPC PROVE Kept
      BY <2>1, <2>2, ReleaseSafe, Shorthands
    <2>3. CASE Opened(t)
      BY <2>2, <2>3, Shorthands DEF Opened, StateKept, Trading
    <2>4. CASE StateKept /\ Set(t, Resting(t))
      BY <2>2, <2>4, Shorthands
    <2>5. CASE StateKept /\ OpenFailed(t)
      BY <2>2, <2>5, OpenFailedSafe, Shorthands
    <2> DEFINE again == [task[t] EXCEPT !.pc = "buyWait", !.retried = TRUE]
               bought == [task[t] EXCEPT !.pc = "buyPx"]
    <2>8. again.pc = "buyWait" /\ bought.pc = "buyPx"
      BY <1>1, UpdatedPCs
    <2> HIDE DEF again, bought
    <2>6. CASE StateKept /\ Set(t, again)
      BY <2>2, <2>6, <2>8, Shorthands
    <2>7. CASE StateKept /\ Set(t, bought)
      BY <2>2, <2>7, <2>8, Shorthands
    <2> QED
      BY <1>2, <2>3, <2>4, <2>5, <2>6, <2>7 DEF BuySwapReturns, StateKept, again, bought
  <1>3. CASE BuyRetries(t)
    <2> DEFINE r == [task[t] EXCEPT !.pc = "buySwap", !.res = "none"]
    <2>1. r.pc = "buySwap" /\ TakeLock(t, r) /\ StateKept /\ task[t].pc = "buyWait"
      BY <1>1, <1>3, UpdatedPCs DEF BuyRetries, At, StateKept
    <2> HIDE DEF r
    <2> QED
      BY <2>1, TakeLockSafe, Shorthands DEF Cycling, Kept
  <1>4. CASE BuyPriceReturns(t)
    <2>1. task[t].pc = "buyPx" /\ lock' = lock /\ Set(t, Resting(t)) /\ StateKept
      BY <1>4 DEF BuyPriceReturns, At, Opened, StateKept, Trading
    <2> QED
      BY <2>1, MoveSafe, Shorthands
  <1> QED
    BY <1>2, <1>3, <1>4 DEF Buying

LEMMA SellingSafe ==
  ASSUME Safe, NEW t \in Tasks, SellingSteps(t)
  PROVE  Kept
  <1>1. task[t] \in Task
    BY DEF Safe, TypeInv, TypeOK
  <1>2. StateKept
    BY DEF SellingSteps, SellBalance, SellGoes, SellSwapReturns, SellRetries, StateKept
  <1>3. CASE SellBalance(t)
    <2>1. \A x : [task[t] EXCEPT !.pc = "sellDec", !.read = x].pc = "sellDec"
      BY <1>1, UpdatedPCs
    <2>2. PICK r : Set(t, r) /\ r.pc = "sellDec"
      BY <1>3, <2>1 DEF SellBalance
    <2>3. task[t].pc = "sellBal" /\ lock' = lock
      BY <1>3 DEF SellBalance, At
    <2> QED
      BY <1>2, <2>2, <2>3, MoveSafe, Shorthands
  <1>4. CASE SellGoes(t)
    <2> DEFINE r == [task[t] EXCEPT !.pc = "sellSwap", !.read = {}]
               q == [task[t] EXCEPT !.pc = "sellOut", !.read = {}, !.res = "dust"]
    <2>1. task[t].pc = "sellDec" /\ (TakeLock(t, r) \/ (Set(t, q) /\ lock' = lock))
      BY <1>4 DEF SellGoes, At
    <2>2. r.pc = "sellSwap" /\ q.pc = "sellOut"
      BY <1>1, UpdatedPCs
    <2> HIDE DEF r, q
    <2>3. CASE TakeLock(t, r)
      BY <1>2, <2>1, <2>2, <2>3, TakeLockSafe, Shorthands DEF Cycling, Kept
    <2>4. CASE Set(t, q) /\ lock' = lock
      BY <1>2, <2>1, <2>2, <2>4, MoveSafe, Shorthands
    <2> QED
      BY <2>1, <2>3, <2>4
  <1>5. CASE SellSwapReturns(t)
    <2>1. task[t].pc = "sellSwap" /\ lock' = None
      BY <1>5 DEF SellSwapReturns, At
    <2>2. ASSUME NEW r, Set(t, r), r.pc \notin LockedPC PROVE Kept
      BY <1>2, <2>1, <2>2, ReleaseSafe, Shorthands
    <2> DEFINE again == [task[t] EXCEPT !.pc = "sellWait", !.retried = TRUE]
               failed == [task[t] EXCEPT !.pc = "sellOut", !.res = "fail"]
               sold == [task[t] EXCEPT !.pc = "sellOut"]
    <2>7. again.pc = "sellWait" /\ failed.pc = "sellOut" /\ sold.pc = "sellOut"
      BY <1>1, UpdatedPCs
    <2> HIDE DEF again, failed, sold
    <2>3. CASE Set(t, again)
      BY <2>2, <2>3, <2>7, Shorthands
    <2>4. CASE Set(t, failed)
      BY <2>2, <2>4, <2>7, Shorthands
    <2>5. CASE Set(t, sold)
      BY <2>2, <2>5, <2>7, Shorthands
    <2>6. CASE Set(t, Resting(t))
      BY <2>2, <2>6, Shorthands
    <2> QED
      BY <1>5, <2>3, <2>4, <2>5, <2>6 DEF SellSwapReturns, again, failed, sold
  <1>6. CASE SellRetries(t)
    <2> DEFINE r == [task[t] EXCEPT !.pc = "sellSwap", !.res = "none"]
    <2>1. r.pc = "sellSwap" /\ TakeLock(t, r) /\ task[t].pc = "sellWait"
      BY <1>1, <1>6, UpdatedPCs DEF SellRetries, At
    <2> HIDE DEF r
    <2> QED
      BY <1>2, <2>1, TakeLockSafe, Shorthands DEF Cycling, Kept
  <1> QED
    BY <1>3, <1>4, <1>5, <1>6 DEF SellingSteps

LEMMA WalkOnSafe ==
  ASSUME Safe, NEW t \in Tasks, NEW k, NEW g \in BOOLEAN, WalkOn(t, k, g), k \subseteq Position,
         task[t].pc \in ReconcilePC, lock' = lock, state' = state
  PROVE  Kept
  <1> DEFINE x == [task[t] EXCEPT !.kept = k, !.gone = g]
  <1>1. task[t] \in Task /\ x \in Task
    BY DEF Safe, TypeInv, TypeOK, Task
  <1>2. PICK r \in WalkAt(x, Walked(t), task[t].idx + 1) : Rebind(t, r, k) \/ Set(t, r)
    BY DEF WalkOn
  <1> HIDE DEF x
  <1>3. r.pc \in {"recBal", "impRead"}
    BY <1>1, <1>2, WalkAtPC
  <1>4. \A u \in Tasks \ {t} : task'[u].pc = task[u].pc
    <2> SUFFICES ASSUME NEW u \in Tasks \ {t} PROVE task'[u].pc = task[u].pc
      OBVIOUS
    <2>1. task[u] \in Task
      BY DEF Safe, TypeInv, TypeOK
    <2>2. [task[u] EXCEPT !.live = FALSE, !.view = positions].pc = task[u].pc
      BY <2>1 DEF Task
    <2>3. CASE Set(t, r)
      BY <2>3 DEF Set, Safe, TypeInv, TypeOK
    <2>4. CASE Rebind(t, r, k)
      BY <2>2, <2>4 DEF Rebind
    <2> QED
      BY <1>2, <2>3, <2>4
  <1>5. task'[t] = r
    BY <1>2 DEF Rebind, Set, Safe, TypeInv, TypeOK
  <1>6. \A u \in Tasks : task'[u].pc \in LockedPC <=> task[u].pc \in LockedPC
    BY <1>3, <1>4, <1>5 DEF ReconcilePC, LockedPC
  <1>7. "scan" \in Tasks
    BY DEF Tasks, Loops
  <1>8. task'["scan"].pc \in Idling <=> task["scan"].pc \in Idling
    BY <1>3, <1>4, <1>5, <1>7 DEF ReconcilePC, Idling
  <1> QED
    BY <1>6, <1>8 DEF Kept, MutexOwnsSwap, ScanOnlyWhileTrading, Safe, Idling

LEMMA ReconcilingSafe ==
  ASSUME Safe, NEW t \in Tasks, ReconcilingSteps(t)
  PROVE  Kept
  <1>1. task[t] \in Task /\ Good(task[t])
    BY DEF Safe, TypeInv, TypeOK
  <1>2. lock' = lock
    BY DEF ReconcilingSteps, ReconcileBalance, ReconcilePrice, ImportReads, ImportApplies
  <1>3. ASSUME NEW r, Set(t, r), r.pc \in {"recPx", "impGot", "recDone"}, StateKept,
               task[t].pc \in {"recBal", "impRead", "impGot"}
        PROVE  Kept
    BY <1>2, <1>3, MoveSafe, Shorthands
  <1>4. \A l, x : [task[t] EXCEPT !.pc = l, !.read = x].pc = l
    BY <1>1, UpdatedPCs
  <1>5. task[t].kept \subseteq Position /\ task[t].gone \in BOOLEAN
    BY <1>1 DEF Task
  <1>6. task[t].pc \in ReconcilePC => task[t].cur \in Position
    BY <1>1 DEF Good
  <1>7. CASE ReconcileBalance(t)
    <2>1. task[t].pc = "recBal" /\ state' = state
      BY <1>7 DEF ReconcileBalance, At
    <2>2. CASE Set(t, [task[t] EXCEPT !.pc = "recPx", !.read = wallet \cap {task[t].cur.sym}])
      <3> DEFINE r == [task[t] EXCEPT !.pc = "recPx", !.read = wallet \cap {task[t].cur.sym}]
      <3>1. r.pc = "recPx" /\ Set(t, r)
        BY <1>4, <2>2
      <3> HIDE DEF r
      <3> QED
        BY <1>3, <2>1, <3>1 DEF StateKept
    <2>3. CASE WalkOn(t, task[t].kept \cup {task[t].cur}, task[t].gone)
      BY <1>2, <1>5, <1>6, <2>1, <2>3, WalkOnSafe DEF ReconcilePC
    <2> QED
      BY <1>7, <2>2, <2>3 DEF ReconcileBalance
  <1>8. CASE ReconcilePrice(t)
    <2>1. task[t].pc \in ReconcilePC /\ state' = state
      BY <1>8 DEF ReconcilePrice, At, ReconcilePC
    <2>2. \/ WalkOn(t, task[t].kept \cup {task[t].cur}, task[t].gone)
          \/ WalkOn(t, task[t].kept, TRUE)
      BY <1>8 DEF ReconcilePrice
    <2> QED
      BY <1>2, <1>5, <1>6, <2>1, <2>2, WalkOnSafe
  <1>9. CASE ImportReads(t)
    <2>1. task[t].pc = "impRead" /\ StateKept
      BY <1>9 DEF ImportReads, At, StateKept
    <2>2. PICK r : Set(t, r) /\ r.pc = "impGot"
      BY <1>4, <1>9 DEF ImportReads
    <2> QED
      BY <1>3, <2>1, <2>2
  <1>10. CASE ImportApplies(t)
    <2> DEFINE r == [task[t] EXCEPT !.pc = "recDone", !.read = {}]
    <2>1. r.pc = "recDone" /\ Set(t, r)
      BY <1>4, <1>10 DEF ImportApplies
    <2>2. task[t].pc = "impGot" /\ StateKept
      BY <1>10 DEF ImportApplies, At, StateKept, Trading
    <2> HIDE DEF r
    <2> QED
      BY <1>3, <2>1, <2>2
  <1> QED
    BY <1>7, <1>8, <1>9, <1>10 DEF ReconcilingSteps

LEMMA OpeningSafe ==
  ASSUME Safe, NEW t \in Tasks, NEW s, OpenBegins(t, s), task[t].pc \notin LockedPC \cup Idling,
         StateKept
  PROVE  Kept
  <1> DEFINE r == [task[t] EXCEPT !.pc = "buySwap", !.cur = Ticket(s), !.res = "none",
                                  !.retried = FALSE, !.cands = @ \ {s}]
  <1>1. r.pc = "buySwap" /\ TakeLock(t, r)
    BY DEF OpenBegins, Safe, TypeInv, TypeOK, Task
  <1> HIDE DEF r
  <1> QED
    BY <1>1, TakeLockSafe, Shorthands DEF Cycling, Kept

LEMMA ScanSafe ==
  ASSUME Safe, ScanStep
  PROVE  Kept
  <1>1. "scan" \in Tasks
    BY DEF Tasks, Loops
  <1>2. ASSUME NEW r, Set("scan", r), r.pc \notin LockedPC, lock' = lock, StateKept,
               task["scan"].pc \notin LockedPC \cup {"dead"},
               task["scan"].pc = "top" => r.pc \in Idling
        PROVE  Kept
    BY <1>1, <1>2, SetSafe DEF Tidy, Cycling, Kept, Idling
  <1>3. CASE ScanWakes
    <2> DEFINE r == Parked(IF state \in Trading THEN "equity" ELSE "dead")
    <2>1. task["scan"].pc = "top" /\ Set("scan", r) /\ lock' = lock /\ state' = state
      BY <1>3 DEF ScanWakes, At
    <2>2. r.pc = IF state \in Trading THEN "equity" ELSE "dead"
      BY NewPCs
    <2> HIDE DEF r
    <2>3. task'["scan"] = r /\ \A u \in Tasks \ {"scan"} : task'[u] = task[u]
      BY <1>1, <2>1 DEF Set, Safe, TypeInv, TypeOK
    <2>4. MutexOwnsSwap'
      BY <2>1, <2>2, <2>3, Shorthands DEF Safe, MutexOwnsSwap
    <2>5. ScanOnlyWhileTrading'
      BY <2>1, <2>2, <2>3 DEF ScanOnlyWhileTrading
    <2> QED
      BY <2>4, <2>5 DEF Kept
  <1>4. CASE ScanEquity
    <2>1. task["scan"] \in Task
      BY <1>1 DEF Safe, TypeInv, TypeOK
    <2>2. PICK r : Set("scan", r) /\ r.pc \in {"top", "recBal", "impRead"}
      BY <1>4, <2>1, NewPCs, ReconcilingPC DEF ScanEquity
    <2>3. task["scan"].pc = "equity" /\ lock' = lock /\ StateKept
      BY <1>4 DEF ScanEquity, At, StateKept
    <2> QED
      BY <1>2, <2>2, <2>3, Shorthands
  <1>5. CASE ScanPanics
    <2>1. ReplaceLoops("dead", task)
      BY <1>5 DEF ScanPanics, CancelLoops
    <2> QED
      BY <2>1, ReplaceSafe, Shorthands DEF Kept
  <1>6. CASE ScanAnomaly \/ ScanHeartbeat \/ HeartbeatReturns \/ ScanAnalyses
    <2>1. \E l \in {"top", "hbSwap", "market"} : Set("scan", Parked(l))
      BY <1>6 DEF ScanAnomaly, ScanHeartbeat, HeartbeatReturns, ScanAnalyses
    <2>2. PICK r : Set("scan", r) /\ r.pc \in {"top", "hbSwap", "market"}
      BY <2>1, NewPCs
    <2>3. lock' = lock /\ task["scan"].pc \in {"recDone", "hbSwap"}
      BY <1>6 DEF ScanAnomaly, ScanHeartbeat, HeartbeatReturns, ScanAnalyses, At
    <2>4. CASE StateKept
      BY <1>2, <2>2, <2>3, <2>4, Shorthands
    <2>5. CASE ScanAnomaly
      <3>1. Set("scan", Parked("top")) /\ Parked("top").pc = "top"
        BY <2>5, NewPCs DEF ScanAnomaly
      <3>2. task'["scan"].pc = "top" /\ \A u \in Tasks \ {"scan"} : task'[u] = task[u]
        BY <1>1, <3>1 DEF Set, Safe, TypeInv, TypeOK
      <3>3. MutexOwnsSwap'
        BY <2>3, <3>2, Shorthands DEF Safe, MutexOwnsSwap
      <3> QED
        BY <3>2, <3>3 DEF Kept, ScanOnlyWhileTrading
    <2> QED
      BY <1>6, <2>4, <2>5
         DEF ScanHeartbeat, HeartbeatReturns, ScanAnalyses, StateKept
  <1>7. CASE ScanGate \/ ScanPicks
    <2>1. PICK r : Set("scan", r) /\ r.pc \in {"top", "brain", "validate"}
      <3>1. CASE ScanGate
        BY <3>1, NewPCs DEF ScanGate
      <3>2. CASE ScanPicks
        <4>1. PICK c : Set("scan", IF c = {} THEN Parked("top")
                                   ELSE [Parked("validate") EXCEPT !.cands = c])
          BY <3>2 DEF ScanPicks
        <4>2. [Parked("validate") EXCEPT !.cands = c].pc = "validate"
          BY NewPCs
        <4>3. CASE c = {}
          BY <4>1, <4>3, NewPCs
        <4>4. CASE c # {}
          BY <4>1, <4>2, <4>4
        <4> QED
          BY <4>3, <4>4
      <3> QED
        BY <1>7, <3>1, <3>2
    <2>2. task["scan"].pc \in {"market", "brain"} /\ lock' = lock /\ StateKept
      BY <1>7 DEF ScanGate, ScanPicks, At, StateKept
    <2> QED
      BY <1>2, <2>1, <2>2, Shorthands
  <1>8. CASE ScanValidates
    <2>1. task["scan"].pc = "validate" /\ StateKept
      BY <1>8 DEF ScanValidates, At, StateKept
    <2>2. PICK s \in task["scan"].cands :
            \/ /\ Set("scan", IF task["scan"].cands \ {s} = {} THEN Parked("top")
                          ELSE [Parked("validate") EXCEPT !.cands = task["scan"].cands \ {s}])
               /\ lock' = lock
            \/ Set("scan", Parked("top")) /\ lock' = lock
            \/ OpenBegins("scan", s)
      BY <1>8 DEF ScanValidates
    <2>3. CASE OpenBegins("scan", s)
      BY <1>1, <2>1, <2>3, OpeningSafe, Shorthands
    <2>4. CASE ~OpenBegins("scan", s)
      <3>1. PICK r : Set("scan", r) /\ r.pc \in {"top", "validate"} /\ lock' = lock
        BY <2>2, <2>4, NewPCs
      <3> QED
        BY <1>2, <2>1, <3>1, Shorthands
    <2> QED
      BY <2>3, <2>4
  <1> QED
    BY <1>1, <1>3, <1>4, <1>5, <1>6, <1>7, <1>8, ReconcilingSafe, BuyingSafe DEF ScanStep

LEMMA MonitorSafe ==
  ASSUME Safe, MonitorStep
  PROVE  Kept
  <1>1. "monitor" \in Tasks /\ task["monitor"] \in Task
    BY DEF Tasks, Loops, Safe, TypeInv, TypeOK
  <1>2. ASSUME NEW r, Set("monitor", r), r.pc \notin LockedPC
        PROVE  lock' = lock /\ StateKept /\ task["monitor"].pc \notin LockedPC => Kept
    BY <1>1, <1>2, SetSafe DEF Tidy, Cycling, Kept
  <1>3. ASSUME NEW S, CheckNext(S)
        PROVE  StateKept /\ \E r : Set("monitor", r) /\ r.pc \in {"top", "tick"}
    <2>1. StateKept
      BY <1>3 DEF CheckNext, Emptied, StateKept, Trading
    <2>2. CASE S = {}
      BY <1>3, <2>1, <2>2, NewPCs DEF CheckNext
    <2>3. CASE S # {}
      <3>1. PICK p : Set("monitor", [Parked("tick") EXCEPT !.cur = p, !.todo = S \ {p}])
        BY <1>3, <2>3 DEF CheckNext
      <3>2. [Parked("tick") EXCEPT !.cur = p, !.todo = S \ {p}].pc = "tick"
        BY NewPCs
      <3> QED
        BY <2>1, <3>1, <3>2
    <2> QED
      BY <2>2, <2>3
  <1>4. CASE MonitorWakes
    <2>1. task["monitor"].pc = "top" /\ lock' = lock
      BY <1>4 DEF MonitorWakes, At
    <2>2. StateKept /\ \E r : Set("monitor", r) /\ r.pc \in {"top", "tick", "dead"}
      BY <1>3, <1>4, NewPCs DEF MonitorWakes, StateKept
    <2> QED
      BY <1>2, <2>1, <2>2, Shorthands
  <1>5. CASE MonitorTick
    <2>1. task["monitor"].pc = "tick" /\ lock' = lock
      BY <1>5 DEF MonitorTick, At
    <2>2. \A p, S : Selling(task["monitor"], p, S).pc = "sellBal"
      BY <1>1, UpdatedPCs
    <2>3. StateKept /\ \E r : Set("monitor", r) /\ r.pc \in {"top", "tick", "sellBal"}
      BY <1>3, <1>5, <2>2 DEF MonitorTick, StateKept
    <2> QED
      BY <1>2, <2>1, <2>3, Shorthands
  <1>6. CASE MonitorSold
    <2>1. task["monitor"].pc = "sellOut" /\ lock' = lock
      BY <1>6 DEF MonitorSold, At
    <2>2. StateKept
      BY <1>6 DEF MonitorSold, Emptied, StateKept, Trading
    <2>3. \E r : Set("monitor", r) /\ r.pc \in {"top", "tick"}
      <3>1. CASE task["monitor"].todo = {}
        BY <1>6, <3>1, NewPCs DEF MonitorSold
      <3>2. CASE task["monitor"].todo # {}
        <4> DEFINE rest == task["monitor"].todo
        <4>1. PICK p : Set("monitor", [Parked("tick") EXCEPT !.cur = p, !.todo = rest \ {p}])
          BY <1>6, <3>2 DEF MonitorSold
        <4>2. [Parked("tick") EXCEPT !.cur = p, !.todo = rest \ {p}].pc = "tick"
          BY NewPCs
        <4> QED
          BY <4>1, <4>2
      <3> QED
        BY <3>1, <3>2
    <2> QED
      BY <1>2, <2>1, <2>2, <2>3, Shorthands
  <1> QED
    BY <1>1, <1>4, <1>5, <1>6, SellingSafe DEF MonitorStep

LEMMA StartingSafe ==
  ASSUME Safe, NEW t \in Handlers, BootResumes \/ StartDone(t) \/ Announced(t)
  PROVE  Kept
  <1>1. t \in Tasks /\ task[t] \in Task
    BY DEF Tasks, Safe, TypeInv, TypeOK
  <1>2. CASE BootResumes
    <2>1. "boot" \in Tasks /\ task["boot"].pc = "boot" /\ lock' = lock /\ StateKept
      BY <1>2 DEF BootResumes, At, StateKept, Tasks, Handlers
    <2>2. Command("start") \in Task
      BY FreshTyped DEF OwnerCommands, PCs, HandlerPC
    <2>3. PICK r : Set("boot", r) /\ r.pc \in {"recBal", "impRead", "idle"}
      BY <1>2, <2>2, ReconcilingPC, NewPCs DEF BootResumes
    <2> QED
      BY <2>1, <2>3, MoveSafe, Shorthands
  <1>3. CASE StartDone(t)
    <2> DEFINE r == [Command(task[t].cmd) EXCEPT !.pc = "announce", !.cands = task[t].cands]
    <2>1. r.pc = "announce" /\ Set(t, r)
      BY <1>3, NewPCs DEF StartDone
    <2>2. task[t].pc = "recDone" /\ lock' = lock /\ StateKept
      BY <1>3 DEF StartDone, At, StateKept, Trading
    <2> HIDE DEF r
    <2> QED
      BY <1>1, <2>1, <2>2, MoveSafe, Shorthands
  <1>4. CASE Announced(t)
    <2> DEFINE tasks == [task EXCEPT ![t] = IF task[t].cmd = "buy"
                                              THEN [@ EXCEPT !.pc = "fbEquity"] ELSE Fresh]
    <2>1. ReplaceLoops("top", tasks) /\ task[t].pc = "announce"
      BY <1>4 DEF Announced, StartLoops, At
    <2>2. tasks[t].pc \in {"fbEquity", "idle"}
      BY <1>1, NewPCs DEF Task, Safe, TypeInv, TypeOK
    <2>3. \A u \in Handlers \ {t} : tasks[u] = task[u]
      BY DEF Safe, TypeInv, TypeOK, Tasks
    <2> HIDE DEF tasks
    <2> QED
      BY <2>1, <2>2, <2>3, ReplaceSafe, Shorthands DEF Kept
  <1> QED
    BY <1>2, <1>3, <1>4

\* What the lemmas about the owner's handler share.
LEMMA OwnerMoves ==
  ASSUME Safe
  PROVE  /\ "owner" \in Tasks /\ "owner" \in Handlers /\ task["owner"] \in Task
         /\ \A c \in OwnerCommands : Command(c) \in Task
         /\ \A r : Set("owner", r) /\ r.pc \notin LockedPC /\ lock' = lock /\ StateKept
                   /\ task["owner"].pc \notin LockedPC => Kept
         /\ \A tasks : /\ ReplaceLoops("dead", tasks) /\ task["owner"].pc \notin LockedPC
                       /\ \E r : tasks = [task EXCEPT !["owner"] = r] /\ r.pc \notin LockedPC
                       => Kept
  <1>1. "owner" \in Tasks /\ "owner" \in Handlers /\ task["owner"] \in Task
    BY DEF Tasks, Handlers, Safe, TypeInv, TypeOK
  <1>2. \A c \in OwnerCommands : Command(c) \in Task
    BY FreshTyped DEF PCs, HandlerPC
  <1>3. ASSUME NEW r, Set("owner", r), r.pc \notin LockedPC, lock' = lock, StateKept,
               task["owner"].pc \notin LockedPC
        PROVE  Kept
    BY <1>1, <1>3, SetSafe DEF Tidy, Cycling, Kept
  <1>4. ASSUME NEW tasks, ReplaceLoops("dead", tasks), task["owner"].pc \notin LockedPC,
               \E r : tasks = [task EXCEPT !["owner"] = r] /\ r.pc \notin LockedPC
        PROVE  Kept
    <2>1. PICK r : tasks = [task EXCEPT !["owner"] = r] /\ r.pc \notin LockedPC
      BY <1>4
    <2>2. \A t \in Handlers : tasks[t].pc \in LockedPC <=> task[t].pc \in LockedPC
      BY <1>1, <1>4, <2>1 DEF Safe, TypeInv, TypeOK, Tasks
    <2> QED
      BY <1>4, <2>2, ReplaceSafe, Shorthands DEF Kept
  <1> QED
    BY <1>1, <1>2, <1>3, <1>4

LEMMA StoppingSafe ==
  ASSUME Safe, Pause \/ Panic \/ WithdrawTransfers
  PROVE  Kept
  <1>1. task["owner"].pc \in {"idle", "transfer"}
    BY DEF Pause, Panic, WithdrawTransfers, Receives, At
  <1>2. CASE Pause
    <2>1. ReplaceLoops("dead", task)
      BY <1>2 DEF Pause, CancelLoops
    <2> QED
      BY <2>1, ReplaceSafe, Shorthands DEF Kept
  <1>3. CASE Panic
    <2> DEFINE r == [Command("panic") EXCEPT !.pc = "panicOut"]
    <2>1. ReplaceLoops("dead", [task EXCEPT !["owner"] = r])
      BY <1>3 DEF Panic, CancelLoops
    <2>2. r.pc = "panicOut"
      BY NewPCs
    <2> HIDE DEF r
    <2> QED
      BY <1>1, <2>1, <2>2, OwnerMoves, Shorthands
  <1>4. CASE WithdrawTransfers
    <2>1. CASE CancelLoops([task EXCEPT !["owner"] = Fresh])
      <3>1. ReplaceLoops("dead", [task EXCEPT !["owner"] = Fresh]) /\ Fresh.pc = "idle"
        BY <2>1, NewPCs DEF CancelLoops
      <3> QED
        BY <1>1, <3>1, OwnerMoves, Shorthands
    <2>2. CASE Set("owner", Fresh) /\ lock' = lock /\ state' = state
      BY <1>1, <2>2, OwnerMoves, NewPCs, Shorthands DEF StateKept
    <2> QED
      BY <1>4, <2>1, <2>2 DEF WithdrawTransfers
  <1> QED
    BY <1>2, <1>3, <1>4

LEMMA SellFirstMoves ==
  ASSUME NEW t \in Tasks, NEW r \in Task, NEW S, NEW last, SellFirst(t, r, S, last)
  PROVE  last \/ \E q : Set(t, q) /\ q.pc = "sellBal"
  <1>1. \A p : Selling(r, p, S \ {p}).pc = "sellBal"
    BY UpdatedPCs
  <1> QED
    BY <1>1 DEF SellFirst

LEMMA SellNextMoves ==
  ASSUME NEW t \in Tasks, NEW r \in Task, NEW S, SellNext(t, r, S)
  PROVE  \E q : Set(t, q) /\ q.pc \in {"idle", "sellBal", "sellNext"}
  <1>1. \A q, p : Selling(r, q, S \ {p}).pc = "sellBal"
    BY UpdatedPCs
  <1>2. \A p : [r EXCEPT !.pc = "sellNext", !.todo = S \ {p}].pc = "sellNext"
    BY UpdatedPCs
  <1>3. CASE S = {}
    BY <1>3, NewPCs DEF SellNext
  <1>4. CASE S # {}
    <2>1. PICK p \in Oldest(S) :
            IF p.sym \in Held
              THEN \E q \in Oldest({x \in positions : x.sym = p.sym}) :
                     Set(t, Selling(r, q, S \ {p}))
              ELSE Set(t, [r EXCEPT !.pc = "sellNext", !.todo = S \ {p}])
      BY <1>4 DEF SellNext
    <2>2. CASE p.sym \in Held
      BY <1>1, <2>1, <2>2
    <2>3. CASE p.sym \notin Held
      BY <1>2, <2>1, <2>3
    <2> QED
      BY <2>2, <2>3
  <1> QED
    BY <1>3, <1>4

LEMMA OwnerSalesSafe ==
  ASSUME Safe, SellSkips \/ OwnerSold \/ PanicLiquidates \/ Withdraw \/ Sell \/ SellAll
  PROVE  Kept
  <1>1. /\ lock' = lock
        /\ task["owner"].pc \in {"sellNext", "sellOut", "panicOut", "idle"}
    BY DEF SellSkips, OwnerSold, PanicLiquidates, Withdraw, Sell, SellAll, Receives, At
  <1>2. StateKept
    BY DEF SellSkips, OwnerSold, PanicLiquidates, Withdraw, Sell, SellAll, StateKept, Emptied,
           Trading
  <1>3. "owner" \in Tasks /\ task["owner"] \in Task
    BY OwnerMoves
  <1>4. \A c \in OwnerCommands : Command(c) \in Task
    BY OwnerMoves
  <1>5. SUFFICES \E q : Set("owner", q) /\ q.pc \in {"idle", "sellBal", "sellNext", "transfer"}
    BY <1>1, <1>2, OwnerMoves, Shorthands
  <1>6. CASE SellSkips
    BY <1>3, <1>6, SellNextMoves DEF SellSkips
  <1>7. CASE SellAll
    BY <1>3, <1>4, <1>7, SellNextMoves DEF SellAll, OwnerCommands
  <1>8. CASE PanicLiquidates
    <2>1. CASE Set("owner", Fresh)
      BY <2>1, NewPCs
    <2> QED
      BY <1>3, <1>8, <2>1, SellFirstMoves DEF PanicLiquidates
  <1>9. CASE Withdraw
    <2> DEFINE r == [Command("withdraw") EXCEPT !.pc = "transfer"]
    <2>1. r.pc = "transfer"
      BY NewPCs
    <2>2. SellFirst("owner", Command("withdraw"), positions, Set("owner", r))
      BY <1>9 DEF Withdraw
    <2> HIDE DEF r
    <2> QED
      BY <1>3, <1>4, <2>1, <2>2, SellFirstMoves DEF OwnerCommands
  <1>10. CASE Sell
    <2>1. \A p : Selling(Command("sell"), p, {}).pc = "sellBal"
      BY <1>4, UpdatedPCs DEF OwnerCommands
    <2> QED
      BY <1>10, <2>1 DEF Sell
  <1>11. CASE OwnerSold
    <2> DEFINE r == task["owner"]
               away == [Fresh EXCEPT !.pc = "transfer", !.cmd = "withdraw"]
    <2>1. away.pc = "transfer" /\ Fresh.pc = "idle"
      BY NewPCs
    <2>2. \/ Set("owner", Fresh)
          \/ SellNext("owner", r, r.todo)
          \/ SellFirst("owner", r, r.todo, Set("owner", away))
          \/ SellFirst("owner", r, r.todo, Set("owner", Fresh))
      BY <1>11 DEF OwnerSold
    <2> HIDE DEF away
    <2> QED
      BY <1>3, <2>1, <2>2, SellFirstMoves, SellNextMoves
  <1> QED
    BY <1>6, <1>7, <1>8, <1>9, <1>10, <1>11

LEMMA OwnerBuysSafe ==
  ASSUME Safe, Start \/ Buy \/ Restart \/ RestartReads \/ ForceBuyGate \/ OwnerValidated \/ Approve
  PROVE  Kept
  <1>1. task["owner"].pc \in {"rsEquity", "fbEquity", "fbValidate", "idle"}
    BY DEF Start, Buy, Restart, RestartReads, ForceBuyGate, OwnerValidated, Approve, Receives, At
  <1>2. StateKept
    BY DEF Start, Buy, Restart, RestartReads, ForceBuyGate, OwnerValidated, Approve, StateKept
  <1>3. "owner" \in Tasks /\ task["owner"] \in Task /\ \A c \in OwnerCommands : Command(c) \in Task
    BY OwnerMoves
  <1>4. ASSUME NEW r, Set("owner", r), lock' = lock,
               r.pc \in {"idle", "recBal", "impRead", "rsEquity", "fbEquity", "fbValidate"}
        PROVE  Kept
    BY <1>1, <1>2, <1>4, OwnerMoves, Shorthands
  <1>5. CASE OwnerValidated
    <2>1. CASE Set("owner", Fresh) /\ lock' = lock
      BY <1>4, <2>1, NewPCs
    <2>2. ASSUME NEW s, OpenBegins("owner", s) PROVE Kept
      BY <1>1, <1>2, <1>3, <2>2, OpeningSafe, Shorthands
    <2> QED
      BY <1>5, <2>1, <2>2 DEF OwnerValidated
  <1>6. CASE Start
    BY <1>3, <1>4, <1>6, ReconcilingPC DEF Start, OwnerCommands
  <1>7. CASE Buy
    <2>1. PICK s \in Symbols : LET r == [Command("buy") EXCEPT !.cands = {s}]
                              IN \/ \E q \in Reconciling(r) : Set("owner", q)
                                 \/ Set("owner", [r EXCEPT !.pc = "fbEquity"])
      BY <1>7 DEF Buy
    <2> DEFINE r == [Command("buy") EXCEPT !.cands = {s}]
    <2>2. r \in Task
      BY <1>3 DEF Task, OwnerCommands
    <2>3. (\E q \in Reconciling(r) : Set("owner", q)) \/ Set("owner", [r EXCEPT !.pc = "fbEquity"])
      BY <2>1
    <2> HIDE DEF r
    <2>4. [r EXCEPT !.pc = "fbEquity"].pc = "fbEquity"
      BY <2>2, UpdatedPCs
    <2>5. lock' = lock
      BY <1>7 DEF Buy
    <2> QED
      BY <1>4, <2>2, <2>3, <2>4, <2>5, ReconcilingPC
  <1>8. CASE Restart
    <2>1. [Command("restart") EXCEPT !.pc = "rsEquity"].pc = "rsEquity"
      BY NewPCs
    <2> QED
      BY <1>4, <1>8, <2>1 DEF Restart
  <1>9. CASE RestartReads
    BY <1>3, <1>4, <1>9, ReconcilingPC DEF RestartReads
  <1>10. CASE ForceBuyGate
    <2>1. [task["owner"] EXCEPT !.pc = "fbValidate"].pc = "fbValidate" /\ Fresh.pc = "idle"
      BY <1>3, NewPCs, UpdatedPCs
    <2> QED
      BY <1>4, <1>10, <2>1 DEF ForceBuyGate
  <1>11. CASE Approve
    <2>1. [Command("approve") EXCEPT !.pc = "fbValidate", !.cands = {pending}].pc = "fbValidate"
      BY NewPCs
    <2> QED
      BY <1>4, <1>11, <2>1 DEF Approve
  <1> QED
    BY <1>5, <1>6, <1>7, <1>8, <1>9, <1>10, <1>11

LEMMA OthersSafe ==
  ASSUME Safe, \/ (\E t \in Tasks : SwapLands(t)) \/ DetachedLands \/ ProposalExpires
               \/ CooldownElapses \/ Reject \/ SetCopilot \/ UNCHANGED vars
  PROVE  Kept
  <1>1. ASSUME NEW t \in Tasks, SwapLands(t) PROVE Kept
    <2>1. PICK out : Set(t, [task[t] EXCEPT !.res = out])
      BY <1>1 DEF SwapLands
    <2> DEFINE r == [task[t] EXCEPT !.res = out]
    <2>2. r.pc = task[t].pc
      BY UpdatedPCs DEF Safe, TypeInv, TypeOK
    <2>3. task[t].pc \in SwapPC /\ lock' = lock /\ StateKept
      BY <1>1 DEF SwapLands, InFlight, StateKept
    <2>4. Set(t, r)
      BY <2>1
    <2> HIDE DEF r
    <2> QED
      BY <2>2, <2>3, <2>4, SetSafe DEF Tidy, Cycling, Kept, SwapPC, Idling
  <1>2. CASE DetachedLands \/ ProposalExpires \/ CooldownElapses \/ Reject \/ SetCopilot
    <2>1. task' = task /\ lock' = lock /\ StateKept
      BY <1>2 DEF DetachedLands, ProposalExpires, CooldownElapses, Reject, SetCopilot, StateKept
    <2> QED
      BY <2>1, StillSafe DEF Kept
  <1>3. CASE UNCHANGED vars
    BY <1>3, StillSafe DEF Kept, vars, StateKept
  <1> QED
    BY <1>1, <1>2, <1>3

LEMMA InitSafe == Init => Safe
  <1> SUFFICES ASSUME Init PROVE Safe
    OBVIOUS
  <1>1. \A t \in Tasks : task[t].pc \in {"dead", "boot", "idle"}
    BY NewPCs DEF Init
  <1>2. task["scan"].pc = "dead"
    BY NewPCs DEF Init, Tasks, Loops
  <1>3. \A t \in Tasks : lock # t
    BY AgentAssumption DEF Init
  <1> QED
    BY <1>1, <1>2, <1>3, InitType DEF Safe, MutexOwnsSwap, ScanOnlyWhileTrading, LockedPC

LEMMA StepSafe == Safe /\ [Next]_vars => Safe'
  <1> SUFFICES ASSUME Safe, [Next]_vars PROVE Kept
    BY StepType DEF Safe, Kept
  <1>1. "owner" \in Handlers /\ "boot" \in Handlers /\ Handlers \subseteq Tasks
    BY DEF Tasks, Handlers
  <1>2. CASE ScanStep
    BY <1>2, ScanSafe
  <1>3. CASE MonitorStep
    BY <1>3, MonitorSafe
  <1>4. CASE BootStep
    BY <1>1, <1>4, ReconcilingSafe, StartingSafe DEF BootStep
  <1>5. CASE OwnerStep
    BY <1>1, <1>5, ReconcilingSafe, BuyingSafe, SellingSafe, StartingSafe, StoppingSafe,
       OwnerSalesSafe, OwnerBuysSafe DEF OwnerStep
  <1>6. CASE OwnerCommand
    BY <1>6, StoppingSafe, OwnerSalesSafe, OwnerBuysSafe, OthersSafe DEF OwnerCommand
  <1>7. CASE \/ (\E t \in Tasks : SwapLands(t)) \/ DetachedLands \/ ProposalExpires
             \/ CooldownElapses \/ UNCHANGED vars
    BY <1>7, OthersSafe
  <1> QED
    BY <1>2, <1>3, <1>4, <1>5, <1>6, <1>7 DEF Next

\* The trade mutex of the risk engine is held by exactly the task that awaits a locked swap,
\* for any number of tokens and whatever the swaps return: a cancelled, failed or retried
\* swap of _open or _sell leaks no lock.
THEOREM MutexCorrect == Spec => []MutexOwnsSwap
  <1>1. Safe => MutexOwnsSwap
    BY DEF Safe
  <1> QED
    BY <1>1, InitSafe, StepSafe, PTL DEF Spec

\* A scan cycle of run_cycle is in progress only while the agent trades: pause, panic and
\* withdraw leave no half-run cycle behind.
THEOREM ScanTradingCorrect == Spec => []ScanOnlyWhileTrading
  <1>1. Safe => ScanOnlyWhileTrading
    BY DEF Safe
  <1> QED
    BY <1>1, InitSafe, StepSafe, PTL DEF Spec

-----------------------------------------------------------------------------
(***************************************************************************)
(* Agent implements Killswitch, for every value of its constants, when the *)
(* process starts for the first time.  (A process restored while it traded *)
(* does not: the boot that resumes may overtake a /panic.)                 *)
(***************************************************************************)

FirstBoot == SavedStates \subseteq {"IDLE"}

\* Why the latch never closes on a cycle that could buy: whoever liquidates has stopped
\* the scan first, and nothing starts it again before the liquidation ends.
PanicPath ==
  /\ task["owner"].pc = "panicOut" => task["owner"].cmd = "panic"
  /\ task["owner"].cmd = "panic" => /\ task["owner"].pc \in {"panicOut"} \cup SellPC
                                    /\ task["scan"].pc = "dead"
BootRests == task["boot"].pc = "idle"

Alone == Safe /\ BootRests /\ PanicPath
AloneKept == BootRests' /\ PanicPath'

PromiseStep == [Promise!Next]_(Promise!vars)

-----------------------------------------------------------------------------
(* What a step does to the tasks it does not run *)

Keeps(u) == task'[u].pc = task[u].pc /\ task'[u].cmd = task[u].cmd
Others(t) == \A u \in Tasks \ {t} : Keeps(u)
SameTrading == state' \in Trading <=> state \in Trading

LEMMA TaskNames ==
  /\ Tasks = {"scan", "monitor", "owner", "boot"}
  /\ Loops = {"scan", "monitor"}
  BY DEF Tasks, Loops, Handlers

LEMMA SetOthers ==
  ASSUME Safe, NEW t \in Tasks, NEW r, Set(t, r)
  PROVE  task'[t] = r /\ Others(t)
  BY DEF Safe, TypeInv, TypeOK, Set, Others, Keeps

LEMMA TakeLockOthers ==
  ASSUME Safe, NEW t \in Tasks, NEW r, TakeLock(t, r)
  PROVE  Others(t) /\ (task'[t] = r \/ task'[t] = task[t])
  <1>1. CASE Set(t, r)
    BY <1>1, SetOthers
  <1>2. CASE UNCHANGED task
    BY <1>2 DEF Others, Keeps
  <1> QED
    BY <1>1, <1>2 DEF TakeLock

LEMMA ReplaceOthers ==
  ASSUME Safe, NEW l, NEW tasks, ReplaceLoops(l, tasks)
  PROVE  /\ task'["scan"].pc = l
         /\ task'["owner"] = tasks["owner"]
         /\ task'["boot"] = tasks["boot"]
  BY TaskNames, NewPCs DEF ReplaceLoops

\* The command under way survives every move of its handler.
LEMMA UpdatedCmds ==
  ASSUME NEW r \in Task
  PROVE  /\ \A l : [r EXCEPT !.pc = l].cmd = r.cmd
         /\ \A l, x : [r EXCEPT !.pc = l, !.res = x].cmd = r.cmd
         /\ \A l, x : [r EXCEPT !.pc = l, !.retried = x].cmd = r.cmd
         /\ \A l, x : [r EXCEPT !.pc = l, !.read = x].cmd = r.cmd
         /\ \A l, x : [r EXCEPT !.pc = l, !.todo = x].cmd = r.cmd
         /\ \A l, x, y : [r EXCEPT !.pc = l, !.read = x, !.res = y].cmd = r.cmd
         /\ \A x : [r EXCEPT !.res = x].cmd = r.cmd
         /\ \A p, S : Selling(r, p, S).cmd = r.cmd
  BY DEF Task, Selling

LEMMA NewCmds ==
  /\ \A l : Parked(l).cmd = "none"
  /\ \A t : Resting(t).cmd = "none"
  /\ \A c : Command(c).cmd = c
  /\ \A l, c : [Command(c) EXCEPT !.pc = l].cmd = c
  /\ \A l, c, s : [Command(c) EXCEPT !.pc = l, !.cands = s].cmd = c
  /\ \A c, s : [Command(c) EXCEPT !.cands = s].cmd = c
  /\ \A l, c : [Fresh EXCEPT !.pc = l, !.cmd = c].cmd = c
  /\ Fresh.cmd = "none"
  BY DEF Parked, Command, Fresh, Resting

LEMMA WalkAtCmd ==
  ASSUME NEW r \in Task, NEW S, NEW i, NEW q \in WalkAt(r, S, i)
  PROVE  q.cmd = r.cmd
  <1>1. CASE i < Cardinality(S)
    BY <1>1 DEF WalkAt, Task
  <1>2. CASE ~(i < Cardinality(S))
    BY <1>2 DEF WalkAt, Task
  <1> QED
    BY <1>1, <1>2

LEMMA ReconcilingCmd ==
  ASSUME NEW r \in Task, NEW q \in Reconciling(r)
  PROVE  q.cmd = r.cmd
  <1> DEFINE x == [r EXCEPT !.live = TRUE]
  <1>1. x \in Task /\ x.cmd = r.cmd
    BY DEF Task
  <1>2. q \in WalkAt(x, positions, 0)
    BY DEF Reconciling
  <1> HIDE DEF x
  <1> QED
    BY <1>1, <1>2, WalkAtCmd

-----------------------------------------------------------------------------
(* The steps that several tasks share *)

LEMMA WalkOnMoves ==
  ASSUME Safe, NEW t \in Tasks, NEW k, NEW g \in BOOLEAN, WalkOn(t, k, g), k \subseteq Position
  PROVE  /\ Others(t)
         /\ task'[t].pc \in {"recBal", "impRead"}
         /\ task'[t].cmd = task[t].cmd
  <1> DEFINE x == [task[t] EXCEPT !.kept = k, !.gone = g]
  <1>1. x \in Task /\ x.cmd = task[t].cmd
    BY DEF Safe, TypeInv, TypeOK, Task
  <1>2. PICK r \in WalkAt(x, Walked(t), task[t].idx + 1) : Rebind(t, r, k) \/ Set(t, r)
    BY DEF WalkOn
  <1> HIDE DEF x
  <1>3. r.pc \in {"recBal", "impRead"} /\ r.cmd = x.cmd
    BY <1>1, WalkAtPC, WalkAtCmd
  <1>4. CASE Set(t, r)
    BY <1>1, <1>3, <1>4, SetOthers
  <1>5. CASE Rebind(t, r, k)
    <2>1. task'[t] = r
      BY <1>5 DEF Rebind
    <2>2. ASSUME NEW u \in Tasks \ {t} PROVE Keeps(u)
      <3>1. task[u] \in Task
        BY DEF Safe, TypeInv, TypeOK
      <3>2. /\ [task[u] EXCEPT !.live = FALSE, !.view = positions].pc = task[u].pc
            /\ [task[u] EXCEPT !.live = FALSE, !.view = positions].cmd = task[u].cmd
        BY <3>1 DEF Task
      <3> QED
        BY <1>5, <3>2 DEF Rebind, Keeps
    <2> QED
      BY <1>1, <1>3, <2>1, <2>2 DEF Others
  <1> QED
    BY <1>2, <1>4, <1>5

RecPC == {"recBal", "recPx", "impRead", "impGot"}

LEMMA ReconcilingMoves ==
  ASSUME Safe, NEW t \in Tasks, ReconcilingSteps(t)
  PROVE  /\ Others(t)
         /\ task[t].pc \in RecPC
         /\ task'[t].pc \in RecPC \cup {"recDone"}
         /\ task'[t].cmd = task[t].cmd
         /\ halted' = halted /\ SameTrading
  <1>1. task[t] \in Task /\ Good(task[t])
    BY DEF Safe, TypeInv, TypeOK
  <1>2. task[t].pc \in RecPC
    BY DEF ReconcilingSteps, ReconcileBalance, ReconcilePrice, ImportReads, ImportApplies, At, RecPC
  <1>3. halted' = halted /\ SameTrading
    BY DEF ReconcilingSteps, ReconcileBalance, ReconcilePrice, ImportReads, ImportApplies,
           SameTrading, Trading
  <1>4. task[t].kept \subseteq Position /\ task[t].gone \in BOOLEAN
    BY <1>1 DEF Task
  <1>5. task[t].pc \in ReconcilePC => task[t].cur \in Position
    BY <1>1 DEF Good
  <1>6. /\ Others(t)
        /\ task'[t].pc \in RecPC \cup {"recDone"}
        /\ task'[t].cmd = task[t].cmd
    <2>1. CASE ReconcileBalance(t)
      <3> DEFINE r == [task[t] EXCEPT !.pc = "recPx", !.read = wallet \cap {task[t].cur.sym}]
      <3>a. r.pc = "recPx" /\ r.cmd = task[t].cmd
        BY <1>1, UpdatedPCs, UpdatedCmds
      <3> HIDE DEF r
      <3>1. CASE Set(t, r)
        BY <3>a, <3>1, SetOthers DEF RecPC
      <3>2. CASE WalkOn(t, task[t].kept \cup {task[t].cur}, task[t].gone)
        <4>1. task[t].cur \in Position
          BY <1>5, <2>1 DEF ReconcileBalance, At, ReconcilePC
        <4> QED
          BY <1>4, <3>2, <4>1, WalkOnMoves DEF RecPC
      <3> QED
        BY <2>1, <3>1, <3>2 DEF ReconcileBalance, r
    <2>2. CASE ReconcilePrice(t)
      <3>1. task[t].cur \in Position
        BY <1>5, <2>2 DEF ReconcilePrice, At, ReconcilePC
      <3>2. \/ WalkOn(t, task[t].kept \cup {task[t].cur}, task[t].gone)
            \/ WalkOn(t, task[t].kept, TRUE)
        BY <2>2 DEF ReconcilePrice
      <3>3. task[t].kept \cup {task[t].cur} \subseteq Position
        BY <1>4, <3>1
      <3>4. CASE WalkOn(t, task[t].kept \cup {task[t].cur}, task[t].gone)
        BY <1>4, <3>3, <3>4, WalkOnMoves DEF RecPC
      <3>5. CASE WalkOn(t, task[t].kept, TRUE)
        BY <1>4, <3>5, WalkOnMoves DEF RecPC
      <3> QED
        BY <3>2, <3>4, <3>5
    <2>3. CASE ImportReads(t)
      <3>1. PICK w : Set(t, [task[t] EXCEPT !.pc = "impGot", !.read = w])
        BY <2>3 DEF ImportReads
      <3> DEFINE r == [task[t] EXCEPT !.pc = "impGot", !.read = w]
      <3>2. r.pc = "impGot" /\ r.cmd = task[t].cmd /\ Set(t, r)
        BY <1>1, <3>1, UpdatedPCs, UpdatedCmds
      <3> HIDE DEF r
      <3> QED
        BY <3>2, SetOthers DEF RecPC
    <2>4. CASE ImportApplies(t)
      <3> DEFINE r == [task[t] EXCEPT !.pc = "recDone", !.read = {}]
      <3>1. r.pc = "recDone" /\ r.cmd = task[t].cmd /\ Set(t, r)
        BY <1>1, <2>4, UpdatedPCs, UpdatedCmds DEF ImportApplies
      <3> HIDE DEF r
      <3> QED
        BY <3>1, SetOthers DEF RecPC
    <2> QED
      BY <2>1, <2>2, <2>3, <2>4 DEF ReconcilingSteps
  <1> QED
    BY <1>2, <1>3, <1>6

\* A purchase keeps its task committed, or ends it, perhaps with a position.
LEMMA OpenFailedMoves ==
  ASSUME Safe, NEW t \in Tasks, OpenFailed(t)
  PROVE  /\ Others(t)
         /\ task'[t].cmd = "none"
         /\ task'[t].pc \in {"top", "idle"} \/ (t = "scan" /\ task'[t].pc = "validate")
  <1>1. CASE t = "scan" /\ task[t].cands # {}
    <2> DEFINE r == [Parked("validate") EXCEPT !.cands = task[t].cands]
    <2>1. r.pc = "validate" /\ r.cmd = "none" /\ Set(t, r)
      BY <1>1, NewPCs DEF OpenFailed, Parked, Fresh
    <2> HIDE DEF r
    <2> QED
      BY <1>1, <2>1, SetOthers
  <1>2. CASE ~(t = "scan" /\ task[t].cands # {})
    <2>1. Set(t, Resting(t))
      BY <1>2 DEF OpenFailed
    <2> QED
      BY <2>1, SetOthers, Shorthands, NewCmds
  <1> QED
    BY <1>1, <1>2

LEMMA BuyingMoves ==
  ASSUME Safe, NEW t \in Tasks, Buying(t)
  PROVE  /\ Others(t)
         /\ task[t].pc \in BuyingPC
         /\ task'[t].cmd \in {task[t].cmd, "none"}
         /\ halted' = halted
         /\ \/ /\ SameTrading
               /\ \/ task'[t].pc \in BuyingPC
                  \/ task'[t].pc = "validate" /\ t = "scan"
                  \/ task'[t].pc = Resting(t).pc
            \/ state' \in Trading /\ task'[t].pc = Resting(t).pc
  <1>1. task[t] \in Task
    BY DEF Safe, TypeInv, TypeOK
  <1>2. task[t].pc \in BuyingPC /\ halted' = halted
    BY DEF Buying, BuySwapReturns, BuyRetries, BuyPriceReturns, At, BuyingPC
  <1>3. CASE Opened(t)
    BY <1>2, <1>3, SetOthers, NewCmds DEF Opened, Trading
  <1>4. CASE state' = state /\ Set(t, Resting(t))
    BY <1>2, <1>4, SetOthers, NewCmds DEF SameTrading
  <1>5. CASE state' = state /\ OpenFailed(t)
    <2>1. t = "scan" => task'[t].pc # "idle"
      <3>1. t = "scan" => Resting(t).pc = "top"
        BY NewPCs, TaskNames
      <3>2. [Parked("validate") EXCEPT !.cands = task[t].cands].pc = "validate"
        BY NewPCs
      <3> QED
        BY <1>5, <3>1, <3>2, SetOthers DEF OpenFailed
    <2>2. t # "scan" => task'[t].pc = Resting(t).pc
      BY <1>5, SetOthers DEF OpenFailed
    <2>3. t = "scan" => Resting(t).pc = "top"
      BY NewPCs, TaskNames
    <2> QED
      BY <1>2, <1>5, <2>1, <2>2, <2>3, OpenFailedMoves DEF SameTrading
  <1> DEFINE again == [task[t] EXCEPT !.pc = "buyWait", !.retried = TRUE]
             bought == [task[t] EXCEPT !.pc = "buyPx"]
             retry == [task[t] EXCEPT !.pc = "buySwap", !.res = "none"]
  <1>6. /\ again.pc = "buyWait" /\ bought.pc = "buyPx" /\ retry.pc = "buySwap"
        /\ again.cmd = task[t].cmd /\ bought.cmd = task[t].cmd /\ retry.cmd = task[t].cmd
    BY <1>1, UpdatedPCs, UpdatedCmds
  <1> HIDE DEF again, bought, retry
  <1>7. CASE state' = state /\ (Set(t, again) \/ Set(t, bought))
    BY <1>2, <1>6, <1>7, SetOthers DEF SameTrading, BuyingPC
  <1>8. CASE state' = state /\ TakeLock(t, retry)
    BY <1>2, <1>6, <1>8, TakeLockOthers DEF SameTrading, BuyingPC
  <1>9. CASE BuySwapReturns(t)
    BY <1>3, <1>4, <1>5, <1>7, <1>9 DEF BuySwapReturns, again, bought
  <1>10. CASE BuyRetries(t)
    BY <1>8, <1>10 DEF BuyRetries, retry
  <1>11. CASE BuyPriceReturns(t)
    BY <1>3, <1>4, <1>11 DEF BuyPriceReturns
  <1> QED
    BY <1>9, <1>10, <1>11 DEF Buying

LEMMA SellingMoves ==
  ASSUME Safe, NEW t \in Tasks, SellingSteps(t)
  PROVE  /\ Others(t)
         /\ halted' = halted /\ SameTrading
         /\ \/ task'[t].pc \in SellPC /\ task'[t].cmd = task[t].cmd
            \/ task'[t].pc \in {"top", "idle"} /\ task'[t].cmd = "none"
  <1>1. task[t] \in Task
    BY DEF Safe, TypeInv, TypeOK
  <1>2. halted' = halted /\ SameTrading
    BY DEF SellingSteps, SellBalance, SellGoes, SellSwapReturns, SellRetries, SameTrading
  <1>3. ASSUME NEW r, r.pc \in SellPC, r.cmd = task[t].cmd, task[t].pc \in SellPC,
               Set(t, r) \/ TakeLock(t, r)
        PROVE  Others(t) /\ task'[t].pc \in SellPC /\ task'[t].cmd = task[t].cmd
    BY <1>3, SetOthers, TakeLockOthers
  <1>4. CASE Set(t, Resting(t))
    BY <1>2, <1>4, SetOthers, Shorthands, NewCmds
  <1>5. task[t].pc \in SellPC
    BY DEF SellingSteps, SellBalance, SellGoes, SellSwapReturns, SellRetries, At, SellPC
  <1> DEFINE x == [task[t] EXCEPT !.pc = "sellSwap", !.read = {}]
             dust == [task[t] EXCEPT !.pc = "sellOut", !.read = {}, !.res = "dust"]
             again == [task[t] EXCEPT !.pc = "sellWait", !.retried = TRUE]
             failed == [task[t] EXCEPT !.pc = "sellOut", !.res = "fail"]
             sold == [task[t] EXCEPT !.pc = "sellOut"]
             retry == [task[t] EXCEPT !.pc = "sellSwap", !.res = "none"]
  <1>6. /\ x.pc = "sellSwap" /\ dust.pc = "sellOut" /\ again.pc = "sellWait"
        /\ failed.pc = "sellOut" /\ sold.pc = "sellOut" /\ retry.pc = "sellSwap"
        /\ \A y \in {x, dust, again, failed, sold, retry} : y.cmd = task[t].cmd
    BY <1>1, UpdatedPCs, UpdatedCmds
  <1> HIDE DEF x, dust, again, failed, sold, retry
  <1>7. CASE SellBalance(t)
    <2>1. PICK w : Set(t, [task[t] EXCEPT !.pc = "sellDec", !.read = w])
      BY <1>7 DEF SellBalance
    <2> DEFINE r == [task[t] EXCEPT !.pc = "sellDec", !.read = w]
    <2>2. r.pc = "sellDec" /\ r.cmd = task[t].cmd /\ Set(t, r)
      BY <1>1, <2>1, UpdatedPCs, UpdatedCmds
    <2> HIDE DEF r
    <2> QED
      BY <1>2, <1>3, <1>5, <2>2 DEF SellPC
  <1>8. CASE SellGoes(t)
    <2>1. TakeLock(t, x) \/ Set(t, dust)
      BY <1>8 DEF SellGoes, x, dust
    <2> QED
      BY <1>2, <1>3, <1>5, <1>6, <2>1 DEF SellPC
  <1>9. CASE SellSwapReturns(t)
    <2>1. Set(t, again) \/ Set(t, failed) \/ Set(t, sold) \/ Set(t, Resting(t))
      BY <1>9 DEF SellSwapReturns, again, failed, sold
    <2> QED
      BY <1>2, <1>3, <1>4, <1>5, <1>6, <2>1 DEF SellPC
  <1>10. CASE SellRetries(t)
    <2>1. TakeLock(t, retry)
      BY <1>10 DEF SellRetries, retry
    <2> QED
      BY <1>2, <1>3, <1>5, <1>6, <2>1 DEF SellPC
  <1> QED
    BY <1>7, <1>8, <1>9, <1>10 DEF SellingSteps

-----------------------------------------------------------------------------
(* What the abstract killswitch sees *)

LEMMA Quiet ==
  ASSUME Keeps("scan"), halted' = halted, SameTrading
  PROVE  PromiseStep
  BY DEF PromiseStep, Promise!vars, Keeps, SameTrading

LEMMA Resumed ==
  ASSUME Keeps("scan"), halted' = halted, state' \in Trading
  PROVE  PromiseStep
  BY DEF PromiseStep, Promise!Next, Promise!Resumes, Keeps

LEMMA Ended ==
  ASSUME task'["scan"].pc \in Idling, halted' = halted, SameTrading \/ state' \in Trading
  PROVE  PromiseStep
  <1>1. \/ (state' \in Trading) = (state \in Trading)
        \/ (state' \in Trading) = TRUE
    BY DEF SameTrading
  <1>2. Promise!Ends
    BY <1>1 DEF Promise!Ends, Idling, Trading
  <1> QED
    BY <1>2 DEF PromiseStep, Promise!Next

LEMMA Stopped ==
  ASSUME task'["scan"].pc \in Idling, state' \notin Trading, halted' = halted \/ halted' = TRUE
  PROVE  PromiseStep
  <1>1. (state' \in Trading) = FALSE
    OBVIOUS
  <1>2. Promise!Stops
    BY <1>1 DEF Promise!Stops, Idling, Trading
  <1> QED
    BY <1>2 DEF PromiseStep, Promise!Next

LEMMA Latched ==
  ASSUME Keeps("scan"), task["scan"].pc = "dead", halted' = TRUE, SameTrading
  PROVE  PromiseStep
  BY DEF PromiseStep, Promise!Next, Promise!Latches, Keeps, SameTrading

\* A cycle goes on: it looks, or stays committed.
LEMMA Going ==
  ASSUME halted' = halted, SameTrading,
         \/ /\ task["scan"].pc \notin Idling \cup Committed
            /\ task'["scan"].pc \notin Idling \cup Committed
         \/ task["scan"].pc \in Committed /\ task'["scan"].pc \in Committed
  PROVE  PromiseStep
  BY DEF PromiseStep, Promise!vars, Idling, Committed, BuyingPC, SameTrading

LEMMA Commits ==
  ASSUME ~halted, halted' = halted, SameTrading,
         task["scan"].pc \notin Idling \cup Committed, task'["scan"].pc \in Committed
  PROVE  PromiseStep
  BY DEF PromiseStep, Promise!Next, Promise!Commits, Idling, Committed, BuyingPC, SameTrading

LEMMA Classes ==
  /\ Idling = {"dead", "top"}
  /\ Committed = {"brain", "validate", "buySwap", "buyWait", "buyPx"}
  /\ BuyingPC = {"buySwap", "buyWait", "buyPx"}
  BY DEF Idling, Committed, BuyingPC

-----------------------------------------------------------------------------
(* The scan *)

LEMMA ScanMoves ==
  ASSUME Safe, ScanStep
  PROVE  PromiseStep /\ Keeps("owner") /\ Keeps("boot") /\ task["scan"].pc # "dead"
  <1>1. "scan" \in Tasks /\ "owner" \in Tasks \ {"scan"} /\ "boot" \in Tasks \ {"scan"}
    BY TaskNames
  <1>2. ASSUME NEW r, Set("scan", r), task["scan"].pc # "dead",
               r.pc = task'["scan"].pc => PromiseStep
        PROVE  PromiseStep /\ Keeps("owner") /\ Keeps("boot") /\ task["scan"].pc # "dead"
    BY <1>1, <1>2, SetOthers DEF Others
  <1>3. task["scan"] \in Task
    BY <1>1 DEF Safe, TypeInv, TypeOK
  <1>4. CASE ScanWakes
    <2> DEFINE r == Parked(IF state \in Trading THEN "equity" ELSE "dead")
    <2>1. /\ task["scan"].pc = "top" /\ Set("scan", r) /\ halted' = halted /\ SameTrading
          /\ state' = state
      BY <1>4 DEF ScanWakes, At, SameTrading
    <2>2. r.pc = IF state \in Trading THEN "equity" ELSE "dead"
      BY NewPCs
    <2> HIDE DEF r
    <2>3. task'["scan"] = r
      BY <1>1, <2>1, SetOthers
    <2>4. PromiseStep
      BY <2>1, <2>2, <2>3, Classes, Ended
         DEF PromiseStep, Promise!Next, Promise!Begins, ReconcilePC
    <2> QED
      BY <1>2, <2>1, <2>4
  <1>5. CASE ScanEquity
    <2>1. PICK r : Set("scan", r) /\ r.pc \in {"top", "recBal", "impRead"}
      BY <1>3, <1>5, NewPCs, ReconcilingPC DEF ScanEquity
    <2>2. task["scan"].pc = "equity" /\ halted' = halted /\ SameTrading
      BY <1>5 DEF ScanEquity, At, SameTrading
    <2>3. PromiseStep
      BY <1>1, <2>1, <2>2, SetOthers, Ended, Going, Classes
    <2> QED
      BY <1>2, <2>1, <2>2, <2>3
  <1>6. CASE ReconcilingSteps("scan")
    BY <1>1, <1>6, ReconcilingMoves, Going, Classes DEF Others, RecPC
  <1>7. CASE ScanPanics
    <2>1. ReplaceLoops("dead", task) /\ halted' = halted /\ state' \notin Trading
      BY <1>7 DEF ScanPanics, CancelLoops, Trading
    <2>2. task["scan"].pc = "recDone"
      BY <1>7 DEF ScanPanics, At
    <2> QED
      BY <2>1, <2>2, ReplaceOthers, Stopped, Classes DEF Keeps
  <1>8. CASE ScanAnomaly
    <2>1. /\ Set("scan", Parked("top")) /\ task["scan"].pc = "recDone" /\ halted' = TRUE
          /\ state' \notin Trading
      BY <1>8 DEF ScanAnomaly, At, Trading
    <2>2. PromiseStep
      BY <1>1, <2>1, SetOthers, NewPCs, Stopped, Classes
    <2> QED
      BY <1>2, <2>1, <2>2
  <1>9. CASE ScanHeartbeat \/ HeartbeatReturns \/ ScanAnalyses
    <2>1. /\ task["scan"].pc \in {"recDone", "hbSwap"} /\ halted' = halted /\ SameTrading
          /\ \E l \in {"hbSwap", "market"} : Set("scan", Parked(l))
      BY <1>9 DEF ScanHeartbeat, HeartbeatReturns, ScanAnalyses, At, SameTrading
    <2>2. PICK r : Set("scan", r) /\ r.pc \in {"hbSwap", "market"}
      BY <2>1, NewPCs
    <2>3. PromiseStep
      BY <1>1, <2>1, <2>2, SetOthers, Going, Classes
    <2> QED
      BY <1>2, <2>1, <2>2, <2>3
  <1>10. CASE ScanGate
    <2>1. /\ task["scan"].pc = "market" /\ halted' = halted /\ SameTrading
          /\ \/ Set("scan", Parked("top"))
             \/ ~halted /\ Set("scan", Parked("brain"))
      BY <1>10 DEF ScanGate, GateAllows, At, SameTrading
    <2>2. PICK r : Set("scan", r) /\ (r.pc = "top" \/ (~halted /\ r.pc = "brain"))
      BY <2>1, NewPCs
    <2>3. PromiseStep
      BY <1>1, <2>1, <2>2, SetOthers, Ended, Commits, Classes
    <2> QED
      BY <1>2, <2>1, <2>2, <2>3
  <1>11. CASE ScanPicks
    <2>1. PICK c : Set("scan", IF c = {} THEN Parked("top")
                               ELSE [Parked("validate") EXCEPT !.cands = c])
      BY <1>11 DEF ScanPicks
    <2>2. [Parked("validate") EXCEPT !.cands = c].pc = "validate" /\ Parked("top").pc = "top"
      BY NewPCs
    <2>3. PICK r : Set("scan", r) /\ r.pc \in {"top", "validate"}
      <3>1. CASE c = {}
        BY <2>1, <2>2, <3>1
      <3>2. CASE c # {}
        BY <2>1, <2>2, <3>2
      <3> QED
        BY <3>1, <3>2
    <2>4. task["scan"].pc = "brain" /\ halted' = halted /\ SameTrading
      BY <1>11 DEF ScanPicks, At, SameTrading
    <2>5. PromiseStep
      BY <1>1, <2>3, <2>4, SetOthers, Ended, Going, Classes
    <2> QED
      BY <1>2, <2>3, <2>4, <2>5
  <1>12. CASE ScanValidates
    <2>1. task["scan"].pc = "validate" /\ halted' = halted /\ SameTrading
      BY <1>12 DEF ScanValidates, At, SameTrading
    <2>2. PICK s \in task["scan"].cands :
            \/ Set("scan", IF task["scan"].cands \ {s} = {} THEN Parked("top")
                          ELSE [Parked("validate") EXCEPT !.cands = task["scan"].cands \ {s}])
            \/ Set("scan", Parked("top"))
            \/ OpenBegins("scan", s)
      BY <1>12 DEF ScanValidates
    <2>3. CASE OpenBegins("scan", s)
      <3> DEFINE r == [task["scan"] EXCEPT !.pc = "buySwap", !.cur = Ticket(s),
                         !.res = "none", !.retried = FALSE, !.cands = @ \ {s}]
      <3>1. r.pc = "buySwap" /\ TakeLock("scan", r)
        BY <1>3, <2>3 DEF OpenBegins, Task
      <3> HIDE DEF r
      <3>2. Others("scan") /\ task'["scan"].pc \in {"buySwap", "validate"}
        BY <1>1, <2>1, <3>1, TakeLockOthers
      <3>3. PromiseStep
        BY <2>1, <3>2, Going, Classes
      <3> QED
        BY <1>1, <2>1, <3>2, <3>3 DEF Others
    <2>4. CASE ~OpenBegins("scan", s)
      <3> DEFINE rest == task["scan"].cands \ {s}
      <3>a. [Parked("validate") EXCEPT !.cands = rest].pc = "validate" /\ Parked("top").pc = "top"
        BY NewPCs
      <3>1. PICK r : Set("scan", r) /\ r.pc \in {"top", "validate"}
        <4>1. \/ Set("scan", Parked("top"))
              \/ Set("scan", [Parked("validate") EXCEPT !.cands = rest])
          BY <2>2, <2>4
        <4> QED
          BY <3>a, <4>1
      <3>2. PromiseStep
        BY <1>1, <2>1, <3>1, SetOthers, Ended, Going, Classes
      <3> QED
        BY <1>2, <2>1, <3>1, <3>2
    <2> QED
      BY <2>3, <2>4
  <1>13. CASE Buying("scan")
    <2>1. Resting("scan").pc = "top"
      BY NewPCs, TaskNames
    <2> QED
      BY <1>1, <1>13, <2>1, BuyingMoves, Ended, Going, Classes DEF Others
  <1> QED
    BY <1>4, <1>5, <1>6, <1>7, <1>8, <1>9, <1>10, <1>11, <1>12, <1>13 DEF ScanStep

-----------------------------------------------------------------------------
(* The other tasks *)

LEMMA MonitorMoves ==
  ASSUME Safe, MonitorStep
  PROVE  Others("monitor") /\ halted' = halted /\ SameTrading
  <1>1. "monitor" \in Tasks
    BY TaskNames
  <1>2. CASE SellingSteps("monitor")
    BY <1>1, <1>2, SellingMoves
  <1>3. CASE MonitorWakes \/ MonitorTick \/ MonitorSold
    <2>1. halted' = halted /\ SameTrading
      BY <1>3 DEF MonitorWakes, MonitorTick, MonitorSold, CheckNext, Emptied, SameTrading, Trading
    <2>2. \E r : Set("monitor", r)
      BY <1>3 DEF MonitorWakes, MonitorTick, MonitorSold, CheckNext
    <2> QED
      BY <1>1, <2>1, <2>2, SetOthers
  <1> QED
    BY <1>2, <1>3 DEF MonitorStep

\* On a first boot nothing resumes.
LEMMA BootStill == BootRests => ~BootStep
  BY DEF BootRests, BootStep, BootResumes, ReconcilingSteps, ReconcileBalance, ReconcilePrice,
         ImportReads, ImportApplies, StartDone, Announced, At

\* A handler that does not liquidate leaves the path of the panic alone.
LEMMA OwnerElsewhere ==
  ASSUME Alone, Keeps("boot"), task'["owner"].pc # "panicOut", task'["owner"].cmd # "panic"
  PROVE  AloneKept
  BY DEF Alone, AloneKept, BootRests, PanicPath, Keeps

\* The owner's handler moves by itself; r is what it becomes.
LEMMA OwnerSets ==
  ASSUME Alone, NEW r, Set("owner", r), r.pc # "panicOut", r.cmd # "panic"
  PROVE  AloneKept /\ Keeps("scan")
  <1>1. Others("owner") /\ task'["owner"] = r
    BY TaskNames, SetOthers DEF Alone
  <1> QED
    BY <1>1, OwnerElsewhere, TaskNames DEF Others

LEMMA OwnerShared ==
  ASSUME Alone, ReconcilingSteps("owner") \/ Buying("owner") \/ SellingSteps("owner")
  PROVE  PromiseStep /\ AloneKept
  <1>1. "owner" \in Tasks /\ Safe
    BY TaskNames DEF Alone
  <1>2. Resting("owner").pc = "idle"
    BY NewPCs, TaskNames
  <1>3. CASE ReconcilingSteps("owner")
    <2>1. Keeps("scan") /\ Keeps("boot")
      BY <1>1, <1>3, ReconcilingMoves, TaskNames DEF Others
    <2>2. task'["owner"].pc # "panicOut" /\ task'["owner"].cmd # "panic"
      BY <1>1, <1>3, ReconcilingMoves DEF Alone, PanicPath, RecPC, SellPC
    <2> QED
      BY <1>1, <1>3, <2>1, <2>2, ReconcilingMoves, Quiet, OwnerElsewhere
  <1>4. CASE Buying("owner")
    <2>1. Keeps("scan") /\ Keeps("boot")
      BY <1>1, <1>4, BuyingMoves, TaskNames DEF Others
    <2>2. task'["owner"].pc # "panicOut" /\ task'["owner"].cmd # "panic"
      BY <1>1, <1>2, <1>4, BuyingMoves DEF Alone, PanicPath, BuyingPC, SellPC
    <2>3. halted' = halted /\ (SameTrading \/ state' \in Trading)
      BY <1>1, <1>4, BuyingMoves
    <2> QED
      BY <2>1, <2>2, <2>3, Quiet, Resumed, OwnerElsewhere
  <1>5. CASE SellingSteps("owner")
    <2>1. Keeps("scan") /\ Keeps("boot")
      BY <1>1, <1>5, SellingMoves, TaskNames DEF Others
    <2>2. AloneKept
      BY <1>1, <1>5, <2>1, SellingMoves DEF Alone, AloneKept, BootRests, PanicPath, SellPC, Keeps
    <2> QED
      BY <1>1, <1>5, <2>1, <2>2, SellingMoves, Quiet
  <1> QED
    BY <1>3, <1>4, <1>5

LEMMA OwnerStarts ==
  ASSUME Alone, \/ StartDone("owner") \/ Announced("owner") \/ RestartReads \/ ForceBuyGate
                \/ OwnerValidated \/ Start \/ Buy \/ Restart \/ Approve
  PROVE  PromiseStep /\ AloneKept
  <1>1. "owner" \in Tasks /\ Safe /\ task["owner"] \in Task
    BY TaskNames DEF Alone, Safe, TypeInv, TypeOK
  <1>2. task["owner"].cmd # "panic"
    BY DEF StartDone, Announced, RestartReads, ForceBuyGate, OwnerValidated, Start, Buy, Restart,
           Approve, Receives, At, Alone, PanicPath, SellPC
  <1>3. ASSUME NEW r, Set("owner", r), r.pc # "panicOut", r.cmd # "panic", halted' = halted,
               state' = state \/ state' \in Trading
        PROVE  PromiseStep /\ AloneKept
    BY <1>3, OwnerSets, Quiet, Resumed DEF SameTrading
  <1>4. \A c \in OwnerCommands : Command(c) \in Task
    BY FreshTyped DEF PCs, HandlerPC
  <1>5. ASSUME NEW r \in Task, r.cmd # "panic", NEW q \in Reconciling(r), Set("owner", q),
               halted' = halted, state' = state
        PROVE  PromiseStep /\ AloneKept
    <2>1. q.pc # "panicOut" /\ q.cmd # "panic"
      BY <1>5, ReconcilingPC, ReconcilingCmd
    <2> QED
      BY <1>3, <1>5, <2>1
  <1>6. CASE StartDone("owner")
    <2> DEFINE r == [Command(task["owner"].cmd) EXCEPT !.pc = "announce",
                                                       !.cands = task["owner"].cands]
    <2>1. r.pc = "announce" /\ r.cmd = task["owner"].cmd
      BY NewPCs, NewCmds
    <2>2. Set("owner", r) /\ halted' = halted /\ state' \in Trading
      BY <1>6 DEF StartDone, Trading
    <2> HIDE DEF r
    <2> QED
      BY <1>2, <1>3, <2>1, <2>2
  <1>7. CASE Announced("owner")
    <2> DEFINE r == IF task["owner"].cmd = "buy" THEN [task["owner"] EXCEPT !.pc = "fbEquity"]
                                                 ELSE Fresh
               tasks == [task EXCEPT !["owner"] = r]
    <2>1. r.pc \in {"fbEquity", "idle"} /\ r.cmd # "panic"
      BY <1>1, <1>2, NewPCs, NewCmds, UpdatedPCs, UpdatedCmds
    <2>2. ReplaceLoops("top", tasks) /\ halted' = halted /\ state' = state
      BY <1>7 DEF Announced, StartLoops, Safe, TypeInv, TypeOK
    <2> HIDE DEF r
    <2>3. tasks["owner"] = r /\ tasks["boot"] = task["boot"]
      BY TaskNames DEF Alone, Safe, TypeInv, TypeOK
    <2> HIDE DEF tasks
    <2>4. task'["owner"] = r /\ Keeps("boot") /\ task'["scan"].pc = "top"
      BY <1>1, <2>2, <2>3, ReplaceOthers DEF Keeps
    <2> QED
      BY <2>1, <2>2, <2>4, OwnerElsewhere, Ended, Classes DEF SameTrading
  <1>8. CASE RestartReads
    BY <1>1, <1>2, <1>5, <1>8 DEF RestartReads
  <1>9. CASE ForceBuyGate
    <2> DEFINE r == [task["owner"] EXCEPT !.pc = "fbValidate"]
    <2>1. r.pc = "fbValidate" /\ r.cmd # "panic"
      BY <1>1, <1>2, UpdatedPCs, UpdatedCmds
    <2>2. (Set("owner", Fresh) \/ Set("owner", r)) /\ halted' = halted /\ state' = state
      BY <1>9 DEF ForceBuyGate
    <2> HIDE DEF r
    <2> QED
      BY <1>3, <2>1, <2>2, NewPCs, NewCmds
  <1>10. CASE OwnerValidated
    <2>1. halted' = halted /\ state' = state /\ task["owner"].pc = "fbValidate"
      BY <1>10 DEF OwnerValidated, At
    <2>2. CASE Set("owner", Fresh)
      BY <1>3, <2>1, <2>2, NewPCs, NewCmds
    <2>3. ASSUME NEW s, OpenBegins("owner", s) PROVE PromiseStep /\ AloneKept
      <3> DEFINE r == [task["owner"] EXCEPT !.pc = "buySwap", !.cur = Ticket(s),
                         !.res = "none", !.retried = FALSE, !.cands = @ \ {s}]
      <3>1. r.pc = "buySwap" /\ r.cmd = task["owner"].cmd /\ TakeLock("owner", r)
        BY <1>1, <2>3 DEF OpenBegins, Task
      <3> HIDE DEF r
      <3>2. Others("owner") /\ (task'["owner"] = r \/ task'["owner"] = task["owner"])
        BY <1>1, <3>1, TakeLockOthers
      <3>3. Keeps("scan") /\ Keeps("boot")
        BY <3>2, TaskNames DEF Others
      <3> QED
        BY <1>2, <2>1, <3>1, <3>2, <3>3, OwnerElsewhere, Quiet DEF SameTrading
    <2> QED
      BY <1>10, <2>2, <2>3 DEF OwnerValidated
  <1>11. CASE Start
    BY <1>4, <1>5, <1>11, NewCmds DEF Start, OwnerCommands
  <1>12. CASE Buy
    <2>1. PICK sym \in Symbols : LET r == [Command("buy") EXCEPT !.cands = {sym}]
                   IN \/ \E q \in Reconciling(r) : Set("owner", q)
                      \/ Set("owner", [r EXCEPT !.pc = "fbEquity"])
      BY <1>12 DEF Buy
    <2> DEFINE r == [Command("buy") EXCEPT !.cands = {sym}]
    <2>2. r \in Task /\ r.cmd = "buy"
      BY <1>4, NewCmds DEF Task, OwnerCommands
    <2>3. (\E q \in Reconciling(r) : Set("owner", q)) \/ Set("owner", [r EXCEPT !.pc = "fbEquity"])
      BY <2>1
    <2> HIDE DEF r
    <2>4. [r EXCEPT !.pc = "fbEquity"].pc = "fbEquity" /\ [r EXCEPT !.pc = "fbEquity"].cmd = "buy"
      BY <2>2, UpdatedPCs, UpdatedCmds
    <2>5. halted' = halted /\ state' = state
      BY <1>12 DEF Buy
    <2>6. CASE Set("owner", [r EXCEPT !.pc = "fbEquity"])
      <3> DEFINE q == [r EXCEPT !.pc = "fbEquity"]
      <3>1. Set("owner", q) /\ q.pc = "fbEquity" /\ q.cmd = "buy"
        BY <2>4, <2>6
      <3> HIDE DEF q
      <3> QED
        BY <1>3, <2>5, <3>1
    <2> QED
      BY <1>5, <2>2, <2>3, <2>5, <2>6
  <1>13. CASE Restart
    <2> DEFINE r == [Command("restart") EXCEPT !.pc = "rsEquity"]
    <2>1. r.pc = "rsEquity" /\ r.cmd = "restart"
      BY NewPCs, NewCmds
    <2>2. Set("owner", r) /\ halted' = FALSE /\ state' = state
      BY <1>13 DEF Restart
    <2> HIDE DEF r
    <2>3. AloneKept /\ Keeps("scan")
      BY <2>1, <2>2, OwnerSets
    <2> QED
      BY <2>2, <2>3 DEF PromiseStep, Promise!Next, Promise!Unlatches, Keeps
  <1>14. CASE Approve
    <2> DEFINE r == [Command("approve") EXCEPT !.pc = "fbValidate", !.cands = {pending}]
    <2>1. r.pc = "fbValidate" /\ r.cmd = "approve"
      BY NewPCs, NewCmds
    <2>2. Set("owner", r) /\ halted' = halted /\ state' = state
      BY <1>14 DEF Approve
    <2> HIDE DEF r
    <2> QED
      BY <1>3, <2>1, <2>2
  <1> QED
    BY <1>6, <1>7, <1>8, <1>9, <1>10, <1>11, <1>12, <1>13, <1>14

LEMMA SellFirstCmd ==
  ASSUME NEW r \in Task, NEW S, NEW last, SellFirst("owner", r, S, last)
  PROVE  last \/ \E q : Set("owner", q) /\ q.pc = "sellBal" /\ q.cmd = r.cmd
  <1>1. \A p : Selling(r, p, S \ {p}).pc = "sellBal" /\ Selling(r, p, S \ {p}).cmd = r.cmd
    BY UpdatedPCs, UpdatedCmds
  <1> QED
    BY <1>1 DEF SellFirst

LEMMA SellNextCmd ==
  ASSUME NEW r \in Task, NEW S, SellNext("owner", r, S)
  PROVE  \E q : /\ Set("owner", q) /\ q.pc \in {"idle", "sellBal", "sellNext"}
                /\ q.cmd \in {r.cmd, "none"}
  <1>1. \A q, p : Selling(r, q, S \ {p}).pc = "sellBal" /\ Selling(r, q, S \ {p}).cmd = r.cmd
    BY UpdatedPCs, UpdatedCmds
  <1>2. \A p : /\ [r EXCEPT !.pc = "sellNext", !.todo = S \ {p}].pc = "sellNext"
               /\ [r EXCEPT !.pc = "sellNext", !.todo = S \ {p}].cmd = r.cmd
    BY UpdatedPCs, UpdatedCmds
  <1>3. CASE S = {}
    BY <1>3, NewPCs, NewCmds DEF SellNext
  <1>4. CASE S # {}
    <2>1. PICK p \in Oldest(S) :
            IF p.sym \in Held
              THEN \E q \in Oldest({x \in positions : x.sym = p.sym}) :
                     Set("owner", Selling(r, q, S \ {p}))
              ELSE Set("owner", [r EXCEPT !.pc = "sellNext", !.todo = S \ {p}])
      BY <1>4 DEF SellNext
    <2>2. CASE p.sym \in Held
      BY <1>1, <2>1, <2>2
    <2>3. CASE p.sym \notin Held
      BY <1>2, <2>1, <2>3
    <2> QED
      BY <2>2, <2>3
  <1> QED
    BY <1>3, <1>4

\* The liquidation of a panic goes on, or ends by closing the latch on a dead scan.
LEMMA Liquidates ==
  ASSUME Alone, task["owner"].cmd = "panic", NEW S, NEW r \in Task, r.cmd = "panic",
         SellFirst("owner", r, S, Set("owner", Fresh)),
         halted' = halted \/ halted' = TRUE, SameTrading
  PROVE  PromiseStep /\ AloneKept
  <1>1. task["scan"].pc = "dead"
    BY DEF Alone, PanicPath
  <1>2. PICK q : Set("owner", q) /\ (q = Fresh \/ (q.pc = "sellBal" /\ q.cmd = "panic"))
    BY SellFirstCmd
  <1>3. task'["owner"] = q /\ Keeps("scan") /\ Keeps("boot")
    BY <1>2, TaskNames, SetOthers DEF Alone, Others
  <1>4. AloneKept
    BY <1>1, <1>2, <1>3, NewPCs, NewCmds DEF Alone, AloneKept, BootRests, PanicPath, Keeps, SellPC
  <1>5. PromiseStep
    BY <1>1, <1>3, Quiet, Latched
  <1> QED
    BY <1>4, <1>5

LEMMA OwnerSells ==
  ASSUME Alone, SellSkips \/ OwnerSold \/ PanicLiquidates \/ Withdraw \/ Sell \/ SellAll
  PROVE  PromiseStep /\ AloneKept
  <1>1. "owner" \in Tasks /\ Safe /\ task["owner"] \in Task
    BY TaskNames DEF Alone, Safe, TypeInv, TypeOK
  <1>2. SameTrading
    BY DEF SellSkips, OwnerSold, PanicLiquidates, Withdraw, Sell, SellAll, SameTrading, Emptied,
           Trading
  <1>3. ASSUME NEW r, Set("owner", r), r.pc # "panicOut", r.cmd # "panic", halted' = halted
        PROVE  PromiseStep /\ AloneKept
    BY <1>2, <1>3, OwnerSets, Quiet
  <1>4. \A c \in OwnerCommands : Command(c) \in Task
    BY FreshTyped DEF PCs, HandlerPC
  <1>5. halted \in BOOLEAN
    BY <1>1 DEF Safe, TypeInv, TypeOK
  <1>6. CASE SellSkips
    <2>1. task["owner"].cmd # "panic" /\ halted' = halted
      BY <1>6 DEF SellSkips, At, Alone, PanicPath, SellPC
    <2> QED
      BY <1>1, <1>3, <1>6, <2>1, SellNextCmd DEF SellSkips
  <1>7. CASE SellAll
    <2>1. Command("sellAll") \in Task /\ Command("sellAll").cmd = "sellAll" /\ halted' = halted
      BY <1>4, <1>7, NewCmds DEF OwnerCommands, SellAll
    <2> QED
      BY <1>3, <1>7, <2>1, SellNextCmd DEF SellAll
  <1>8. CASE PanicLiquidates
    <2>1. task["owner"].cmd = "panic"
      BY <1>8 DEF PanicLiquidates, At, Alone, PanicPath
    <2>2. halted' = halted \/ halted' = TRUE
      BY <1>5, <1>8 DEF PanicLiquidates
    <2> QED
      BY <1>1, <1>2, <1>8, <2>1, <2>2, Liquidates DEF PanicLiquidates
  <1>9. CASE Withdraw
    <2> DEFINE away == [Command("withdraw") EXCEPT !.pc = "transfer"]
    <2>1. away.pc = "transfer" /\ away.cmd = "withdraw" /\ Command("withdraw").cmd = "withdraw"
      BY NewPCs, NewCmds
    <2>2. /\ SellFirst("owner", Command("withdraw"), positions, Set("owner", away))
          /\ halted' = halted
      BY <1>9 DEF Withdraw
    <2> HIDE DEF away
    <2>3. \E q : Set("owner", q) /\ q.pc # "panicOut" /\ q.cmd # "panic"
      BY <1>4, <2>1, <2>2, SellFirstCmd DEF OwnerCommands
    <2> QED
      BY <1>3, <2>2, <2>3
  <1>10. CASE Sell
    <2>1. \A p : /\ Selling(Command("sell"), p, {}).pc = "sellBal"
                 /\ Selling(Command("sell"), p, {}).cmd = "sell"
      BY <1>4, UpdatedPCs, UpdatedCmds, NewCmds DEF OwnerCommands
    <2>2. \E q : Set("owner", q) /\ q.pc # "panicOut" /\ q.cmd # "panic"
      BY <1>10, <2>1 DEF Sell
    <2>3. halted' = halted
      BY <1>10 DEF Sell
    <2> QED
      BY <1>3, <2>2, <2>3
  <1>11. CASE OwnerSold
    <2> DEFINE r == task["owner"]
               away == [Fresh EXCEPT !.pc = "transfer", !.cmd = "withdraw"]
    <2>1. /\ away.pc = "transfer" /\ away.cmd = "withdraw"
          /\ Fresh.pc = "idle" /\ Fresh.cmd = "none"
      BY NewPCs, NewCmds
    <2>2. CASE r.cmd = "panic"
      <3>1. /\ SellFirst("owner", r, r.todo, Set("owner", Fresh))
            /\ halted' = (halted \/ r.todo = {})
        BY <1>11, <2>2 DEF OwnerSold
      <3>2. halted' = halted \/ halted' = TRUE
        BY <1>5, <3>1
      <3> QED
        BY <1>1, <1>2, <2>2, <3>1, <3>2, Liquidates
    <2>3. CASE r.cmd # "panic"
      <3>1. /\ halted' = halted
            /\ \/ Set("owner", Fresh)
               \/ SellNext("owner", r, r.todo)
               \/ SellFirst("owner", r, r.todo, Set("owner", away))
        BY <1>11, <2>3 DEF OwnerSold
      <3> HIDE DEF away
      <3>2. \E q : Set("owner", q) /\ q.pc # "panicOut" /\ q.cmd # "panic"
        BY <1>1, <2>1, <2>3, <3>1, SellFirstCmd, SellNextCmd
      <3> QED
        BY <1>3, <3>1, <3>2
    <2> QED
      BY <2>2, <2>3
  <1> QED
    BY <1>6, <1>7, <1>8, <1>9, <1>10, <1>11

\* What stops the agent takes the scan along.
LEMMA OwnerStops ==
  ASSUME Alone, Pause \/ Panic \/ WithdrawTransfers
  PROVE  PromiseStep /\ AloneKept
  <1>1. "owner" \in Tasks /\ Safe /\ task \in [Tasks -> Task]
    BY TaskNames DEF Alone, Safe, TypeInv, TypeOK
  <1>2. task["owner"].cmd # "panic" /\ task["owner"].pc # "panicOut"
    BY DEF Pause, Panic, WithdrawTransfers, Receives, At, Alone, PanicPath, SellPC
  <1>3. CASE Pause
    <2>1. ReplaceLoops("dead", task) /\ halted' = halted /\ state' \notin Trading
      BY <1>3 DEF Pause, CancelLoops, Trading
    <2>2. task'["scan"].pc = "dead" /\ task'["owner"] = task["owner"] /\ Keeps("boot")
      BY <1>1, <2>1, ReplaceOthers DEF Keeps
    <2> QED
      BY <1>2, <2>1, <2>2, OwnerElsewhere, Stopped, Classes
  <1>4. CASE Panic
    <2> DEFINE r == [Command("panic") EXCEPT !.pc = "panicOut"]
               tasks == [task EXCEPT !["owner"] = r]
    <2>1. ReplaceLoops("dead", tasks) /\ halted' = halted /\ state' \notin Trading
      BY <1>4 DEF Panic, CancelLoops, Trading
    <2>2. r.pc = "panicOut" /\ r.cmd = "panic"
      BY NewPCs, NewCmds
    <2> HIDE DEF r
    <2>3. tasks["owner"] = r /\ tasks["boot"] = task["boot"]
      BY <1>1, TaskNames
    <2> HIDE DEF tasks
    <2>4. task'["scan"].pc = "dead" /\ task'["owner"] = r /\ Keeps("boot")
      BY <1>1, <2>1, <2>3, ReplaceOthers DEF Keeps
    <2>5. AloneKept
      BY <2>2, <2>4 DEF Alone, AloneKept, BootRests, PanicPath, Keeps
    <2> QED
      BY <2>1, <2>4, <2>5, Stopped, Classes
  <1>5. CASE WithdrawTransfers
    <2>1. CASE Set("owner", Fresh) /\ state' = state
      <3>1. halted' = halted
        BY <1>5 DEF WithdrawTransfers
      <3> QED
        BY <2>1, <3>1, NewPCs, NewCmds, OwnerSets, Quiet DEF SameTrading
    <2>2. CASE CancelLoops([task EXCEPT !["owner"] = Fresh]) /\ state' = "PAUSED"
      <3> DEFINE tasks == [task EXCEPT !["owner"] = Fresh]
      <3>1. ReplaceLoops("dead", tasks) /\ halted' = halted /\ state' \notin Trading
        BY <1>5, <2>2 DEF WithdrawTransfers, CancelLoops, Trading
      <3>2. tasks["owner"] = Fresh /\ tasks["boot"] = task["boot"]
        BY <1>1, TaskNames
      <3> HIDE DEF tasks
      <3>3. task'["scan"].pc = "dead" /\ task'["owner"] = Fresh /\ Keeps("boot")
        BY <1>1, <3>1, <3>2, ReplaceOthers DEF Keeps
      <3> QED
        BY <3>1, <3>3, NewPCs, NewCmds, OwnerElsewhere, Stopped, Classes
    <2> QED
      BY <1>5, <2>1, <2>2 DEF WithdrawTransfers
  <1> QED
    BY <1>3, <1>4, <1>5

-----------------------------------------------------------------------------
(* The theorems *)

LEMMA OthersMove ==
  ASSUME Alone, \/ (\E t \in Tasks : SwapLands(t)) \/ DetachedLands \/ ProposalExpires
                \/ CooldownElapses \/ Reject \/ SetCopilot \/ UNCHANGED vars
  PROVE  PromiseStep /\ AloneKept
  <1>1. halted' = halted /\ SameTrading
    BY DEF SwapLands, DetachedLands, ProposalExpires, CooldownElapses, Reject, SetCopilot, vars,
           SameTrading
  <1>2. \A u \in Tasks : Keeps(u)
    <2>1. ASSUME NEW t \in Tasks, SwapLands(t) PROVE \A u \in Tasks : Keeps(u)
      <3>1. PICK out : Set(t, [task[t] EXCEPT !.res = out])
        BY <2>1 DEF SwapLands
      <3> DEFINE r == [task[t] EXCEPT !.res = out]
      <3>2. r.pc = task[t].pc /\ r.cmd = task[t].cmd /\ Set(t, r)
        BY <3>1, UpdatedPCs, UpdatedCmds DEF Alone, Safe, TypeInv, TypeOK
      <3> HIDE DEF r
      <3> QED
        BY <3>2, SetOthers DEF Alone, Others, Keeps
    <2>2. CASE task' = task
      BY <2>2 DEF Keeps
    <2> QED
      BY <2>1, <2>2 DEF DetachedLands, ProposalExpires, CooldownElapses, Reject, SetCopilot, vars
  <1>3. AloneKept
    BY <1>2, TaskNames DEF Alone, AloneKept, BootRests, PanicPath, Keeps
  <1> QED
    BY <1>1, <1>2, <1>3, Quiet, TaskNames

LEMMA InitAlone == FirstBoot /\ Init => Alone /\ Promise!Init
  <1> SUFFICES ASSUME FirstBoot, Init PROVE Alone /\ Promise!Init
    OBVIOUS
  <1>1. state = "IDLE"
    BY DEF FirstBoot, Init
  <1>2. task["scan"] = Parked("dead") /\ task["owner"] = Parked("idle") /\ task["boot"] = Parked("idle")
    BY <1>1, TaskNames DEF Init
  <1>3. Alone
    BY <1>2, InitSafe, NewPCs, NewCmds DEF Alone, BootRests, PanicPath
  <1>4. Promise!Init
    BY <1>1, <1>2, NewPCs DEF Promise!Init, Init
  <1> QED
    BY <1>3, <1>4

LEMMA StepAlone == Alone /\ [Next]_vars => PromiseStep /\ Alone'
  <1> SUFFICES ASSUME Alone, [Next]_vars PROVE PromiseStep /\ AloneKept
    BY StepSafe DEF Alone, AloneKept
  <1>1. Safe
    BY DEF Alone
  <1>2. CASE ScanStep
    <2>1. PromiseStep /\ Keeps("owner") /\ Keeps("boot") /\ task["scan"].pc # "dead"
      BY <1>1, <1>2, ScanMoves
    <2> QED
      BY <2>1 DEF Alone, AloneKept, BootRests, PanicPath, Keeps
  <1>3. CASE MonitorStep
    <2>1. Keeps("scan") /\ Keeps("owner") /\ Keeps("boot") /\ halted' = halted /\ SameTrading
      BY <1>1, <1>3, MonitorMoves, TaskNames DEF Others
    <2> QED
      BY <2>1, Quiet DEF Alone, AloneKept, BootRests, PanicPath, Keeps
  <1>4. CASE BootStep
    BY <1>4, BootStill DEF Alone
  <1>5. CASE OwnerStep
    BY <1>5, OwnerShared, OwnerStarts, OwnerSells, OwnerStops DEF OwnerStep
  <1>6. CASE OwnerCommand
    BY <1>6, OwnerStarts, OwnerSells, OwnerStops, OthersMove DEF OwnerCommand
  <1>7. CASE \/ (\E t \in Tasks : SwapLands(t)) \/ DetachedLands \/ ProposalExpires
             \/ CooldownElapses \/ UNCHANGED vars
    BY <1>7, OthersMove
  <1> QED
    BY <1>2, <1>3, <1>4, <1>5, <1>6, <1>7 DEF Next

\* The orchestrator implements the abstract killswitch: however scan, monitor and owner
\* interleave, a cycle commits itself to a purchase only with the latch open (the gate of
\* run_cycle), and the latch closes (the end of panic(), the tripwire) on no committed cycle.
THEOREM KillswitchCorrect == FirstBoot /\ Spec => KillswitchHolds
  <1> SUFFICES ASSUME FirstBoot PROVE Spec => KillswitchHolds
    OBVIOUS
  <1>1. Init => Alone /\ Promise!Init
    BY InitAlone
  <1> QED
    BY <1>1, StepAlone, PTL DEF Spec, KillswitchHolds, Promise!Spec, PromiseStep

LEMMA PromiseFrozen == Promise!Frozen /\ PromiseStep => Promise!Frozen'
  <1> SUFFICES ASSUME Promise!Frozen, PromiseStep PROVE Promise!Frozen'
    OBVIOUS
  <1> USE DEF Promise!Frozen, Trading, Committed
  <1>1. CASE Promise!Resumes
    BY <1>1 DEF Promise!Resumes
  <1>2. CASE Promise!Begins
    BY <1>2 DEF Promise!Begins
  <1>3. CASE Promise!Commits
    BY <1>3 DEF Promise!Commits
  <1>4. CASE Promise!Ends
    BY <1>4 DEF Promise!Ends
  <1>5. CASE Promise!Stops
    BY <1>5 DEF Promise!Stops
  <1>6. CASE Promise!Latches
    BY <1>6 DEF Promise!Latches
  <1>7. CASE Promise!Unlatches
    BY <1>7 DEF Promise!Unlatches
  <1>8. CASE UNCHANGED Promise!vars
    BY <1>8 DEF Promise!vars
  <1> QED
    BY <1>1, <1>2, <1>3, <1>4, <1>5, <1>6, <1>7, <1>8 DEF PromiseStep, Promise!Next

\* Once /panic has liquidated everything or the tripwire has halted the risk engine, the scan
\* is past its gate in no interleaving: only /reiniciar lets a cycle buy again.
THEOREM HaltCorrect == FirstBoot /\ Spec => []HaltFreezesScan
  <1> SUFFICES ASSUME FirstBoot PROVE Spec => []HaltFreezesScan
    OBVIOUS
  <1>1. Init => Alone /\ Promise!Frozen
    BY InitAlone DEF Promise!Init, Promise!Frozen
  <1>2. Promise!Frozen => HaltFreezesScan
    BY DEF Promise!Frozen, HaltFreezesScan, Committed, BuyingPC
  <1> QED
    BY <1>1, <1>2, StepAlone, PromiseFrozen, PTL DEF Spec

-----------------------------------------------------------------------------
(***************************************************************************)
(* What the book of an autonomous agent keeps to, for every value of the   *)
(* constants: the owner sells, stops and looks, and buys or starts nothing.*)
(*                                                                         *)
(* Then at most one task adds to the book at a time, and what the gate and *)
(* the filter of run_cycle saw many awaits earlier still holds when the    *)
(* purchase is booked, because everybody else only takes away.             *)
(***************************************************************************)

Undisturbed == Commands \cap {"start", "restart", "buy", "approve"} = {}

\* Who is where: the owner sells or stops, and the boot that resumes is over before the loops
\* begin.
Settled == {"idle", "transfer", "panicOut", "sellNext"} \cup SellPC
Resuming == {"idle", "boot", "recDone", "announce"} \cup RecPC
Roles ==
  /\ task["owner"].pc \in Settled
  /\ task["boot"].pc \in Resuming /\ task["boot"].cmd \in {"none", "start"}
  /\ task["boot"].pc # "idle" => task["scan"].pc = "dead"

\* Who reconciles walks the list that is still self.positions, and what it has kept and holds
\* in hand fits together with the book.
DupFree(S) == \A p, q \in S : p.sym = q.sym => p = q
Builders == {"scan", "boot"}
Traced(t) == IF task[t].pc \in ReconcilePC THEN task[t].kept \cup {task[t].cur} ELSE {}
Walks ==
  /\ \A t \in Builders : /\ task[t].pc \in ReconcilePC => task[t].live
                         /\ DupFree(positions \cup Traced(t))
  /\ task["scan"].pc = "equity" => task["scan"].kept = {}

\* What a committed cycle may still rely on.
Chooses ==
  /\ task["scan"].pc \in {"validate"} \cup BuyingPC => task["scan"].cands \cap Held = {}
  /\ task["scan"].pc \in BuyingPC => task["scan"].cur.sym \notin Held
Spaced ==
  /\ recentBuys <= 1
  /\ recentBuys # 0 => cooling
  /\ task["scan"].pc \in Committed => recentBuys = 0
Capped == task["scan"].pc \in Committed => Cardinality(positions) < MaxConcurrent

Data == Walks /\ Chooses /\ Spaced /\ Capped
Solo == Safe /\ Roles /\ Data

-----------------------------------------------------------------------------
(* The book *)

LEMMA DupFreeFinite ==
  ASSUME Safe, NEW S \in SUBSET positions, DupFree(positions)
  PROVE  /\ IsFiniteSet(positions) /\ IsFiniteSet(S)
         /\ Cardinality(S) \in Nat /\ Cardinality(positions) \in Nat
         /\ Cardinality(S) <= Cardinality(positions)
  <1> DEFINE f == [p \in positions |-> p.sym]
  <1>1. positions \subseteq Position
    BY DEF Safe, TypeInv, TypeOK
  <1>2. \A p \in positions : p.sym \in Symbols
    BY <1>1 DEF Position
  <1>3. f \in [positions -> Symbols] /\ \A p, q \in positions : f[p] = f[q] => p = q
    BY <1>2 DEF DupFree
  <1>4. f \in Injection(positions, Symbols)
    BY <1>3 DEF Injection, IsInjective
  <1>5. IsFiniteSet(Symbols)
    BY AgentAssumption
  <1> HIDE DEF f
  <1>6. IsFiniteSet(positions)
    BY <1>4, <1>5, FS_Injection
  <1> QED
    BY <1>6, FS_Subset, FS_CardinalityType

\* Everyone but the builders: the book shrinks, the scan stands still or is cancelled.
Same(u) == /\ task'[u].pc = task[u].pc /\ task'[u].cmd = task[u].cmd
           /\ task'[u].live = task[u].live /\ task'[u].kept = task[u].kept
           /\ task'[u].cur = task[u].cur /\ task'[u].cands = task[u].cands
Cooler == \/ recentBuys' = recentBuys /\ (cooling => cooling')
          \/ recentBuys' = 0

LEMMA ShrinkKeeps ==
  ASSUME Safe, Data, positions' \subseteq positions, Cooler, Same("boot"),
         Same("scan") \/ task'["scan"].pc \in Idling
  PROVE  Data'
  <1>1. recentBuys \in Nat
    BY DEF Safe, TypeInv, TypeOK
  <1>2. Held' \subseteq Held
    BY DEF Held
  <1>3. \A t \in Builders : Traced(t)' \subseteq Traced(t)
    BY DEF Builders, Traced, Same, Idling, ReconcilePC
  <1>4. Walks'
    <2>1. \A t \in Builders : (task[t].pc \in ReconcilePC => task[t].live)'
      BY DEF Data, Walks, Builders, Same, Idling, ReconcilePC
    <2>2. \A t \in Builders : DupFree(positions \cup Traced(t))'
      BY <1>3 DEF Data, Walks, DupFree
    <2>3. (task["scan"].pc = "equity" => task["scan"].kept = {})'
      BY DEF Data, Walks, Same, Idling
    <2> QED
      BY <2>1, <2>2, <2>3 DEF Walks
  <1>5. Chooses'
    BY <1>2 DEF Data, Chooses, Same, Idling, BuyingPC
  <1>6. Spaced'
    BY <1>1 DEF Data, Spaced, Same, Idling, Committed, BuyingPC, Cooler
  <1>7. Capped'
    <2>1. DupFree(positions)
      BY DEF Data, Walks, Builders, DupFree
    <2>2. Cardinality(positions') <= Cardinality(positions) /\ Cardinality(positions') \in Nat
          /\ Cardinality(positions) \in Nat
      BY <2>1, DupFreeFinite
    <2>3. MaxConcurrent \in Nat
      BY AgentAssumption
    <2> QED
      BY <2>2, <2>3 DEF Data, Capped, Same, Idling, Committed, BuyingPC
  <1> QED
    BY <1>4, <1>5, <1>6, <1>7 DEF Data

-----------------------------------------------------------------------------
(* The tasks that only take away *)

Untouched(t) == \A u \in Tasks \ {t} : task'[u] = task[u]
Takes == positions' \subseteq positions /\ Cooler

LEMMA SetUntouched ==
  ASSUME Safe, NEW t \in Tasks, NEW r, Set(t, r)
  PROVE  task'[t] = r /\ Untouched(t)
  BY DEF Safe, TypeInv, TypeOK, Set, Untouched

LEMMA TakeLockUntouched ==
  ASSUME Safe, NEW t \in Tasks, NEW r, TakeLock(t, r)
  PROVE  Untouched(t) /\ (task'[t] = r \/ task'[t] = task[t])
  BY SetUntouched DEF TakeLock, Untouched

LEMMA UntouchedKeeps ==
  ASSUME Safe, Data, NEW t \in Tasks \ Builders, Untouched(t), Takes
  PROVE  Data' /\ task'["scan"] = task["scan"] /\ task'["boot"] = task["boot"]
  <1>1. task'["scan"] = task["scan"] /\ task'["boot"] = task["boot"]
    BY TaskNames DEF Untouched, Builders
  <1>2. Same("scan") /\ Same("boot")
    BY <1>1 DEF Same
  <1> QED
    BY <1>1, <1>2, ShrinkKeeps DEF Takes

LEMMA SellingTakes ==
  ASSUME Safe, NEW t \in Tasks, SellingSteps(t)
  PROVE  Untouched(t) /\ Takes /\ nextId' = nextId
  <1>1. Takes /\ nextId' = nextId
    BY DEF SellingSteps, SellBalance, SellGoes, SellSwapReturns, SellRetries, Takes, Cooler, book,
           risk
  <1>2. Untouched(t)
    <2>1. CASE SellBalance(t)
      BY <2>1, SetUntouched DEF SellBalance
    <2>2. CASE SellGoes(t)
      BY <2>2, SetUntouched, TakeLockUntouched DEF SellGoes
    <2>3. CASE SellSwapReturns(t)
      BY <2>3, SetUntouched DEF SellSwapReturns
    <2>4. CASE SellRetries(t)
      BY <2>4, TakeLockUntouched DEF SellRetries
    <2> QED
      BY <2>1, <2>2, <2>3, <2>4 DEF SellingSteps
  <1> QED
    BY <1>1, <1>2

LEMMA MonitorTakes ==
  ASSUME Safe, MonitorStep
  PROVE  Untouched("monitor") /\ Takes /\ nextId' = nextId
  <1>1. "monitor" \in Tasks
    BY TaskNames
  <1>2. CASE SellingSteps("monitor")
    BY <1>1, <1>2, SellingTakes
  <1>3. CASE MonitorWakes \/ MonitorTick \/ MonitorSold
    <2>1. UNCHANGED <<book, risk>>
      <3>1. MonitorWakes => UNCHANGED <<book, risk>>
        BY DEF MonitorWakes, book, risk
      <3>2. MonitorTick => UNCHANGED <<book, risk>>
        BY DEF MonitorTick, book, risk
      <3>3. MonitorSold => UNCHANGED <<book, risk>>
        BY DEF MonitorSold, book, risk
      <3> QED
        BY <1>3, <3>1, <3>2, <3>3
    <2>2. \E r : Set("monitor", r)
      BY <1>3 DEF MonitorWakes, MonitorTick, MonitorSold, CheckNext
    <2> QED
      BY <1>1, <2>1, <2>2, SetUntouched DEF Takes, Cooler, book, risk
  <1> QED
    BY <1>2, <1>3 DEF MonitorStep

LEMMA MonitorSolo ==
  ASSUME Solo, MonitorStep
  PROVE  Roles' /\ Data' /\ nextId' = nextId
  <1>1. Untouched("monitor") /\ Takes /\ nextId' = nextId
    BY MonitorTakes DEF Solo
  <1>2. "monitor" \in Tasks \ Builders /\ "owner" \in Tasks \ {"monitor"}
    BY TaskNames DEF Builders
  <1>3. task'["owner"] = task["owner"]
    BY <1>1, <1>2 DEF Untouched
  <1>4. Data' /\ task'["scan"] = task["scan"] /\ task'["boot"] = task["boot"]
    BY <1>1, <1>2, UntouchedKeeps DEF Solo
  <1> QED
    BY <1>1, <1>3, <1>4 DEF Solo, Roles

-----------------------------------------------------------------------------
(* What a builder must show *)

Traces(r) == r.live /\ DupFree(positions' \cup r.kept \cup {r.cur})

\* A step after which no cycle is committed.
LEMMA DataQuiet ==
  ASSUME Safe, Data, Cooler, DupFree(positions'),
         \A t \in Builders : task'[t].pc \in ReconcilePC => Traces(task'[t]),
         task'["scan"].pc \notin Committed,
         task'["scan"].pc = "equity" => task'["scan"].kept = {}
  PROVE  Data'
  <1>1. recentBuys \in Nat
    BY DEF Safe, TypeInv, TypeOK
  <1>2. \A t \in Builders : DupFree(positions \cup Traced(t))'
    <2> SUFFICES ASSUME NEW t \in Builders PROVE DupFree(positions \cup Traced(t))'
      OBVIOUS
    <2>1. CASE task'[t].pc \in ReconcilePC
      BY <2>1 DEF Traces, Traced, DupFree
    <2>2. CASE task'[t].pc \notin ReconcilePC
      BY <2>2 DEF Traced, DupFree
    <2> QED
      BY <2>1, <2>2
  <1>3. Walks'
    BY <1>2 DEF Walks, Traces
  <1>4. Chooses' /\ Capped'
    BY DEF Chooses, Capped, Committed
  <1>5. Spaced'
    BY <1>1 DEF Spaced, Cooler, Data
  <1> QED
    BY <1>3, <1>4, <1>5 DEF Data

\* A step of a committed cycle, or into one.
LEMMA DataCommitted ==
  ASSUME Safe, Data, task'["boot"].pc \notin ReconcilePC, task'["scan"].pc \in Committed,
         positions' = positions, recentBuys = 0, recentBuys' = 0,
         Cardinality(positions) < MaxConcurrent,
         task'["scan"].pc # "brain" => task'["scan"].cands \cap Held = {},
         task'["scan"].pc \in BuyingPC => task'["scan"].cur.sym \notin Held
  PROVE  Data'
  <1>1. Held' = Held
    BY DEF Held
  <1>2. task'["scan"].pc \notin ReconcilePC \cup {"equity"}
    BY DEF Committed, BuyingPC, ReconcilePC
  <1>3. DupFree(positions)
    BY DEF Data, Walks, Builders, DupFree
  <1>4. Walks'
    BY <1>2, <1>3 DEF Walks, Builders, Traced, DupFree
  <1>5. Chooses'
    BY <1>1 DEF Chooses, BuyingPC
  <1>6. Spaced' /\ Capped'
    BY DEF Spaced, Capped
  <1> QED
    BY <1>4, <1>5, <1>6 DEF Data

LEMMA BookDupFree == Data => DupFree(positions)
  BY DEF Data, Walks, Builders, DupFree

\* The head of the list, or the end of the walk.
LEMMA WalkAtTraces ==
  ASSUME NEW r \in Task, NEW S, NEW i, NEW q \in WalkAt(r, S, i)
  PROVE  \/ q.pc = "impRead"
         \/ q.pc = "recBal" /\ q.live = r.live /\ q.kept = r.kept /\ q.cur \in S
  <1>1. CASE i < Cardinality(S)
    <2>1. PICK p \in S : q = [r EXCEPT !.pc = "recBal", !.idx = i, !.cur = p, !.read = {}]
      BY <1>1 DEF WalkAt
    <2> QED
      BY <2>1 DEF Task
  <1>2. CASE ~(i < Cardinality(S))
    BY <1>2 DEF WalkAt, Task
  <1> QED
    BY <1>1, <1>2

LEMMA ReconcilingTraces ==
  ASSUME Data, NEW r \in Task, r.kept = {}, NEW q \in Reconciling(r), positions' = positions
  PROVE  q.pc = "impRead" \/ (q.pc = "recBal" /\ Traces(q))
  <1> DEFINE x == [r EXCEPT !.live = TRUE]
  <1>1. x \in Task /\ x.kept = {} /\ x.live
    BY DEF Task
  <1>2. q \in WalkAt(x, positions, 0)
    BY DEF Reconciling
  <1> HIDE DEF x
  <1>3. q.pc = "impRead" \/ (q.pc = "recBal" /\ q.live /\ q.kept = {} /\ q.cur \in positions)
    BY <1>1, <1>2, WalkAtTraces
  <1> QED
    BY <1>3, BookDupFree DEF Traces, DupFree

LEMMA WalkOnTraces ==
  ASSUME Safe, Data, NEW t \in Builders, task[t].pc \in ReconcilePC,
         NEW k \in SUBSET Traced(t), NEW g \in BOOLEAN, k \subseteq Position, WalkOn(t, k, g)
  PROVE  /\ DupFree(positions')
         /\ task'[t].pc \in ReconcilePC => Traces(task'[t])
  <1> DEFINE x == [task[t] EXCEPT !.kept = k, !.gone = g]
  <1>1. t \in Tasks
    BY TaskNames DEF Builders
  <1>2. x \in Task /\ x.kept = k /\ x.live = TRUE
    <2>1. task[t] \in Task /\ task[t].live
      BY <1>1 DEF Safe, TypeInv, TypeOK, Data, Walks
    <2> QED
      BY <2>1 DEF Task
  <1>3. task[t].live /\ Walked(t) = positions /\ DupFree(positions \cup Traced(t))
    BY DEF Data, Walks, Walked
  <1>4. PICK r \in WalkAt(x, Walked(t), task[t].idx + 1) :
          IF r.pc = "impRead" /\ g THEN Rebind(t, r, k) ELSE Set(t, r) /\ UNCHANGED positions
    BY DEF WalkOn
  <1> HIDE DEF x
  <1>5. \/ r.pc = "impRead"
        \/ r.pc = "recBal" /\ r.live /\ r.kept = k /\ r.cur \in positions
    BY <1>2, <1>3, <1>4, WalkAtTraces
  <1>6. CASE r.pc = "impRead" /\ g
    <2>1. positions' = k /\ task'[t] = r
      BY <1>1, <1>4, <1>6 DEF Rebind
    <2> QED
      BY <1>3, <1>6, <2>1 DEF DupFree, ReconcilePC
  <1>7. CASE ~(r.pc = "impRead" /\ g)
    <2>1. positions' = positions /\ task'[t] = r
      BY <1>1, <1>4, <1>7, SetUntouched
    <2>2. DupFree(positions \cup k)
      BY <1>3 DEF DupFree
    <2>3. r.pc = "recBal" => Traces(r)
      BY <1>5, <2>1, <2>2 DEF Traces, DupFree
    <2> QED
      BY <1>5, <2>1, <2>3, BookDupFree DEF ReconcilePC
  <1> QED
    BY <1>6, <1>7

\* An import books only tokens that nobody tracks.
LEMMA ImportDupFree ==
  ASSUME Safe, Data, NEW t \in Builders, ImportApplies(t)
  PROVE  DupFree(positions')
  <1> DEFINE new == Imported(t)
  <1>1. new \cap Held = {}
    BY DEF Imported
  <1>2. PICK n \in nextId .. MaxIds + 1, id \in [new -> nextId .. MaxIds] :
          positions' = positions \cup {[sym |-> s, id |-> id[s]] : s \in new}
    BY DEF ImportApplies
  <1> HIDE DEF new
  <1>3. SUFFICES ASSUME NEW p \in positions', NEW q \in positions', p.sym = q.sym PROVE p = q
    BY DEF DupFree
  <1>4. \A y \in positions' : \/ y \in positions /\ y.sym \in Held
                              \/ y.sym \in new /\ y = [sym |-> y.sym, id |-> id[y.sym]]
    BY <1>2 DEF Held
  <1>5. CASE p.sym \in new
    BY <1>1, <1>3, <1>4, <1>5
  <1>6. CASE p.sym \notin new
    BY <1>3, <1>4, <1>6, BookDupFree DEF DupFree
  <1> QED
    BY <1>5, <1>6

LEMMA BuilderTraces ==
  ASSUME Safe, Data, NEW t \in Builders, ReconcilingSteps(t)
  PROVE  /\ DupFree(positions')
         /\ task'[t].pc \in ReconcilePC => Traces(task'[t])
         /\ Cooler
  <1>1. t \in Tasks
    BY TaskNames DEF Builders
  <1>2. task[t] \in Task /\ Good(task[t])
    BY <1>1 DEF Safe, TypeInv, TypeOK
  <1>3. Cooler
    BY DEF ReconcilingSteps, ReconcileBalance, ReconcilePrice, ImportReads, ImportApplies, Cooler,
           risk
  <1>4. task[t].kept \subseteq Position /\ task[t].gone \in BOOLEAN
    BY <1>2 DEF Task
  <1>5. task[t].pc \in ReconcilePC => /\ task[t].cur \in Position
                                     /\ Traced(t) = task[t].kept \cup {task[t].cur}
    BY <1>2 DEF Good, Traced
  <1>6. ASSUME task[t].pc \in ReconcilePC,
               \/ WalkOn(t, task[t].kept \cup {task[t].cur}, task[t].gone)
               \/ WalkOn(t, task[t].kept, TRUE)
        PROVE  DupFree(positions') /\ (task'[t].pc \in ReconcilePC => Traces(task'[t]))
    <2>1. task[t].kept \cup {task[t].cur} \subseteq Position
      BY <1>4, <1>5, <1>6
    <2>2. task[t].kept \cup {task[t].cur} \in SUBSET Traced(t) /\ task[t].kept \in SUBSET Traced(t)
      BY <1>5, <1>6
    <2>3. CASE WalkOn(t, task[t].kept \cup {task[t].cur}, task[t].gone)
      BY <1>4, <1>6, <2>1, <2>2, <2>3, WalkOnTraces
    <2>4. CASE WalkOn(t, task[t].kept, TRUE)
      BY <1>4, <1>6, <2>2, <2>4, WalkOnTraces
    <2> QED
      BY <1>6, <2>3, <2>4
  <1>7. ASSUME NEW r, r.pc \notin ReconcilePC, Set(t, r), positions' = positions
        PROVE  DupFree(positions') /\ (task'[t].pc \in ReconcilePC => Traces(task'[t]))
    BY <1>1, <1>7, SetUntouched, BookDupFree
  <1>8. CASE ReconcileBalance(t)
    <2> DEFINE r == [task[t] EXCEPT !.pc = "recPx", !.read = wallet \cap {task[t].cur.sym}]
    <2>1. task[t].pc \in ReconcilePC
      BY <1>8 DEF ReconcileBalance, At, ReconcilePC
    <2>2. r.kept = task[t].kept /\ r.cur = task[t].cur /\ r.live = task[t].live
      BY <1>2 DEF Task
    <2>3. \/ Set(t, r) /\ positions' = positions
          \/ WalkOn(t, task[t].kept \cup {task[t].cur}, task[t].gone)
      BY <1>8 DEF ReconcileBalance
    <2> HIDE DEF r
    <2>4. CASE Set(t, r) /\ positions' = positions
      <3>1. task'[t] = r
        BY <1>1, <2>4, SetUntouched
      <3>2. Traces(r)
        BY <1>5, <2>1, <2>2, <2>4 DEF Traces, Data, Walks, DupFree
      <3> QED
        BY <1>3, <2>4, <3>1, <3>2, BookDupFree
    <2> QED
      BY <1>3, <1>6, <2>1, <2>3, <2>4
  <1>9. CASE ReconcilePrice(t)
    <2>1. task[t].pc \in ReconcilePC
      BY <1>9 DEF ReconcilePrice, At, ReconcilePC
    <2> QED
      BY <1>3, <1>6, <1>9, <2>1 DEF ReconcilePrice
  <1>10. CASE ImportReads(t)
    <2>1. PICK w : Set(t, [task[t] EXCEPT !.pc = "impGot", !.read = w])
      BY <1>10 DEF ImportReads
    <2>2. [task[t] EXCEPT !.pc = "impGot", !.read = w].pc \notin ReconcilePC
      BY <1>2, UpdatedPCs DEF ReconcilePC
    <2>3. positions' = positions
      BY <1>10 DEF ImportReads, book
    <2> QED
      BY <1>3, <1>7, <2>1, <2>2, <2>3
  <1>11. CASE ImportApplies(t)
    <2> DEFINE r == [task[t] EXCEPT !.pc = "recDone", !.read = {}]
    <2>1. r.pc = "recDone" /\ Set(t, r)
      BY <1>2, <1>11, UpdatedPCs DEF ImportApplies
    <2> HIDE DEF r
    <2>2. task'[t].pc \notin ReconcilePC
      BY <1>1, <2>1, SetUntouched DEF ReconcilePC
    <2> QED
      BY <1>3, <1>11, <2>2, ImportDupFree
  <1> QED
    BY <1>3, <1>8, <1>9, <1>10, <1>11 DEF ReconcilingSteps

-----------------------------------------------------------------------------
(* The scan *)

CapKept == task["scan"].pc \in BuyingPC /\ task'["scan"].pc = "top" /\ nextId' # nextId
             => Cardinality(positions') <= MaxConcurrent
SoloKept == Roles' /\ Data' /\ CapKept

LEMMA ScanRoles ==
  ASSUME Solo, ScanStep
  PROVE  Roles' /\ task["boot"].pc = "idle" /\ task'["boot"].pc = "idle"
  BY ScanMoves DEF Solo, Roles, Keeps

\* The scan moves to an await of no committed cycle, and books nothing.
LEMMA ScanRests ==
  ASSUME Solo, ScanStep, NEW r, Set("scan", r), r.pc \notin Committed \cup ReconcilePC,
         r.pc = "equity" => r.kept = {}, positions' = positions, nextId' = nextId, Cooler
  PROVE  SoloKept
  <1>1. task'["scan"] = r
    BY TaskNames, SetUntouched DEF Solo
  <1>2. \A t \in Builders : task'[t].pc \notin ReconcilePC
    BY <1>1, ScanRoles DEF Builders, ReconcilePC
  <1>3. Data'
    BY <1>1, <1>2, DataQuiet, BookDupFree DEF Solo
  <1> QED
    BY <1>3, ScanRoles DEF SoloKept, CapKept

\* The cycle goes on towards a purchase, and books nothing.
LEMMA ScanCommits ==
  ASSUME Solo, ScanStep, task'["scan"].pc \in Committed,
         positions' = positions, nextId' = nextId, recentBuys = 0, recentBuys' = 0,
         Cardinality(positions) < MaxConcurrent,
         task'["scan"].pc # "brain" => task'["scan"].cands \cap Held = {},
         task'["scan"].pc \in BuyingPC => task'["scan"].cur.sym \notin Held
  PROVE  SoloKept
  <1>1. task'["boot"].pc \notin ReconcilePC
    BY ScanRoles DEF ReconcilePC
  <1>2. Data'
    BY <1>1, DataCommitted DEF Solo
  <1> QED
    BY <1>2, ScanRoles DEF SoloKept, CapKept

LEMMA ScanLooks ==
  ASSUME Solo, ScanStep, ScanWakes \/ ScanEquity \/ ReconcilingSteps("scan") \/ ScanPanics
                         \/ ScanAnomaly \/ ScanHeartbeat \/ HeartbeatReturns \/ ScanAnalyses
  PROVE  SoloKept
  <1>1. Safe /\ Data /\ "scan" \in Tasks /\ "scan" \in Builders /\ task["scan"] \in Task
    BY TaskNames DEF Solo, Builders, Safe, TypeInv, TypeOK
  <1>2. \A l : Parked(l).kept = {} /\ Parked(l).pc = l
    BY DEF Parked, Fresh
  <1>3. ASSUME NEW r, Set("scan", r), r.pc \in {"dead", "top", "equity", "impRead", "hbSwap", "market"},
               r.pc = "equity" => r.kept = {}, UNCHANGED book, Cooler
        PROVE  SoloKept
    BY <1>3, ScanRests DEF book, Committed, BuyingPC, ReconcilePC
  <1>4. CASE ScanWakes
    <2> DEFINE r == Parked(IF state \in Trading THEN "equity" ELSE "dead")
    <2>1. r.pc \in {"equity", "dead"} /\ r.kept = {} /\ Set("scan", r) /\ UNCHANGED book /\ Cooler
      BY <1>2, <1>4 DEF ScanWakes, risk, Cooler
    <2> HIDE DEF r
    <2> QED
      BY <1>3, <2>1
  <1>5. CASE ScanEquity
    <2>1. UNCHANGED book /\ Cooler
      BY <1>5 DEF ScanEquity, risk, Cooler
    <2>2. PICK r : Set("scan", r) /\ (r = Parked("top") \/ r \in Reconciling(task["scan"]))
      BY <1>5 DEF ScanEquity
    <2>3. CASE r = Parked("top")
      BY <1>2, <1>3, <2>1, <2>2, <2>3
    <2>4. CASE r \in Reconciling(task["scan"])
      <3>1. task["scan"].kept = {}
        BY <1>1, <1>5 DEF ScanEquity, At, Data, Walks
      <3>2. positions' = positions
        BY <2>1 DEF book
      <3>3. r.pc = "impRead" \/ (r.pc = "recBal" /\ Traces(r))
        BY <1>1, <2>4, <3>1, <3>2, ReconcilingTraces
      <3>4. CASE r.pc = "recBal"
        <4>1. task'["scan"] = r
          BY <1>1, <2>2, SetUntouched
        <4>2. task'["scan"].pc = "recBal" /\ Traces(task'["scan"])
          BY <3>3, <3>4, <4>1
        <4>3. \A t \in Builders : task'[t].pc \in ReconcilePC => Traces(task'[t])
          BY <4>2, ScanRoles DEF Builders, ReconcilePC
        <4>4. Data'
          BY <1>1, <2>1, <3>2, <4>2, <4>3, DataQuiet, BookDupFree DEF Committed, BuyingPC
        <4> QED
          BY <2>1, <4>4, ScanRoles DEF SoloKept, CapKept, book
      <3> QED
        BY <1>3, <2>1, <2>2, <3>3, <3>4
    <2> QED
      BY <2>2, <2>3, <2>4
  <1>6. CASE ReconcilingSteps("scan")
    <2>1. /\ DupFree(positions') /\ Cooler
          /\ task'["scan"].pc \in ReconcilePC => Traces(task'["scan"])
      BY <1>1, <1>6, BuilderTraces
    <2>2. task["scan"].pc \in RecPC /\ task'["scan"].pc \in RecPC \cup {"recDone"}
      BY <1>1, <1>6, ReconcilingMoves
    <2>3. \A t \in Builders : task'[t].pc \in ReconcilePC => Traces(task'[t])
      BY <2>1, ScanRoles DEF Builders, ReconcilePC
    <2>4. Data'
      BY <1>1, <2>1, <2>2, <2>3, DataQuiet DEF RecPC, Committed, BuyingPC
    <2> QED
      BY <2>2, <2>4, ScanRoles DEF SoloKept, CapKept, RecPC, BuyingPC
  <1>7. CASE ScanPanics
    <2>1. ReplaceLoops("dead", task) /\ UNCHANGED book /\ Cooler
      BY <1>7 DEF ScanPanics, CancelLoops, risk, Cooler
    <2>2. task'["scan"].pc = "dead" /\ task'["boot"] = task["boot"]
      BY <1>1, <2>1, ReplaceOthers
    <2>3. Data'
      BY <1>1, <2>1, <2>2, ShrinkKeeps DEF Same, Idling, book
    <2> QED
      BY <2>1, <2>3, ScanRoles DEF SoloKept, CapKept, book
  <1>8. CASE ScanAnomaly
    <2>1. Set("scan", Parked("top")) /\ UNCHANGED book /\ Cooler
      BY <1>8 DEF ScanAnomaly, risk, Cooler
    <2> QED
      BY <1>2, <1>3, <2>1
  <1>9. CASE ScanHeartbeat \/ HeartbeatReturns \/ ScanAnalyses
    <2>1. UNCHANGED book /\ Cooler /\ \E l \in {"hbSwap", "market"} : Set("scan", Parked(l))
      BY <1>9 DEF ScanHeartbeat, HeartbeatReturns, ScanAnalyses, risk, Cooler
    <2> QED
      BY <1>2, <1>3, <2>1
  <1> QED
    BY <1>4, <1>5, <1>6, <1>7, <1>8, <1>9

\* What the gate has established holds as long as the cycle is committed.
LEMMA StillOpen ==
  ASSUME Solo, task["scan"].pc \in Committed
  PROVE  recentBuys = 0 /\ Cardinality(positions) < MaxConcurrent
  BY DEF Solo, Data, Spaced, Capped

LEMMA ScanChooses ==
  ASSUME Solo, ScanStep, ScanGate \/ ScanPicks \/ ScanValidates
  PROVE  SoloKept
  <1>1. Safe /\ Data /\ "scan" \in Tasks /\ task["scan"] \in Task
    BY TaskNames DEF Solo, Safe, TypeInv, TypeOK
  <1>2. /\ \A l : Parked(l).kept = {} /\ Parked(l).pc = l
        /\ \A c : /\ [Parked("validate") EXCEPT !.cands = c].pc = "validate"
                 /\ [Parked("validate") EXCEPT !.cands = c].cands = c
    BY DEF Parked, Fresh
  <1>3. UNCHANGED book /\ UNCHANGED risk
    BY DEF ScanGate, ScanPicks, ScanValidates
  <1>4. positions' = positions /\ nextId' = nextId /\ recentBuys' = recentBuys /\ Cooler
    BY <1>3 DEF book, risk, Cooler
  <1>5. ASSUME Set("scan", Parked("top")) PROVE SoloKept
    <2> DEFINE r == Parked("top")
    <2>1. r.pc = "top" /\ Set("scan", r)
      BY <1>2, <1>5
    <2> HIDE DEF r
    <2> QED
      BY <1>4, <2>1, ScanRests DEF Committed, BuyingPC, ReconcilePC
  <1>6. ASSUME task["scan"].pc \in {"brain", "validate"},
               NEW c, c \cap Held = {}, Set("scan", [Parked("validate") EXCEPT !.cands = c])
        PROVE  SoloKept
    <2> DEFINE r == [Parked("validate") EXCEPT !.cands = c]
    <2>1. r.pc = "validate" /\ r.cands = c /\ Set("scan", r)
      BY <1>2, <1>6
    <2> HIDE DEF r
    <2>2. task'["scan"].pc = "validate" /\ task'["scan"].cands \cap Held = {}
      BY <1>1, <1>6, <2>1, SetUntouched
    <2>3. task["scan"].pc \in Committed /\ task'["scan"].pc \in Committed
      BY <1>6, <2>2 DEF Committed
    <2>4. task'["scan"].pc \notin BuyingPC
      BY <2>2 DEF BuyingPC
    <2> QED
      BY <1>4, <2>2, <2>3, <2>4, StillOpen, ScanCommits
  <1>7. CASE ScanGate
    <2>1. CASE GateAllows /\ Set("scan", Parked("brain"))
      <3>1. recentBuys = 0 /\ Cardinality(positions) < MaxConcurrent
        BY <1>1, <2>1 DEF GateAllows, Data, Spaced
      <3> DEFINE r == Parked("brain")
      <3>2. r.pc = "brain" /\ Set("scan", r)
        BY <1>2, <2>1
      <3> HIDE DEF r
      <3>3. task'["scan"].pc = "brain"
        BY <1>1, <3>2, SetUntouched
      <3> QED
        BY <1>4, <3>1, <3>3, ScanCommits DEF Committed, BuyingPC
    <2> QED
      BY <1>5, <1>7, <2>1 DEF ScanGate
  <1>8. CASE ScanPicks
    <2>1. PICK c \in SUBSET (Symbols \ Held) :
            Set("scan", IF c = {} THEN Parked("top") ELSE [Parked("validate") EXCEPT !.cands = c])
      BY <1>8 DEF ScanPicks
    <2>2. task["scan"].pc = "brain"
      BY <1>8 DEF ScanPicks, At
    <2>3. CASE c = {}
      BY <1>5, <2>1, <2>3
    <2>4. CASE c # {}
      <3>1. c \cap Held = {} /\ Set("scan", [Parked("validate") EXCEPT !.cands = c])
        BY <2>1, <2>4
      <3> QED
        BY <1>6, <2>2, <3>1
    <2> QED
      BY <2>3, <2>4
  <1>9. CASE ScanValidates
    <2>1. task["scan"].pc = "validate" /\ task["scan"].cands \cap Held = {}
      BY <1>1, <1>9 DEF ScanValidates, At, Data, Chooses
    <2>2. PICK s \in task["scan"].cands :
            \/ Set("scan", IF task["scan"].cands \ {s} = {} THEN Parked("top")
                          ELSE [Parked("validate") EXCEPT !.cands = task["scan"].cands \ {s}])
            \/ Set("scan", Parked("top"))
            \/ OpenBegins("scan", s)
      BY <1>9 DEF ScanValidates
    <2> DEFINE rest == task["scan"].cands \ {s}
    <2>3. rest \cap Held = {} /\ s \notin Held
      BY <2>1
    <2>4. CASE OpenBegins("scan", s)
      <3> DEFINE r == [task["scan"] EXCEPT !.pc = "buySwap", !.cur = Ticket(s),
                         !.res = "none", !.retried = FALSE, !.cands = @ \ {s}]
      <3>1. r.pc = "buySwap" /\ r.cur.sym = s /\ r.cands = rest /\ TakeLock("scan", r)
        BY <1>1, <2>4 DEF OpenBegins, Task, Ticket
      <3> HIDE DEF r
      <3>2. task'["scan"] = r \/ task'["scan"] = task["scan"]
        BY <1>1, <3>1, TakeLockUntouched
      <3>3. /\ task'["scan"].pc \in {"validate", "buySwap"}
            /\ task'["scan"].cands \cap Held = {}
            /\ task'["scan"].pc = "buySwap" => task'["scan"].cur.sym \notin Held
        BY <2>1, <2>3, <3>1, <3>2
      <3>4. task["scan"].pc \in Committed /\ task'["scan"].pc \in Committed
        BY <2>1, <3>3 DEF Committed, BuyingPC
      <3>5. task'["scan"].pc \in BuyingPC => task'["scan"].pc = "buySwap"
        BY <3>3 DEF BuyingPC
      <3> QED
        BY <1>4, <3>3, <3>4, <3>5, StillOpen, ScanCommits
    <2>5. CASE ~OpenBegins("scan", s)
      <3> HIDE DEF rest
      <3>1. Set("scan", Parked("top")) \/ Set("scan", [Parked("validate") EXCEPT !.cands = rest])
        BY <2>2, <2>5 DEF rest
      <3> QED
        BY <1>5, <1>6, <2>1, <2>3, <3>1
    <2> QED
      BY <2>4, <2>5
  <1> QED
    BY <1>7, <1>8, <1>9

\* The purchase is booked: what it adds is not there yet, and there is room for it.
LEMMA ScanBooks ==
  ASSUME Solo, ScanStep, task["scan"].pc \in BuyingPC, Opened("scan")
  PROVE  SoloKept
  <1>1. Safe /\ Data /\ "scan" \in Tasks
    BY TaskNames DEF Solo
  <1> DEFINE new == [sym |-> task["scan"].cur.sym, id |-> nextId]
  <1>2. positions' = positions \cup {new} /\ recentBuys' = recentBuys + 1 /\ cooling'
    BY DEF Opened
  <1>3. new.sym \notin Held
    BY <1>1 DEF Data, Chooses
  <1> HIDE DEF new
  <1>4. DupFree(positions')
    BY <1>1, <1>2, <1>3, BookDupFree DEF DupFree, Held
  <1>5. recentBuys' = 1 /\ Cardinality(positions) < MaxConcurrent
    BY <1>2, StillOpen DEF Committed
  <1>6. Cardinality(positions') <= MaxConcurrent
    <2>1. IsFiniteSet(positions) /\ Cardinality(positions) \in Nat
      BY <1>1, DupFreeFinite, BookDupFree
    <2>2. Cardinality(positions') \in {Cardinality(positions), Cardinality(positions) + 1}
      BY <1>2, <2>1, FS_AddElement
    <2>3. MaxConcurrent \in Nat
      BY AgentAssumption
    <2> QED
      BY <1>5, <2>1, <2>2, <2>3
  <1>7. task'["scan"] = Parked("top")
    BY <1>1, SetUntouched, TaskNames DEF Opened, Resting
  <1>8. task'["scan"].pc = "top"
    BY <1>7, NewPCs
  <1>9. Data'
    <2>1. \A t \in Builders : task'[t].pc \notin ReconcilePC
      BY <1>8, ScanRoles DEF Builders, ReconcilePC
    <2>2. Walks'
      BY <1>4, <1>8, <2>1 DEF Walks, Traced, DupFree
    <2>3. Chooses' /\ Capped'
      BY <1>8 DEF Chooses, Capped, Committed, BuyingPC
    <2>4. Spaced'
      BY <1>2, <1>5, <1>8 DEF Spaced, Committed, BuyingPC
    <2> QED
      BY <2>2, <2>3, <2>4 DEF Data
  <1> QED
    BY <1>6, <1>9, ScanRoles DEF SoloKept, CapKept

LEMMA ScanBuys ==
  ASSUME Solo, ScanStep, Buying("scan")
  PROVE  SoloKept
  <1>1. Safe /\ Data /\ "scan" \in Tasks /\ task["scan"] \in Task
    BY TaskNames DEF Solo, Safe, TypeInv, TypeOK
  <1>2. task["scan"].pc \in BuyingPC
    BY <1>1, BuyingMoves
  <1>3. /\ recentBuys = 0 /\ Cardinality(positions) < MaxConcurrent
        /\ task["scan"].cands \cap Held = {} /\ task["scan"].cur.sym \notin Held
    BY <1>1, <1>2, StillOpen DEF Committed, Data, Chooses
  <1>4. Resting("scan").pc = "top"
    BY NewPCs, TaskNames
  <1> DEFINE booksNothing == positions' = positions /\ nextId' = nextId /\ recentBuys' = recentBuys
                             /\ Cooler
  <1>5. ASSUME booksNothing, Set("scan", Resting("scan")) PROVE SoloKept
    <2> DEFINE r == Resting("scan")
    <2>1. r.pc = "top" /\ Set("scan", r)
      BY <1>4, <1>5
    <2> HIDE DEF r
    <2> QED
      BY <1>5, <2>1, ScanRests DEF Committed, BuyingPC, ReconcilePC
  <1>6. ASSUME booksNothing, NEW r, r.pc \in BuyingPC \cup {"validate"}, r.cands = task["scan"].cands,
               r.cur = task["scan"].cur \/ r.pc = "validate",
               task'["scan"] = r \/ task'["scan"] = task["scan"]
        PROVE  SoloKept
    <2>1. /\ task'["scan"].pc \in Committed
          /\ task'["scan"].cands \cap Held = {}
          /\ task'["scan"].pc \in BuyingPC => task'["scan"].cur.sym \notin Held
      BY <1>2, <1>3, <1>6 DEF Committed, BuyingPC
    <2> QED
      BY <1>3, <1>6, <2>1, ScanCommits
  <1>7. ASSUME booksNothing, OpenFailed("scan") PROVE SoloKept
    <2>1. CASE task["scan"].cands # {}
      <3> DEFINE r == [Parked("validate") EXCEPT !.cands = task["scan"].cands]
      <3>1. r.pc = "validate" /\ r.cands = task["scan"].cands /\ Set("scan", r)
        BY <1>7, <2>1 DEF OpenFailed, Parked, Fresh
      <3> HIDE DEF r
      <3>2. task'["scan"] = r
        BY <1>1, <3>1, SetUntouched
      <3> QED
        BY <1>6, <1>7, <3>1, <3>2
    <2>2. CASE task["scan"].cands = {}
      BY <1>5, <1>7, <2>2 DEF OpenFailed
    <2> QED
      BY <2>1, <2>2
  <1> DEFINE again == [task["scan"] EXCEPT !.pc = "buyWait", !.retried = TRUE]
             bought == [task["scan"] EXCEPT !.pc = "buyPx"]
             retry == [task["scan"] EXCEPT !.pc = "buySwap", !.res = "none"]
  <1>8. \A r \in {again, bought, retry} :
          r.pc \in BuyingPC /\ r.cands = task["scan"].cands /\ r.cur = task["scan"].cur
    BY <1>1 DEF Task, BuyingPC
  <1> HIDE DEF again, bought, retry
  <1>9. ASSUME booksNothing, Set("scan", again) \/ Set("scan", bought) \/ TakeLock("scan", retry)
        PROVE  SoloKept
    <2>1. PICK r \in {again, bought, retry} : task'["scan"] = r \/ task'["scan"] = task["scan"]
      BY <1>1, <1>9, SetUntouched, TakeLockUntouched
    <2> QED
      BY <1>6, <1>8, <1>9, <2>1
  <1>10. CASE BuySwapReturns("scan")
    <2>1. UNCHANGED book /\ UNCHANGED risk => booksNothing
      BY DEF book, risk, Cooler
    <2> HIDE DEF booksNothing
    <2>2. \/ Opened("scan")
          \/ /\ booksNothing
             /\ Set("scan", again) \/ Set("scan", bought) \/ OpenFailed("scan")
                \/ Set("scan", Resting("scan"))
      BY <1>10, <2>1 DEF BuySwapReturns, again, bought
    <2> QED
      BY <1>2, <1>5, <1>7, <1>9, <2>2, ScanBooks DEF booksNothing
  <1>11. CASE BuyRetries("scan")
    BY <1>9, <1>11 DEF BuyRetries, retry, book, risk, Cooler
  <1>12. CASE BuyPriceReturns("scan")
    <2>1. \/ Opened("scan")
          \/ Set("scan", Resting("scan")) /\ UNCHANGED book /\ UNCHANGED risk
      BY <1>12 DEF BuyPriceReturns
    <2> QED
      BY <1>2, <1>5, <2>1, ScanBooks DEF book, risk, Cooler
  <1> QED
    BY <1>10, <1>11, <1>12 DEF Buying

LEMMA ScanSolo ==
  ASSUME Solo, ScanStep
  PROVE  SoloKept
  BY ScanLooks, ScanChooses, ScanBuys DEF ScanStep

-----------------------------------------------------------------------------
(* The boot *)

LEMMA BootMoves ==
  ASSUME Solo, task'["owner"] = task["owner"], task'["scan"].pc \in {"dead", "top"},
         task["scan"].pc = "dead", Cooler, DupFree(positions'),
         task'["boot"].pc \in Resuming, task'["boot"].cmd \in {"none", "start"},
         task'["boot"].pc \in ReconcilePC => Traces(task'["boot"]),
         task'["boot"].pc # "idle" => task'["scan"].pc = "dead"
  PROVE  SoloKept
  <1>1. \A t \in Builders : task'[t].pc \in ReconcilePC => Traces(task'[t])
    BY DEF Builders, ReconcilePC
  <1>2. Data'
    BY <1>1, DataQuiet DEF Solo, Committed, BuyingPC
  <1> QED
    BY <1>2 DEF Solo, SoloKept, Roles, CapKept, BuyingPC

LEMMA BootSolo ==
  ASSUME Solo, BootStep
  PROVE  SoloKept
  <1>1. Safe /\ Data /\ "boot" \in Tasks /\ "boot" \in Builders /\ task["boot"] \in Task
    BY TaskNames DEF Solo, Builders, Safe, TypeInv, TypeOK
  <1>2. task["scan"].pc = "dead" /\ task["boot"].cmd \in {"none", "start"}
    <2>1. task["boot"].pc # "idle"
      BY DEF BootStep, BootResumes, ReconcilingSteps, ReconcileBalance, ReconcilePrice,
             ImportReads, ImportApplies, StartDone, Announced, At
    <2> QED
      BY <2>1 DEF Solo, Roles
  <1>3. ASSUME NEW r, Set("boot", r), UNCHANGED book, UNCHANGED risk, r.pc \in Resuming,
               r.cmd \in {"none", "start"}, r.pc \in ReconcilePC => Traces(r)
        PROVE  SoloKept
    <2>1. task'["boot"] = r /\ task'["scan"] = task["scan"] /\ task'["owner"] = task["owner"]
      BY <1>1, <1>3, SetUntouched, TaskNames DEF Untouched
    <2>2. Cooler /\ DupFree(positions')
      BY <1>1, <1>3, BookDupFree DEF book, risk, Cooler
    <2>3. /\ task'["scan"].pc = "dead" /\ task'["scan"].pc \in {"dead", "top"}
          /\ task'["boot"].pc \in Resuming /\ task'["boot"].cmd \in {"none", "start"}
          /\ task'["boot"].pc \in ReconcilePC => Traces(task'["boot"])
      BY <1>2, <1>3, <2>1
    <2> QED
      BY <1>2, <2>1, <2>2, <2>3, BootMoves
  <1>4. CASE BootResumes
    <2>1. UNCHANGED book /\ UNCHANGED risk /\ positions' = positions
      BY <1>4 DEF BootResumes, book
    <2>2. \/ Set("boot", Fresh)
          \/ \E r \in Reconciling(Command("start")) : Set("boot", r)
      BY <1>4 DEF BootResumes
    <2>3. CASE Set("boot", Fresh)
      <3> DEFINE r == Fresh
      <3>1. r.pc = "idle" /\ r.cmd = "none"
        BY DEF Fresh
      <3> HIDE DEF r
      <3> QED
        BY <1>3, <2>1, <2>3, <3>1 DEF r, Resuming, ReconcilePC
    <2>4. CASE \E r \in Reconciling(Command("start")) : Set("boot", r)
      <3>1. PICK r \in Reconciling(Command("start")) : Set("boot", r)
        BY <2>4
      <3>2. Command("start") \in Task /\ Command("start").kept = {} /\ Command("start").cmd = "start"
        BY FreshTyped, NewCmds DEF PCs, HandlerPC, OwnerCommands, Command, Fresh
      <3>3. r.cmd = "start"
        BY <3>1, <3>2, ReconcilingCmd
      <3>4. r.pc = "impRead" \/ (r.pc = "recBal" /\ Traces(r))
        BY <1>1, <2>1, <3>1, <3>2, ReconcilingTraces
      <3> QED
        BY <1>3, <2>1, <3>1, <3>3, <3>4 DEF Resuming, RecPC, ReconcilePC
    <2> QED
      BY <2>2, <2>3, <2>4
  <1>5. CASE ReconcilingSteps("boot")
    <2>1. /\ DupFree(positions') /\ Cooler
          /\ task'["boot"].pc \in ReconcilePC => Traces(task'["boot"])
      BY <1>1, <1>5, BuilderTraces
    <2>2. /\ Others("boot") /\ task'["boot"].pc \in RecPC \cup {"recDone"}
          /\ task'["boot"].cmd = task["boot"].cmd
      BY <1>1, <1>5, ReconcilingMoves
    <2>3. Keeps("scan") /\ Keeps("owner")
      BY <2>2, TaskNames DEF Others
    <2>4. task'["scan"].pc = "dead"
      BY <1>2, <2>3 DEF Keeps
    <2>5. \A t \in Builders : task'[t].pc \in ReconcilePC => Traces(task'[t])
      BY <2>1, <2>4 DEF Builders, ReconcilePC
    <2>6. Data'
      BY <1>1, <2>1, <2>4, <2>5, DataQuiet DEF Committed, BuyingPC
    <2> QED
      BY <1>2, <2>2, <2>3, <2>4, <2>6 DEF Solo, SoloKept, Roles, CapKept, Keeps, BuyingPC, Resuming
  <1>6. CASE StartDone("boot")
    <2> DEFINE r == [Command(task["boot"].cmd) EXCEPT !.pc = "announce", !.cands = task["boot"].cands]
    <2>1. r.pc = "announce" /\ r.cmd = task["boot"].cmd
      BY NewPCs, NewCmds
    <2>2. Set("boot", r) /\ UNCHANGED book /\ UNCHANGED risk
      BY <1>6 DEF StartDone
    <2> HIDE DEF r
    <2> QED
      BY <1>2, <1>3, <2>1, <2>2 DEF Resuming, ReconcilePC
  <1>7. CASE Announced("boot")
    <2> DEFINE tasks == [task EXCEPT !["boot"] = Fresh]
    <2>1. ReplaceLoops("top", tasks) /\ UNCHANGED book /\ UNCHANGED risk
      <3>1. task["boot"].cmd # "buy"
        BY <1>2
      <3> QED
        BY <1>7, <3>1 DEF Announced, StartLoops, Solo, Safe, TypeInv, TypeOK
    <2>2. tasks["owner"] = task["owner"] /\ tasks["boot"] = Fresh
      BY <1>1, TaskNames DEF Safe, TypeInv, TypeOK
    <2> HIDE DEF tasks
    <2>3. task'["scan"].pc = "top" /\ task'["owner"] = task["owner"] /\ task'["boot"] = Fresh
      BY <1>1, <2>1, <2>2, ReplaceOthers
    <2>4. Cooler /\ DupFree(positions')
      BY <1>1, <2>1, BookDupFree DEF book, risk, Cooler
    <2>5. Fresh.pc = "idle" /\ Fresh.cmd = "none"
      BY DEF Fresh
    <2> QED
      BY <1>2, <2>3, <2>4, <2>5, BootMoves DEF Resuming, ReconcilePC
  <1> QED
    BY <1>4, <1>5, <1>6, <1>7 DEF BootStep

-----------------------------------------------------------------------------
(* The owner, who only sells and stops *)

LEMMA OwnerHolds ==
  ASSUME Solo, Untouched("owner"), task'["owner"].pc \in Settled, Takes
  PROVE  SoloKept
  <1>1. "owner" \in Tasks \ Builders
    BY TaskNames DEF Builders
  <1>2. Data' /\ task'["scan"] = task["scan"] /\ task'["boot"] = task["boot"]
    BY <1>1, UntouchedKeeps DEF Solo
  <1> QED
    BY <1>2 DEF Solo, SoloKept, Roles, CapKept, BuyingPC

LEMMA OwnerSetsSolo ==
  ASSUME Solo, NEW r, Set("owner", r), r.pc \in Settled, UNCHANGED book, UNCHANGED risk
  PROVE  SoloKept
  <1>1. task'["owner"] = r /\ Untouched("owner")
    BY SetUntouched, TaskNames DEF Solo
  <1> QED
    BY <1>1, OwnerHolds DEF Takes, Cooler, book, risk

LEMMA OwnerCancels ==
  ASSUME Solo, NEW tasks, CancelLoops(tasks), tasks["boot"] = task["boot"],
         tasks["owner"].pc \in Settled, UNCHANGED book, UNCHANGED risk
  PROVE  SoloKept
  <1>1. task'["scan"].pc = "dead" /\ task'["owner"] = tasks["owner"] /\ task'["boot"] = task["boot"]
    BY ReplaceOthers DEF Solo, CancelLoops
  <1>2. Data'
    BY <1>1, ShrinkKeeps DEF Solo, Same, Idling, Cooler, book, risk
  <1> QED
    BY <1>1, <1>2 DEF Solo, SoloKept, Roles, CapKept, book

\* The owner's handler never ends in a loop.
LEMMA NotTop ==
  ASSUME Safe, SellingSteps("owner")
  PROVE  task'["owner"].pc # "top"
  <1>1. "owner" \in Tasks /\ task["owner"] \in Task
    BY TaskNames DEF Safe, TypeInv, TypeOK
  <1>2. Resting("owner").pc = "idle"
    BY NewPCs, TaskNames
  <1>3. task["owner"].pc # "top"
    BY DEF SellingSteps, SellBalance, SellGoes, SellSwapReturns, SellRetries, At
  <1>4. ASSUME NEW r, r.pc # "top", Set("owner", r) \/ TakeLock("owner", r)
        PROVE  task'["owner"].pc # "top"
    BY <1>1, <1>3, <1>4, SetUntouched, TakeLockUntouched
  <1> DEFINE x == [task["owner"] EXCEPT !.pc = "sellSwap", !.read = {}]
             dust == [task["owner"] EXCEPT !.pc = "sellOut", !.read = {}, !.res = "dust"]
             again == [task["owner"] EXCEPT !.pc = "sellWait", !.retried = TRUE]
             failed == [task["owner"] EXCEPT !.pc = "sellOut", !.res = "fail"]
             sold == [task["owner"] EXCEPT !.pc = "sellOut"]
             retry == [task["owner"] EXCEPT !.pc = "sellSwap", !.res = "none"]
  <1>a. /\ x.pc = "sellSwap" /\ dust.pc = "sellOut" /\ again.pc = "sellWait"
        /\ failed.pc = "sellOut" /\ sold.pc = "sellOut" /\ retry.pc = "sellSwap"
    BY <1>1, UpdatedPCs
  <1> HIDE DEF x, dust, again, failed, sold, retry
  <1>5. \A r \in {x, dust, again, failed, sold, retry} : r.pc # "top"
    BY <1>a
  <1>6. CASE SellBalance("owner")
    <2>1. PICK w : Set("owner", [task["owner"] EXCEPT !.pc = "sellDec", !.read = w])
      BY <1>6 DEF SellBalance
    <2> DEFINE r == [task["owner"] EXCEPT !.pc = "sellDec", !.read = w]
    <2>2. r.pc = "sellDec" /\ Set("owner", r)
      BY <1>1, <2>1, UpdatedPCs
    <2> HIDE DEF r
    <2> QED
      BY <1>4, <2>2
  <1>7. CASE SellGoes("owner")
    <2>1. TakeLock("owner", x) \/ Set("owner", dust)
      BY <1>7 DEF SellGoes, x, dust
    <2> QED
      BY <1>4, <1>5, <2>1
  <1>8. CASE SellSwapReturns("owner")
    <2>1. Set("owner", again) \/ Set("owner", failed) \/ Set("owner", sold)
          \/ Set("owner", Resting("owner"))
      BY <1>8 DEF SellSwapReturns, again, failed, sold
    <2> DEFINE rest == Resting("owner")
    <2>2. rest.pc # "top"
      BY <1>2
    <2> HIDE DEF rest
    <2>3. PICK r \in {again, failed, sold, rest} : Set("owner", r)
      BY <2>1 DEF rest
    <2> QED
      BY <1>4, <1>5, <2>2, <2>3
  <1>9. CASE SellRetries("owner")
    <2>1. TakeLock("owner", retry)
      BY <1>9 DEF SellRetries, retry
    <2> QED
      BY <1>4, <1>5, <2>1
  <1> QED
    BY <1>6, <1>7, <1>8, <1>9 DEF SellingSteps

LEMMA OwnerSoloSteps ==
  ASSUME Solo, OwnerStep
  PROVE  SoloKept
  <1>1. Safe /\ "owner" \in Tasks /\ task["owner"] \in Task /\ task \in [Tasks -> Task]
    BY TaskNames DEF Solo, Safe, TypeInv, TypeOK
  <1>2. /\ {"idle", "sellBal", "sellNext", "transfer"} \subseteq Settled
        /\ SellPC \cup {"idle"} \subseteq Settled
    BY DEF Settled, SellPC
  <1>3. ~\/ ReconcilingSteps("owner") \/ StartDone("owner") \/ Announced("owner") \/ RestartReads
         \/ ForceBuyGate \/ OwnerValidated \/ Buying("owner")
    <2>1. task["owner"].pc \in Settled
      BY DEF Solo, Roles
    <2> QED
      BY <2>1 DEF ReconcilingSteps, ReconcileBalance, ReconcilePrice, ImportReads, ImportApplies,
                  StartDone, Announced, RestartReads, ForceBuyGate, OwnerValidated, Buying,
                  BuySwapReturns, BuyRetries, BuyPriceReturns, At, Settled, SellPC
  <1>4. ASSUME NEW r \in Task, NEW S, NEW l, l.pc \in Settled, SellFirst("owner", r, S, Set("owner", l)),
               UNCHANGED book, UNCHANGED risk
        PROVE  SoloKept
    <2>1. PICK q : Set("owner", q) /\ q.pc \in Settled
      BY <1>2, <1>4, SellFirstCmd
    <2> QED
      BY <1>4, <2>1, OwnerSetsSolo
  <1>5. ASSUME NEW r \in Task, NEW S, SellNext("owner", r, S), UNCHANGED book, UNCHANGED risk
        PROVE  SoloKept
    <2>1. PICK q : Set("owner", q) /\ q.pc \in Settled
      BY <1>2, <1>5, SellNextCmd
    <2> QED
      BY <1>5, <2>1, OwnerSetsSolo
  <1>6. Fresh.pc \in Settled
    BY <1>2, NewPCs
  <1>7. CASE PanicLiquidates
    BY <1>1, <1>4, <1>6, <1>7 DEF PanicLiquidates
  <1>8. CASE WithdrawTransfers
    <2> DEFINE tasks == [task EXCEPT !["owner"] = Fresh]
    <2>1. tasks["boot"] = task["boot"] /\ tasks["owner"] = Fresh
      BY <1>1, TaskNames
    <2>2. CancelLoops(tasks) \/ Set("owner", Fresh)
      BY <1>8 DEF WithdrawTransfers
    <2>3. UNCHANGED book /\ UNCHANGED risk
      BY <1>8 DEF WithdrawTransfers
    <2> HIDE DEF tasks
    <2> QED
      BY <1>6, <2>1, <2>2, <2>3, OwnerCancels, OwnerSetsSolo
  <1>9. CASE SellingSteps("owner")
    <2>1. Untouched("owner") /\ Takes
      BY <1>1, <1>9, SellingTakes
    <2>2. task'["owner"].pc \in SellPC \cup {"idle", "top"}
      BY <1>1, <1>9, SellingMoves
    <2>3. task'["owner"].pc # "top"
      BY <1>1, <1>9, NotTop
    <2> QED
      BY <1>2, <2>1, <2>2, <2>3, OwnerHolds
  <1>10. CASE OwnerSold
    <2> DEFINE away == [Fresh EXCEPT !.pc = "transfer", !.cmd = "withdraw"]
    <2>1. away.pc \in Settled
      BY <1>2, NewPCs
    <2>2. UNCHANGED book /\ UNCHANGED risk
      BY <1>10 DEF OwnerSold
    <2>3. \/ Set("owner", Fresh)
          \/ SellNext("owner", task["owner"], task["owner"].todo)
          \/ SellFirst("owner", task["owner"], task["owner"].todo, Set("owner", away))
          \/ SellFirst("owner", task["owner"], task["owner"].todo, Set("owner", Fresh))
      BY <1>10 DEF OwnerSold
    <2> HIDE DEF away
    <2> QED
      BY <1>1, <1>4, <1>5, <1>6, <2>1, <2>2, <2>3, OwnerSetsSolo
  <1>11. CASE SellSkips
    BY <1>1, <1>5, <1>11 DEF SellSkips
  <1> QED
    BY <1>3, <1>7, <1>8, <1>9, <1>10, <1>11 DEF OwnerStep

LEMMA OwnerSoloCommands ==
  ASSUME Undisturbed, Solo, OwnerCommand
  PROVE  SoloKept
  <1>1. Safe /\ "owner" \in Tasks /\ task["owner"] \in Task /\ task \in [Tasks -> Task]
    BY TaskNames DEF Solo, Safe, TypeInv, TypeOK
  <1>2. {"idle", "sellBal", "sellNext", "transfer", "panicOut"} \subseteq Settled
    BY DEF Settled, SellPC
  <1>3. ~(Start \/ Restart \/ Buy \/ Approve)
    BY DEF Undisturbed, Start, Restart, Buy, Approve, Receives
  <1>4. \A c \in OwnerCommands : Command(c) \in Task
    BY FreshTyped DEF PCs, HandlerPC
  <1>5. CASE Pause
    BY <1>1, <1>5, OwnerCancels DEF Pause, Solo, Roles
  <1>6. CASE Panic
    <2> DEFINE r == [Command("panic") EXCEPT !.pc = "panicOut"]
               tasks == [task EXCEPT !["owner"] = r]
    <2>1. r.pc \in Settled
      BY <1>2, NewPCs
    <2>2. CancelLoops(tasks) /\ UNCHANGED book /\ UNCHANGED risk
      BY <1>6 DEF Panic
    <2> HIDE DEF r
    <2>3. tasks["boot"] = task["boot"] /\ tasks["owner"] = r
      BY <1>1, TaskNames
    <2> HIDE DEF tasks
    <2> QED
      BY <2>1, <2>2, <2>3, OwnerCancels
  <1>7. CASE Withdraw
    <2> DEFINE away == [Command("withdraw") EXCEPT !.pc = "transfer"]
    <2>1. away.pc \in Settled
      BY <1>2, NewPCs
    <2>2. SellFirst("owner", Command("withdraw"), positions, Set("owner", away))
      BY <1>7 DEF Withdraw
    <2>3. UNCHANGED book /\ UNCHANGED risk
      BY <1>7 DEF Withdraw
    <2> HIDE DEF away
    <2>4. PICK q : Set("owner", q) /\ q.pc \in Settled
      BY <1>2, <1>4, <2>1, <2>2, SellFirstCmd DEF OwnerCommands
    <2> QED
      BY <2>3, <2>4, OwnerSetsSolo
  <1>8. CASE Sell
    <2>1. \A p : Selling(Command("sell"), p, {}).pc = "sellBal"
      BY <1>4, UpdatedPCs DEF OwnerCommands
    <2>2. PICK q : Set("owner", q) /\ q.pc \in Settled
      BY <1>2, <1>8, <2>1 DEF Sell
    <2>3. UNCHANGED book /\ UNCHANGED risk
      BY <1>8 DEF Sell
    <2> QED
      BY <2>2, <2>3, OwnerSetsSolo
  <1>9. CASE SellAll
    <2>1. PICK q : Set("owner", q) /\ q.pc \in Settled
      BY <1>2, <1>4, <1>9, SellNextCmd DEF SellAll, OwnerCommands
    <2>2. UNCHANGED book /\ UNCHANGED risk
      BY <1>9 DEF SellAll
    <2> QED
      BY <2>1, <2>2, OwnerSetsSolo
  <1>10. CASE Reject \/ SetCopilot
    <2>1. task' = task /\ UNCHANGED book /\ UNCHANGED risk
      BY <1>10 DEF Reject, SetCopilot
    <2> QED
      BY <2>1, OwnerHolds DEF Solo, Roles, Untouched, Takes, Cooler, book, risk
  <1> QED
    BY <1>3, <1>5, <1>6, <1>7, <1>8, <1>9, <1>10 DEF OwnerCommand

-----------------------------------------------------------------------------
(* The theorems *)

\* Time passes, a swap thread lands, or nothing happens.
LEMMA OthersSolo ==
  ASSUME Solo, \/ (\E t \in Tasks : SwapLands(t)) \/ DetachedLands \/ ProposalExpires
               \/ CooldownElapses \/ UNCHANGED vars
  PROVE  SoloKept
  <1>1. Safe /\ Data /\ "scan" \in Tasks /\ "boot" \in Tasks /\ "owner" \in Tasks
    BY TaskNames DEF Solo
  <1>2. Takes
    <2>1. (\E t \in Tasks : SwapLands(t)) \/ DetachedLands \/ ProposalExpires \/ UNCHANGED vars
            => UNCHANGED book /\ UNCHANGED risk
      BY DEF SwapLands, DetachedLands, ProposalExpires, vars, book, risk
    <2>2. CooldownElapses => UNCHANGED book /\ recentBuys' = 0
      BY DEF CooldownElapses
    <2> QED
      BY <2>1, <2>2 DEF Takes, Cooler, book, risk
  <1>3. \A u \in Tasks : Same(u)
    <2>1. ASSUME NEW t \in Tasks, SwapLands(t) PROVE \A u \in Tasks : Same(u)
      <3>1. PICK out : Set(t, [task[t] EXCEPT !.res = out])
        BY <2>1 DEF SwapLands
      <3> DEFINE r == [task[t] EXCEPT !.res = out]
      <3>2. /\ r.pc = task[t].pc /\ r.cmd = task[t].cmd /\ r.live = task[t].live
            /\ r.kept = task[t].kept /\ r.cur = task[t].cur /\ r.cands = task[t].cands
        BY <1>1 DEF Safe, TypeInv, TypeOK, Task
      <3>3. Set(t, r)
        BY <3>1
      <3> HIDE DEF r
      <3>4. task'[t] = r /\ Untouched(t)
        BY <1>1, <3>3, SetUntouched
      <3> QED
        BY <3>2, <3>4 DEF Untouched, Same
    <2>2. CASE task' = task
      BY <2>2 DEF Same
    <2> QED
      BY <2>1, <2>2 DEF DetachedLands, ProposalExpires, CooldownElapses, vars
  <1>4. Data'
    BY <1>1, <1>2, <1>3, ShrinkKeeps DEF Takes
  <1> QED
    BY <1>1, <1>3, <1>4 DEF Solo, SoloKept, Roles, CapKept, Same, BuyingPC

LEMMA InitSolo == Init => Solo
  <1> SUFFICES ASSUME Init PROVE Solo
    OBVIOUS
  <1>1. /\ task["scan"] = Parked("dead") /\ task["owner"] = Parked("idle")
        /\ task["boot"] = Parked("boot") \/ task["boot"] = Parked("idle")
    BY TaskNames DEF Init
  <1>2. \A l : Parked(l).pc = l /\ Parked(l).cmd = "none"
    BY NewPCs, NewCmds
  <1>3. Roles
    BY <1>1, <1>2 DEF Roles, Settled, Resuming
  <1>4. DupFree(positions)
    BY DEF Init, DupFree
  <1>5. Walks
    BY <1>1, <1>2, <1>4 DEF Walks, Builders, Traced, ReconcilePC, DupFree
  <1>6. Chooses /\ Spaced /\ Capped
    BY <1>1, <1>2 DEF Init, Chooses, Spaced, Capped, Committed, BuyingPC
  <1> QED
    BY <1>3, <1>5, <1>6, InitSafe DEF Solo, Data

LEMMA StepSolo == Undisturbed /\ Solo /\ [Next]_vars => Solo' /\ CapKept
  <1> SUFFICES ASSUME Undisturbed, Solo, [Next]_vars PROVE SoloKept
    BY StepSafe DEF Solo, SoloKept
  <1>1. CASE MonitorStep
    BY <1>1, MonitorSolo DEF SoloKept, CapKept
  <1> QED
    BY <1>1, ScanSolo, BootSolo, OwnerSoloSteps, OwnerSoloCommands, OthersSolo DEF Next

\* As long as the owner starts, restarts, buys and approves nothing, no token is ever tracked
\* twice: what _import_orphans or run_cycle adds to self.positions was not there when it was
\* chosen, and is still not there when it is added.
THEOREM BookCorrect == Undisturbed /\ Spec => []DuplicateFreeBook
  <1> SUFFICES ASSUME Undisturbed PROVE Spec => []DuplicateFreeBook
    OBVIOUS
  <1>1. Solo => DuplicateFreeBook
    BY BookDupFree DEF Solo, DupFree, DuplicateFreeBook
  <1> QED
    BY <1>1, InitSolo, StepSolo, PTL DEF Spec

\* Under the same condition two purchases never fall in one cooldown: the gate of
\* can_open_position saw none running, and nobody else records one before _open does.
THEOREM SpacingCorrect == Undisturbed /\ Spec => []CooldownSpacesBuys
  <1> SUFFICES ASSUME Undisturbed PROVE Spec => []CooldownSpacesBuys
    OBVIOUS
  <1>1. Solo => CooldownSpacesBuys
    BY DEF Solo, Data, Spaced, CooldownSpacesBuys
  <1> QED
    BY <1>1, InitSolo, StepSolo, PTL DEF Spec

\* Under the same condition the purchase that a cycle books never lifts the book above
\* max_concurrent_positions, checked before the brain, the validation and the swap.
THEOREM CapCorrect == Undisturbed /\ Spec => ScanRespectsCap
  <1> SUFFICES ASSUME Undisturbed PROVE Spec => ScanRespectsCap
    OBVIOUS
  <1>1. CapKept => [task["scan"].pc \in BuyingPC /\ task'["scan"].pc = "top" /\ nextId' # nextId
                      => Cardinality(positions') <= MaxConcurrent]_vars
    BY DEF CapKept
  <1> QED
    BY <1>1, InitSolo, StepSolo, PTL DEF Spec, ScanRespectsCap
=============================================================================
