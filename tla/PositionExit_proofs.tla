------------------------ MODULE PositionExit_proofs ------------------------
(***************************************************************************)
(* Theorems about PositionExit, for every set of prices, strategies and    *)
(* owner configurations.                                                   *)
(***************************************************************************)
EXTENDS PositionExit, TLAPS

(***************************************************************************)
(* A restart brings back the saved copy, so what holds of the position has *)
(* to hold of the copy too.  That the stop lies below the peak is not      *)
(* inductive without the peak having started at the entry.                 *)
(***************************************************************************)
Sound(p) ==
  /\ p \in Watched
  /\ p.active => p.stop >= entry * Whole
  /\ p.peak >= entry
  /\ p.stop < p.peak * Whole

ExitInv == TypeOK /\ Sound(pos) /\ Sound(disk)

LEMMA Fields ==
  ASSUME NEW p \in Watched
  PROVE  /\ p.stop \in Nat /\ p.active \in BOOLEAN
         /\ p.peak \in Prices /\ p.peak \in Nat
         /\ p.last \in Nat
  <1>1. \A x \in Prices : x \in Nat /\ x > 0
    BY ExitAssumption
  <1>2. p.stop \in Nat /\ p.active \in BOOLEAN /\ p.peak \in Prices /\ p.last \in Prices \cup {0}
    BY DEF Watched
  <1> QED
    BY <1>1, <1>2

-----------------------------------------------------------------------------
(* The parameters in force *)

LEMMA Parameters ==
  ASSUME TypeOK
  PROVE  /\ Trigger \in Nat \ {0}
         /\ Trail \in Nat /\ 0 < Trail /\ Trail < Whole
  <1>1. /\ spec.stop \in Percent /\ spec.trail \in Percent
        /\ spec.trigger \in Nat \ {1}
        /\ user.stop \in Percent \ {0}
        /\ TrailTrigger \in Nat \ {0, 1}
    BY ExitAssumption DEF TypeOK, ExitSpec
  <1>a. \A x \in Percent : x \in Nat /\ x < Whole
    BY DEF Percent, Whole
  <1>2. StopPct \in Nat /\ 0 < StopPct /\ StopPct < Whole
    <2>1. CASE spec.stop > 0
      <3>1. StopPct = spec.stop
        BY <2>1 DEF StopPct
      <3> QED
        BY <3>1, <2>1, <1>1, <1>a
    <2>2. CASE ~(spec.stop > 0)
      <3>1. StopPct = user.stop
        BY <2>2 DEF StopPct
      <3> QED
        BY <3>1, <1>1, <1>a
    <2> QED
      BY <2>1, <2>2
  <1>3. Trigger \in Nat \ {0}
    BY <1>1 DEF Trigger
  <1> DEFINE d == IF spec.trail > 0 THEN spec.trail ELSE StopPct
  <1>4. d \in Nat /\ 0 < d /\ d < Whole
    BY <1>1, <1>2, <1>a
  <1> HIDE DEF d
  <1>5. (d * 6) \div 10 \in Nat /\ (d * 6) \div 10 < Whole
    BY <1>4 DEF Whole
  <1>6. Trail = IF greedy THEN Higher((d * 6) \div 10, 50) ELSE d
    BY DEF Trail, d
  <1> QED
    BY <1>3, <1>4, <1>5, <1>6 DEF Higher, Whole

\* A stop that follows a peak lies between zero and that peak.
LEMMA BelowPeak ==
  ASSUME NEW peak \in Nat, peak > 0, NEW d \in Nat, 0 < d, d < Whole
  PROVE  peak * (Whole - d) \in Nat /\ peak * (Whole - d) < peak * Whole
  BY DEF Whole

-----------------------------------------------------------------------------
(* One tick of the monitor *)

LEMMA TrailedSound ==
  ASSUME ExitInv, NEW price \in Prices
  PROVE  Sound(Trailed(price))
  <1> DEFINE peak == Higher(pos.peak, price)
             arms == ~pos.active /\ Gained(price, Trigger)
             active == pos.active \/ arms
             even == IF arms THEN Higher(pos.stop, entry * Whole) ELSE pos.stop
             raised == IF active THEN Higher(even, peak * (Whole - Trail)) ELSE even
  <1>1. /\ entry \in Nat /\ entry > 0 /\ price \in Nat /\ price > 0
        /\ pos.peak \in Nat /\ pos.stop \in Nat /\ pos.active \in BOOLEAN
        /\ pos.peak \in Prices
    <2>1. pos \in Watched /\ entry \in Entries
      BY DEF ExitInv, TypeOK
    <2>2. \A x \in Prices \cup Entries : x \in Nat /\ x > 0
      BY ExitAssumption
    <2> QED
      BY <2>1, <2>2, Fields
  <1>2. /\ pos.active => pos.stop >= entry * Whole
        /\ pos.peak >= entry
        /\ pos.stop < pos.peak * Whole
    BY DEF ExitInv, Sound
  <1>3. peak \in Prices /\ peak \in Nat /\ peak > 0 /\ peak >= pos.peak /\ peak >= price
    BY <1>1, ExitAssumption DEF Higher
  <1>4. peak >= entry /\ pos.stop < peak * Whole
    BY <1>1, <1>2, <1>3 DEF Whole
  <1>5. arms => price > entry
    <2>1. Trigger \in Nat \ {0}
      BY Parameters DEF ExitInv
    <2>2. Gained(price, Trigger) => price * Whole >= entry * (Whole + Trigger)
      BY DEF Gained
    <2>3. entry * (Whole + Trigger) > entry * Whole
      BY <1>1, <2>1 DEF Whole
    <2> QED
      BY <1>1, <2>1, <2>2, <2>3 DEF Whole
  <1>6. even \in Nat /\ even < peak * Whole /\ (active => even >= entry * Whole)
    BY <1>1, <1>2, <1>3, <1>4, <1>5 DEF Higher, Whole
  <1>7. peak * (Whole - Trail) \in Nat /\ peak * (Whole - Trail) < peak * Whole
    BY <1>3, BelowPeak, Parameters DEF ExitInv
  <1>8. raised \in Nat /\ raised < peak * Whole /\ (active => raised >= entry * Whole)
    BY <1>1, <1>3, <1>6, <1>7 DEF Higher, Whole
  <1>9. CASE TakesProfit(price)
    <2>1. Trailed(price) = [pos EXCEPT !.peak = peak, !.last = price]
      BY <1>9 DEF Trailed
    <2> HIDE DEF peak
    <2> QED
      BY <2>1, <1>1, <1>2, <1>3, <1>4 DEF Sound, Watched, ExitInv, TypeOK
  <1>10. CASE ~TakesProfit(price)
    <2>1. Trailed(price) = [stop |-> raised, active |-> active, peak |-> peak, last |-> price]
      BY <1>10 DEF Trailed
    <2>2. active \in BOOLEAN
      BY <1>1 DEF Gained
    <2> HIDE DEF peak, active, raised
    <2> QED
      BY <2>1, <2>2, <1>3, <1>4, <1>8 DEF Sound, Watched
  <1> QED
    BY <1>9, <1>10

-----------------------------------------------------------------------------
(* The invariant *)

LEMMA OpenedSound ==
  ASSUME NEW u \in UserConfigs, NEW s \in ExitSpec, NEW e \in Entries, entry = e
  PROVE  Sound(Opened(s, e, u))
  <1>1. e \in Nat /\ e > 0 /\ e \in Prices /\ u.stop \in Percent \ {0} /\ s.stop \in Percent
    BY ExitAssumption DEF ExitSpec
  <1> DEFINE stop == IF s = Imported THEN e * (Whole - u.stop)
                     ELSE IF s.stop > 0 THEN e * (Whole - s.stop) ELSE 0
  <1>2. \A d \in Percent \ {0} : e * (Whole - d) \in Nat /\ e * (Whole - d) < e * Whole
    BY <1>1, BelowPeak DEF Percent, Whole
  <1>3. 0 < e * Whole
    BY <1>1 DEF Whole
  <1>4. stop \in Nat /\ stop < e * Whole
    <2>1. s.stop > 0 => s.stop \in Percent \ {0}
      BY <1>1 DEF Percent
    <2> QED
      BY <1>1, <1>2, <1>3, <2>1
  <1>5. Opened(s, e, u) = [stop |-> stop, active |-> FALSE, peak |-> e, last |-> 0]
    BY DEF Opened
  <1> HIDE DEF stop
  <1> QED
    BY <1>1, <1>4, <1>5 DEF Sound, Watched

LEMMA ExitInit == Init => ExitInv
  <1> SUFFICES ASSUME Init PROVE ExitInv
    OBVIOUS
  <1>1. user \in UserConfigs /\ entry \in Entries
    BY DEF Init
  <1>2. user.stop \in Percent /\ user.target \in Nat
    BY <1>1, ExitAssumption
  <1>3. spec \in ExitSpec
    <2>1. Imported \in ExitSpec
      BY DEF Imported, ExitSpec, Percent, Whole
    <2>2. Manual(user) \in ExitSpec
      <3>1. Manual(user) = [stop |-> user.stop, target |-> user.target, trigger |-> 0,
                            trail |-> 0, band |-> 0]
        BY DEF Manual
      <3>2. 0 \in Percent /\ 0 \in Nat \ {1}
        BY DEF Percent, Whole
      <3> QED
        BY <3>1, <3>2, <1>2 DEF ExitSpec
    <2> QED
      BY <2>1, <2>2, ExitAssumption DEF Init
  <1>4. Sound(pos) /\ Sound(disk)
    BY <1>1, <1>3, OpenedSound DEF Init
  <1> QED
    BY <1>1, <1>3, <1>4 DEF ExitInv, TypeOK, Sound, Init

\* What the surroundings change leaves the position alone.
LEMMA ExitStep == ExitInv /\ [Next]_vars => ExitInv'
  <1> SUFFICES ASSUME ExitInv, [Next]_vars PROVE ExitInv'
    OBVIOUS
  <1> USE DEF ExitInv
  <1>1. ASSUME NEW price \in Prices, TickSells(price) PROVE ExitInv'
    <2>1. Sound(Trailed(price))
      BY TrailedSound
    <2>2. Signal(price) = "hold" \/ Signal(price) \in Exits
      BY DEF Signal, Exits
    <2>3. Sound(pos)'
      BY <1>1, <2>1 DEF TickSells, Sound
    <2> QED
      BY <1>1, <2>2, <2>3 DEF TickSells, TypeOK, Sound, Exits
  <1>2. ASSUME NEW price \in Prices, TickKeeps(price) PROVE ExitInv'
    <2>1. Sound(Trailed(price))
      BY TrailedSound
    <2>2. Sound(pos)'
      BY <1>2, <2>1 DEF TickKeeps, Sound
    <2> QED
      BY <1>2, <2>2 DEF TickKeeps, TypeOK, Sound
  <1>3. CASE Save
    BY <1>3 DEF Save, TypeOK, Sound
  <1>4. CASE Restart
    BY <1>4 DEF Restart, TypeOK, Sound
  <1>5. CASE MarketMoves
    BY <1>5 DEF MarketMoves, TypeOK, Sound
  <1>6. CASE MoodTurns
    BY <1>6 DEF MoodTurns, TypeOK, Sound
  <1>7. CASE TimePasses
    BY <1>7 DEF TimePasses, TypeOK, Sound
  <1>8. CASE Configure
    BY <1>8 DEF Configure, TypeOK, Sound
  <1>9. CASE UNCHANGED vars
    BY <1>9 DEF vars, TypeOK, Sound
  <1> QED
    BY <1>1, <1>2, <1>3, <1>4, <1>5, <1>6, <1>7, <1>8, <1>9 DEF Next

-----------------------------------------------------------------------------
(* The theorems *)

\* Every field of the position stays in range, whatever the market, the mood, the owner
\* and the restarts do.
THEOREM ExitTypeCorrect == Spec => []TypeOK
  <1>1. ExitInv => TypeOK
    BY DEF ExitInv
  <1> QED
    BY <1>1, ExitInit, ExitStep, PTL DEF Spec

\* Break-even: with the trailing armed the stop never lies below the entry.
THEOREM ExitLocked == Spec => []BreakEvenLocked
  <1>1. ExitInv => BreakEvenLocked
    BY DEF ExitInv, Sound, BreakEvenLocked
  <1> QED
    BY <1>1, ExitInit, ExitStep, PTL DEF Spec

\* The tick that makes a new high never stops the position out.
THEOREM ExitNewHigh == Spec => NewHighNotStopped
  <1>1. ASSUME ExitInv, [Next]_vars, status' = "stopped", status = "held"
        PROVE  pos'.last < pos'.peak
    <2>1. PICK price \in Prices : TickSells(price)
      BY <1>1 DEF Next, TickKeeps, Save, Restart, MarketMoves, MoodTurns, TimePasses,
                  Configure, vars
    <2>2. Signal(price) = "stopped"
      BY <1>1, <2>1 DEF TickSells
    <2>3. Stopped(pos')
      BY <2>1, <2>2 DEF TickSells, Signal
    <2>4. Sound(pos')
      BY <1>1, <2>1, TrailedSound DEF TickSells
    <2>5. pos'.last \in Nat /\ pos'.peak \in Nat /\ pos'.stop \in Nat
      BY <2>4, Fields DEF Sound
    <2> QED
      BY <2>3, <2>4, <2>5 DEF Stopped, Sound, Whole
  <1>2. ExitInv /\ [Next]_vars
          => [status' = "stopped" /\ status = "held" => pos'.last < pos'.peak]_vars
    BY <1>1
  <1> QED
    BY <1>2, ExitInit, ExitStep, PTL DEF Spec, NewHighNotStopped
=============================================================================
