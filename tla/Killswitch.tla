----------------------------- MODULE Killswitch -----------------------------
(***************************************************************************)
(* What the orchestrator promises of its killswitch, whatever its tasks    *)
(* do: a cycle runs only while the agent trades, it commits itself to a    *)
(* purchase only while the latch is open, and the latch closes only when   *)
(* no cycle is committed.  Module Agent implements it.                     *)
(***************************************************************************)
VARIABLES
  trading,   \* the agent is in one of its trading states
  latch,     \* the risk engine is halted
  cycle      \* the scan cycle: "rest", "looking" or "committed" to candidates it may buy
vars == <<trading, latch, cycle>>

Init == trading \in BOOLEAN /\ latch = FALSE /\ cycle = "rest"

\* The owner, a boot or a purchase makes the agent trade.
Resumes == trading' = TRUE /\ UNCHANGED <<latch, cycle>>

Begins == trading /\ cycle = "rest" /\ cycle' = "looking" /\ UNCHANGED <<trading, latch>>
Commits == cycle = "looking" /\ ~latch /\ cycle' = "committed" /\ UNCHANGED <<trading, latch>>

\* A cycle ends or is replaced, perhaps with a purchase.
Ends == cycle' = "rest" /\ trading' \in {trading, TRUE} /\ UNCHANGED latch

\* Whatever stops the agent takes the cycle with it.
Stops == trading' = FALSE /\ cycle' = "rest" /\ latch' \in {latch, TRUE}

Latches == cycle # "committed" /\ latch' = TRUE /\ UNCHANGED <<trading, cycle>>
Unlatches == latch' = FALSE /\ UNCHANGED <<trading, cycle>>

Next == Resumes \/ Begins \/ Commits \/ Ends \/ Stops \/ Latches \/ Unlatches
Spec == Init /\ [][Next]_vars

\* A closed latch leaves nothing that could buy, and no cycle outlives the trading.
Frozen == /\ latch => cycle # "committed"
          /\ cycle # "rest" => trading
=============================================================================
