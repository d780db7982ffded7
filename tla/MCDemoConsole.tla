--------------------------- MODULE MCDemoConsole ---------------------------
(***************************************************************************)
(* The market that TLC reads: both tokens at 50, or one of them doubled    *)
(* and the other without a quote.                                          *)
(***************************************************************************)
EXTENDS DemoConsole

TwoTokens == {"a", "b"}
TwoMarkets == {[t \in TwoTokens |-> 50], [t \in TwoTokens |-> IF t = "a" THEN 0 ELSE 100]}
=============================================================================
