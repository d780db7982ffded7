--------------------------- MODULE MCPositionExit ---------------------------
(***************************************************************************)
(* Values for PositionExit: the strategies of boomerang/strategy/playbook  *)
(* and the limits of config.json, prices in percent of the entry.          *)
(***************************************************************************)
EXTENDS PositionExit

Momentum == [stop |-> 300, target |-> 0, trigger |-> 400, trail |-> 200, band |-> 30]
MeanReversion == [stop |-> 250, target |-> 500, trigger |-> 0, trail |-> 0, band |-> 60]
DCA == [stop |-> 0, target |-> 300, trigger |-> 0, trail |-> 0, band |-> 99900]
Strategies == {Momentum, MeanReversion, DCA}

\* The defaults of config.json, and a wider stop without a target.
Owners == {[stop |-> 400, target |-> 1000], [stop |-> 600, target |-> 0]}
Default == {[stop |-> 400, target |-> 1000]}
=============================================================================
