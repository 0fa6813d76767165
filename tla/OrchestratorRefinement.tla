----------------------- MODULE OrchestratorRefinement -----------------------
(***************************************************************************)
(* The Orchestrator and its PaperBroker, seen from the account: what rests *)
(* and was filled at the broker, and the broker's book of positions.       *)
(***************************************************************************)
EXTENDS Orchestrator

\* The two triggers stay apart when both are rounded to a tick: no quote
\* crosses both (strategy_config.py: TRIGGER_DIST 20.0, TICK_SIZE 0.05).
ASSUME LegsApartAssumption == 2 * TriggerDist > TickSize

\* The orders of s that rest, as legs.
RestingLegs(s) ==
  {[id |-> i, side |-> orders[i].side, price |-> orders[i].trigger, qty |-> orders[i].qty] :
     i \in {j \in OpenOrders(orders) : orders[j].sym = s}}

Account ==
  INSTANCE OcoBracket WITH
    resting  <- [s \in Symbols |-> RestingLegs(s)],
    held     <- book,
    filled   <- FilledIds(orders),
    placed   <- issued,
    restarts <- crashes

\* The seven methods of a tick, restarts and pauses between them, are steps of
\* one bracket per symbol: place, fill-one-cancel-other, trail, withdraw, close.
ImplementsOcoBracket == Account!Spec
=============================================================================
