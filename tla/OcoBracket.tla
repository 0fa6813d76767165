----------------------------- MODULE OcoBracket -----------------------------
(***************************************************************************)
(* What the agent promises about the account, whatever its methods do in   *)
(* between: a symbol is flat, or has a bracket of two opposite stop orders *)
(* at rest, or holds one position with a stop and a target.  One leg of a  *)
(* bracket fills at most, and then the other is gone; the stop only moves  *)
(* towards profit; a process places one bracket per symbol and day.        *)
(* engine/orchestrator.py with the PaperBroker implements this, as         *)
(* OrchestratorRefinement shows.                                           *)
(***************************************************************************)
EXTENDS Integers, Dicts

CONSTANTS Symbols

VARIABLES
  resting,  \* the orders at rest of each symbol: [id, side, price, qty]
  held,     \* symbol -> its position, [side, entry, qty, sl, tp]
  filled,   \* the ids of the orders that were filled
  placed,   \* the brackets placed today, by symbol
  restarts  \* the deaths of the process so far

vars == <<resting, held, filled, placed, restarts>>

\* Points by which price lies ahead of another for a holder of the side.
Ahead(side, price, other) == IF side = "LONG" THEN price - other ELSE other - price

\* Two legs, the long one above the short one, for the same quantity.
IsBracket(legs) ==
  \E long, short \in legs :
    /\ legs = {long, short}
    /\ long.side = "LONG" /\ short.side = "SHORT"
    /\ long.price > short.price
    /\ long.qty = short.qty
    /\ long.id # short.id

Ids(legs) == {leg.id : leg \in legs}

\* A stop that does not promise a profit yet, and a target that does.
Protected(position) ==
  /\ Ahead(position.side, position.entry, position.sl) >= 0
  /\ Ahead(position.side, position.tp, position.entry) >= 0

Init ==
  /\ resting = [s \in Symbols |-> {}]
  /\ held = EmptyDict
  /\ filled = {}
  /\ placed = [s \in Symbols |-> 0]
  /\ restarts = 0

Place(s) ==
  /\ resting[s] = {} /\ s \notin DOMAIN held
  /\ restarts = 0 => placed[s] = 0
  /\ resting' = [resting EXCEPT ![s] = resting'[s]]
  /\ IsBracket(resting'[s])
  /\ Ids(resting'[s]) \cap filled = {}
  /\ placed' = [placed EXCEPT ![s] = placed[s] + 1]
  /\ UNCHANGED <<held, filled, restarts>>

\* One cancels the other.
Fill(s) ==
  /\ s \notin DOMAIN held
  /\ \E leg \in resting[s] :
       /\ filled' = filled \cup {leg.id}
       /\ s \in DOMAIN held'
       /\ held' = Put(held, s, [held'[s] EXCEPT !.side = leg.side, !.entry = leg.price,
                                                !.qty = leg.qty])
       /\ Protected(held'[s])
  /\ resting' = [resting EXCEPT ![s] = {}]
  /\ UNCHANGED <<placed, restarts>>

Trail(s) ==
  /\ s \in DOMAIN held
  /\ s \in DOMAIN held'
  /\ held' = [held EXCEPT ![s].sl = held'[s].sl]
  /\ Ahead(held[s].side, held'[s].sl, held[s].sl) > 0
  /\ UNCHANGED <<resting, filled, placed, restarts>>

WithdrawAll ==
  /\ resting' = [s \in Symbols |-> {}]
  /\ UNCHANGED <<held, filled, placed, restarts>>

Close(s) ==
  /\ s \in DOMAIN held
  /\ held' = Del(held, s)
  /\ UNCHANGED <<resting, filled, placed, restarts>>

NewDay ==
  /\ placed' = [s \in Symbols |-> 0]
  /\ UNCHANGED <<resting, held, filled, restarts>>

\* A paper account dies with its process.
Lose ==
  /\ resting' = [s \in Symbols |-> {}]
  /\ held' = EmptyDict
  /\ filled' = {}
  /\ restarts' = restarts + 1
  /\ UNCHANGED placed

Next ==
  \/ \E s \in Symbols : Place(s) \/ Fill(s) \/ Trail(s) \/ Close(s)
  \/ WithdrawAll
  \/ NewDay
  \/ Lose

Spec == Init /\ [][Next]_vars
=============================================================================
