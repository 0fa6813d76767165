-------------------------- MODULE MCOrderIntents ---------------------------
(***************************************************************************)
(* An instance of OrderIntents for TLC: the two legs of an OCO pair.       *)
(***************************************************************************)
EXTENDS OrderIntents, TLC

CONSTANTS longStop, shortStop  \* intent ids (model values)

PairIntents == {longStop, shortStop}

\* The intents are interchangeable.
Interchangeable == Permutations(PairIntents)
=============================================================================
