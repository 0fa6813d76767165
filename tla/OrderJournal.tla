---------------------------- MODULE OrderJournal ----------------------------
(***************************************************************************)
(* What placing an order through an intent promises, whatever answers are  *)
(* lost, requests are retried or processes die: the server gets orders of  *)
(* noted intents only, and none of an intent whose order is named; a name  *)
(* is an order of the intent and is never changed; a final status is the   *)
(* server's and is never changed.  brokers/dhan/dhan_broker.py with its    *)
(* OrderIntentStore implements this, as OrderIntents shows.                *)
(***************************************************************************)
EXTENDS Naturals, Sequences, Dicts

CONSTANTS
  Intents,   \* what may be ordered
  Status,    \* what an order may have come to
  Terminal   \* ... and stays

VARIABLES
  noted,   \* the intents on disk
  server,  \* the orders the server accepted, of which intent and at what status
  named,   \* intent -> the order that the disk has for it
  final    \* intent -> the final status that the disk has for it

vars == <<noted, server, named, final>>

Init ==
  /\ noted = {} /\ server = <<>>
  /\ named = EmptyDict /\ final = EmptyDict

Note(i) ==
  /\ noted' = noted \cup {i}
  /\ UNCHANGED <<server, named, final>>

Accept(i) ==
  /\ i \in noted \ DOMAIN named
  /\ server' = Append(server, [intent |-> i, status |-> "PENDING"])
  /\ UNCHANGED <<noted, named, final>>

Name(i) ==
  /\ i \notin DOMAIN named
  /\ \E o \in DOMAIN server : server[o].intent = i /\ named' = Put(named, i, o)
  /\ UNCHANGED <<noted, server, final>>

Settle(i) ==
  /\ i \in DOMAIN named \ DOMAIN final
  /\ server[named[i]].status \in Terminal
  /\ final' = Put(final, i, server[named[i]].status)
  /\ UNCHANGED <<noted, server, named>>

Move(o) ==
  /\ server[o].status \notin Terminal
  /\ \E status \in Status : server' = [server EXCEPT ![o].status = status]
  /\ UNCHANGED <<noted, named, final>>

Next ==
  \/ \E i \in Intents : Note(i) \/ Accept(i) \/ Name(i) \/ Settle(i)
  \/ \E o \in DOMAIN server : Move(o)

Spec == Init /\ [][Next]_vars
=============================================================================
