---------------------------- MODULE OrderIntents ----------------------------
(***************************************************************************)
(* How DhanBroker places an order so that a crash leaves a trace:          *)
(* brokers/dhan/order_intents.py (the intents, on disk),                   *)
(* _place_with_intent and reconcile_pending_intents of dhan_broker.py, the *)
(* retry loop of dhan_client.py, and the Dhan server as the client sees it *)
(* (external).                                                             *)
(*                                                                         *)
(* An intent id names one decision, so its payload is left out.  The       *)
(* server's ids are positions in the sequence orders.  One caller at a     *)
(* time; the process may die between any two steps of a call.              *)
(***************************************************************************)
EXTENDS Naturals, Sequences, Dicts

CONSTANTS
  Intents,      \* the intent ids that callers mint
  NoOrder,      \* order_id null, before the ack
  Blank,        \* order_id "", after an ack that named none
  MaxAttempts,  \* len(RETRY_BACKOFFS) + 1
  MaxOrders,    \* bound: the orders the server accepts
  MaxCrashes    \* bound: the restarts of the process

ASSUME IntentsAssumption ==
  /\ NoOrder \notin Nat
  /\ Blank \notin Nat \cup {NoOrder}
  /\ MaxAttempts \in Nat \ {0}
  /\ MaxOrders \in Nat
  /\ MaxCrashes \in Nat

VARIABLES
  intents,  \* order_intents.json: intent id -> [status, order]
  call,     \* the call of _place_with_intent or reconcile_pending_intents under way
  orders,   \* the orders the Dhan server accepted (external)
  crashes   \* history: restarts so far

vars == <<intents, call, orders, crashes>>

\* The orderStatus values the server reports, as _STATUS_MAP turns them into
\* a status; one that is not in the map reads as UNKNOWN.
StatusOf ==
  [PENDING |-> "PENDING", PART_TRADED |-> "PARTIALLY_FILLED", TRADED |-> "FILLED",
   REJECTED |-> "REJECTED", EXPIRED |-> "CANCELLED", CONFIRM |-> "UNKNOWN"]

\* The server statuses that may still change.
Live == {"PENDING", "PART_TRADED", "CONFIRM"}

Status == {"PENDING", "SUBMITTED", "FILLED", "PARTIALLY_FILLED", "CANCELLED",
           "REJECTED", "UNKNOWN"}

Terminal == {"FILLED", "CANCELLED", "REJECTED"}

OrderId == Nat \cup {NoOrder, Blank}

TypeOK ==
  /\ IsDict(intents, Intents, [status : Status, order : OrderId])
  /\ \/ call = [step |-> "idle"]
     \/ call \in [step : {"post"}, intent : Intents, attempt : Nat]
     \/ call \in [step : {"ack"}, intent : Intents, order : OrderId]
     \/ call \in [step : {"reconcile"}, todo : SUBSET Intents, out : SUBSET Intents]
  /\ orders \in Seq([intent : Intents, status : DOMAIN StatusOf, process : Nat])
  /\ crashes \in Nat

Idle == [step |-> "idle"]

Init ==
  /\ intents = EmptyDict
  /\ call = Idle
  /\ orders = <<>>
  /\ crashes = 0

-----------------------------------------------------------------------------
(* OrderIntentStore and _place_with_intent *)

\* Seeded fault: only an intent still SUBMITTED counts as placed.
HasOrderWhileSubmitted(i) ==
  /\ i \in DOMAIN intents
  /\ intents[i].order \notin {NoOrder, Blank}
  /\ intents[i].status = "SUBMITTED"

\* "existing is not None and existing.order_id"
HasOrder(i) == i \in DOMAIN intents /\ intents[i].order \notin {NoOrder, Blank}

\* Seeded fault: the intent is written after the request only.
RecordNothing(i) == UNCHANGED intents

\* record_pending: an intent already on file stays as it is.
RecordPending(i) ==
  IF i \in DOMAIN intents THEN UNCHANGED intents
  ELSE intents' = Put(intents, i, [status |-> "PENDING", order |-> NoOrder])

\* _place_with_intent, up to the request.  (With an order on file the call
\* only reads that order back, and changes nothing.)
Place(i) ==
  /\ call = Idle
  /\ ~HasOrder(i)
  /\ RecordPending(i)
  /\ call' = [step |-> "post", intent |-> i, attempt |-> 1]
  /\ UNCHANGED <<orders, crashes>>

\* The retry of _request: the next attempt, or DhanHttpError to the caller.
Retry ==
  call' = IF call.attempt < MaxAttempts THEN [call EXCEPT !.attempt = @ + 1] ELSE Idle

\* The request reaches the server and is accepted.  The client then has the
\* order, an answer without an id, a gateway error, or no answer at all.
PostAccepted ==
  /\ call.step = "post" /\ Len(orders) < MaxOrders
  /\ orders' = Append(orders, [intent |-> call.intent, status |-> "PENDING",
                               process |-> crashes])
  /\ \/ call' = [step |-> "ack", intent |-> call.intent, order |-> Len(orders) + 1]
     \/ call' = [step |-> "ack", intent |-> call.intent, order |-> Blank]
     \/ Retry
     \/ call' = Idle
  /\ UNCHANGED <<intents, crashes>>

\* It is not: 429 and 5xx are retried, any other answer is raised.
PostRefused ==
  /\ call.step = "post"
  /\ Retry \/ call' = Idle
  /\ UNCHANGED <<intents, orders, crashes>>

\* record_submitted
Submitted(i, order) ==
  [intents EXCEPT ![i] = [status |-> "SUBMITTED", order |-> order]]

Acknowledge ==
  /\ call.step = "ack"
  /\ intents' = Submitted(call.intent, call.order)
  /\ call' = Idle
  /\ UNCHANGED <<orders, crashes>>

-----------------------------------------------------------------------------
(* reconcile_pending_intents *)

\* Seeded fault: only what was acknowledged is looked at.
AllSubmitted == {i \in DOMAIN intents : intents[i].status = "SUBMITTED"}

\* all_pending
AllPending == {i \in DOMAIN intents : intents[i].status \in {"PENDING", "SUBMITTED"}}

\* Seeded fault: the status of the newest order is recorded.
BrokerStatusOfLast(order) == StatusOf[orders[Len(orders)].status]

\* Seeded fault: the server's word is recorded unmapped.
RawBrokerStatus(order) == IF order = Blank THEN "PENDING" ELSE orders[order].status

\* get_order: an id of "" asks for the whole list, and reads as PENDING.
BrokerStatus(order) == IF order = Blank THEN "PENDING" ELSE StatusOf[orders[order].status]

\* The records that all_pending read, in any order (a dict's order is the
\* order of writing), and the list that is to be returned.
ReconcileBegins ==
  /\ call = Idle
  /\ call' = [step |-> "reconcile", todo |-> AllPending, out |-> {}]
  /\ UNCHANGED <<intents, orders, crashes>>

Reconciling(i) == call.step = "reconcile" /\ i \in call.todo

\* A record with a null id, or one whose get_order raises DhanHttpError.
HandOver(i) ==
  /\ Reconciling(i)
  /\ call' = [call EXCEPT !.todo = @ \ {i}, !.out = @ \cup {i}]
  /\ UNCHANGED <<intents, orders, crashes>>

\* One whose order the server reports: record_status.
Reconcile(i) ==
  /\ Reconciling(i)
  /\ intents[i].order # NoOrder
  /\ intents' = [intents EXCEPT ![i].status = BrokerStatus(intents[i].order)]
  /\ call' = [call EXCEPT !.todo = @ \ {i}]
  /\ UNCHANGED <<orders, crashes>>

\* get_order raises something else (DhanAuthError, a requests exception): the
\* pass is over, and what it collected is lost.
ReconcileRaises(i) ==
  /\ Reconciling(i)
  /\ intents[i].order # NoOrder
  /\ call' = Idle
  /\ UNCHANGED <<intents, orders, crashes>>

\* The caller has the list out.
ReconcileReturns ==
  /\ call.step = "reconcile" /\ call.todo = {}
  /\ call' = Idle
  /\ UNCHANGED <<intents, orders, crashes>>

-----------------------------------------------------------------------------
(* Environment *)

OrderMoves(o, status) ==
  /\ orders[o].status \in Live \ {status}
  /\ orders' = [orders EXCEPT ![o].status = status]
  /\ UNCHANGED <<intents, call, crashes>>

Crash ==
  /\ crashes < MaxCrashes
  /\ crashes' = crashes + 1
  /\ call' = Idle
  /\ UNCHANGED <<intents, orders>>

Next ==
  \/ \E i \in Intents : Place(i) \/ HandOver(i) \/ Reconcile(i) \/ ReconcileRaises(i)
  \/ PostAccepted
  \/ PostRefused
  \/ Acknowledge
  \/ ReconcileBegins
  \/ ReconcileReturns
  \/ \E o \in DOMAIN orders, status \in DOMAIN StatusOf \ {"PENDING"} : OrderMoves(o, status)
  \/ Crash

Spec == Init /\ [][Next]_vars

-----------------------------------------------------------------------------
(* Properties *)

\* The disk names the order of i.
Named(i) == i \in DOMAIN intents /\ intents[i].order \in Nat

OrdersOf(i) == {o \in DOMAIN orders : orders[o].intent = i}

\* Crash-safe intents: whatever the server holds, the disk has the intent of
\* it, at every instant of a call, a retry or a crash.
WriteAhead == \A o \in DOMAIN orders : orders[o].intent \in DOMAIN intents

\* "Re-calling place_with_intent on the same intent_id must return the cached
\* order, never POST again" (tests/test_idempotent_orders.py), as far as it
\* goes: once the disk names an order, the server gets no other for the
\* intent, whatever retries, restarts and reconciliations follow.
NoRepostAfterAck ==
  [][\A i \in Intents : Named(i) => OrdersOf(i)' = OrdersOf(i)]_vars

\* An ack that was lost is not forgotten: when a pass of the reconciler returns,
\* the operator is told of every intent that the server has an order of while
\* its record has a null id, however many processes ago the ack was lost.  (A
\* record with the empty id is refreshed, as PENDING, and handed to nobody; a
\* pass that raises tells nothing.)
LostAckSurfaced ==
  call.step = "reconcile" /\ call.todo = {} =>
    \A i \in DOMAIN intents :
      OrdersOf(i) # {} => Named(i) \/ intents[i].order = Blank \/ i \in call.out

\* A final status on file is the server's word on the order that the same
\* record names.
TerminalIsTrue ==
  \A i \in DOMAIN intents :
    intents[i].status \in Terminal =>
      /\ Named(i)
      /\ intents[i].order \in OrdersOf(i)
      /\ intents[i].status = StatusOf[orders[intents[i].order].status]

\* The records as a journal keeps them: an intent whose record has no id, or
\* the empty one, names no order.
Journal ==
  INSTANCE OrderJournal WITH
    noted  <- DOMAIN intents,
    server <- [o \in DOMAIN orders |-> [intent |-> orders[o].intent,
                                        status |-> StatusOf[orders[o].status]]],
    named  <- [i \in {j \in DOMAIN intents : Named(j)} |-> intents[i].order],
    final  <- [i \in {j \in DOMAIN intents : intents[j].status \in Terminal} |->
                 intents[i].status]

\* Retries, lost answers, crashes and reconciliations amount to this: noted,
\* then ordered, then named once, then final once, each by the server's word.
ImplementsOrderJournal == Journal!Spec

-----------------------------------------------------------------------------
(* What the tests say and the code does not do; see the README. *)

\* "a crashed process must not double-place orders on restart": no process
\* places an order of an intent that an earlier process placed.
NoDoublePlaceOnRestart ==
  \A i \in Intents : \A o, p \in OrdersOf(i) : orders[o].process = orders[p].process
=============================================================================
