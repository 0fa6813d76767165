---------------------------- MODULE PaperBroker ----------------------------
(***************************************************************************)
(* brokers/paper/paper_broker.py: the simulated broker, as operators on    *)
(* its two dictionaries.                                                   *)
(*                                                                         *)
(*   orders  _orders: a sequence, since order ids are "paper-1",           *)
(*           "paper-2", ... from a counter that starts again at 1 with the *)
(*           process: the id is the index, and a restarted broker hands    *)
(*           out the same ids again;                                       *)
(*   book    _positions: symbol -> open paper position.                    *)
(*                                                                         *)
(* A security_id stands for its symbol (run_dhan gives each symbol its     *)
(* own), and prices and quantities are what the caller passes.             *)
(***************************************************************************)
EXTENDS Levels, Sequences, Dicts

Order(Sym) ==
  [sym : Sym, side : Side, qty : Nat, kind : {"STOP", "MARKET"},
   trigger : Int, status : {"OPEN", "FILLED", "CANCELLED"}]

\* sl and tp are None between the fill and the first modify_sl / modify_tp.
NoLevel == 0

PaperPosition == [side : Side, entry : Int, qty : Nat, sl : Int, tp : Int]

OpenOrders(orders) == {i \in DOMAIN orders : orders[i].status = "OPEN"}

FilledIds(orders) == {i \in DOMAIN orders : orders[i].status = "FILLED"}

\* Seeded fault: the status keeps the dataclass's default.
PlacePendingOrder(orders, s, side, qty, trigger) ==
  Append(orders, [sym |-> s, side |-> side, qty |-> qty, kind |-> "STOP",
                  trigger |-> trigger, status |-> "PENDING"])

\* place_stop_order; the new order's id is Len(orders) + 1.
PlaceStopOrder(orders, s, side, qty, trigger) ==
  Append(orders, [sym |-> s, side |-> side, qty |-> qty, kind |-> "STOP",
                  trigger |-> trigger, status |-> "OPEN"])

\* Seeded fault: the cancel is lost.
CancelOrdersLost(orders, ids) == orders

\* cancel_order for each of ids: False, and no change, for one not open.
CancelOrders(orders, ids) ==
  [i \in DOMAIN orders |->
     IF i \in ids \cap OpenOrders(orders)
     THEN [orders[i] EXCEPT !.status = "CANCELLED"] ELSE orders[i]]

\* Seeded fault: the status test is forgotten.
CrossedWhateverStatus(orders, s, ltp) ==
  {i \in DOMAIN orders :
     /\ orders[i].sym = s
     /\ IF orders[i].side = "LONG" THEN ltp >= orders[i].trigger
                                   ELSE ltp <= orders[i].trigger}

\* The resting stops of s that this price crosses.
Crossed(orders, s, ltp) ==
  {i \in OpenOrders(orders) :
     /\ orders[i].sym = s
     /\ orders[i].kind = "STOP"
     /\ IF orders[i].side = "LONG" THEN ltp >= orders[i].trigger
                                   ELSE ltp <= orders[i].trigger}

\* The fill that process_tick reports first: orders are visited by id.
First(fills) == CHOOSE i \in fills : \A j \in fills : i <= j

\* process_tick, its effect on the orders ...
FilledOrders(orders, s, ltp) ==
  [i \in DOMAIN orders |->
     IF i \in Crossed(orders, s, ltp) THEN [orders[i] EXCEPT !.status = "FILLED"]
                                      ELSE orders[i]]

\* ... and on the book: only the first fill opens a position, and a fill
\* for a symbol that has one leaves it alone ("merge" in the comment).
FilledBook(orders, book, s, ltp) ==
  LET fills == Crossed(orders, s, ltp)
      order == orders[First(fills)]
  IN  IF fills = {} \/ s \in DOMAIN book THEN book
      ELSE Put(book, s, [side |-> order.side, entry |-> order.trigger,
                         qty |-> order.qty, sl |-> NoLevel, tp |-> NoLevel])

\* Seeded fault: the broker's copy of the stop is not updated.
ModifySlIgnored(book, s, newSl) == book

\* modify_sl and modify_tp: False, and no change, for an unknown position.
ModifySl(book, s, newSl) ==
  IF s \in DOMAIN book THEN [book EXCEPT ![s].sl = newSl] ELSE book

ModifyTp(book, s, newTp) ==
  IF s \in DOMAIN book THEN [book EXCEPT ![s].tp = newTp] ELSE book

\* force_close: the points realised (the caller turns None into 0) ...
ForceClosePoints(book, s, exitPrice) ==
  IF s \in DOMAIN book
  THEN Sign(book[s].side) * (exitPrice - book[s].entry) ELSE 0

\* ... and the book without the position.
ForceClose(book, s) == Del(book, s)
=============================================================================
