------------------------- MODULE PaperBrokerProofs -------------------------
(***************************************************************************)
(* Lemmas about dictionaries and about the PaperBroker's operators: what   *)
(* each returns, and what it does to the set of open orders.               *)
(***************************************************************************)
EXTENDS PaperBroker, TLAPS

-----------------------------------------------------------------------------
(* Dictionaries *)

\* The empty dictionary is a dictionary over any keys and values.
LEMMA EmptyDictType ==
  ASSUME NEW K, NEW V
  PROVE  IsDict(EmptyDict, K, V) /\ DOMAIN EmptyDict = {}
BY DEF IsDict, EmptyDict

\* Storing a value under a key keeps a dictionary a dictionary.
LEMMA PutType ==
  ASSUME NEW K, NEW V, NEW d, IsDict(d, K, V), NEW k \in K, NEW v \in V
  PROVE  IsDict(Put(d, k, v), K, V)
BY DEF IsDict, Put

\* Deleting a key keeps a dictionary a dictionary.
LEMMA DelType ==
  ASSUME NEW K, NEW V, NEW d, IsDict(d, K, V), NEW k
  PROVE  IsDict(Del(d, k), K, V)
BY DEF IsDict, Del

-----------------------------------------------------------------------------
(* Orders *)

\* A stop order is appended, open, under the next id.
LEMMA PlaceStopOrderFacts ==
  ASSUME NEW Sym, NEW orders \in Seq(Order(Sym)), NEW s \in Sym, NEW side \in Side,
         NEW qty \in Nat, NEW trigger \in Int
  PROVE  LET new == PlaceStopOrder(orders, s, side, qty, trigger)
         IN  /\ new \in Seq(Order(Sym))
             /\ Len(new) = Len(orders) + 1
             /\ \A i \in DOMAIN orders : new[i] = orders[i]
             /\ new[Len(orders) + 1] = [sym |-> s, side |-> side, qty |-> qty,
                                        kind |-> "STOP", trigger |-> trigger,
                                        status |-> "OPEN"]
BY DEF PlaceStopOrder, Order

\* A function on the ids of a sequence of orders is a sequence of orders.
LEMMA SequenceOfOrders ==
  ASSUME NEW Sym, NEW orders \in Seq(Order(Sym)), NEW f \in [DOMAIN orders -> Order(Sym)]
  PROVE  f \in Seq(Order(Sym)) /\ DOMAIN f = DOMAIN orders
<1>1. DOMAIN orders = 1 .. Len(orders) /\ Len(orders) \in Nat
  OBVIOUS
<1> QED
  BY <1>1

\* Cancelling closes the named orders and leaves everything else alone.
LEMMA CancelOrdersFacts ==
  ASSUME NEW Sym, NEW orders \in Seq(Order(Sym)), NEW ids
  PROVE  LET new == CancelOrders(orders, ids)
         IN  /\ new \in Seq(Order(Sym))
             /\ DOMAIN new = DOMAIN orders
             /\ OpenOrders(new) = OpenOrders(orders) \ ids
             /\ \A i \in OpenOrders(new) : new[i] = orders[i]
<1> DEFINE new == CancelOrders(orders, ids)
<1>1. \A i \in DOMAIN orders : orders[i] \in Order(Sym)
  OBVIOUS
<1>2. new \in [DOMAIN orders -> Order(Sym)]
  BY <1>1 DEF CancelOrders, Order
<1>3. new \in Seq(Order(Sym)) /\ DOMAIN new = DOMAIN orders
  BY <1>2, SequenceOfOrders
<1>4. OpenOrders(new) = OpenOrders(orders) \ ids
  BY <1>1, <1>3 DEF CancelOrders, OpenOrders, Order
<1>5. \A i \in OpenOrders(new) : new[i] = orders[i]
  BY <1>3, <1>4 DEF CancelOrders, OpenOrders
<1> QED
  BY <1>3, <1>4, <1>5

\* A tick closes exactly the orders it crosses.
LEMMA FilledOrdersFacts ==
  ASSUME NEW Sym, NEW orders \in Seq(Order(Sym)), NEW s, NEW ltp
  PROVE  LET new == FilledOrders(orders, s, ltp)
         IN  /\ new \in Seq(Order(Sym))
             /\ DOMAIN new = DOMAIN orders
             /\ OpenOrders(new) = OpenOrders(orders) \ Crossed(orders, s, ltp)
             /\ \A i \in OpenOrders(new) : new[i] = orders[i]
<1> DEFINE new == FilledOrders(orders, s, ltp)
<1>1. \A i \in DOMAIN orders : orders[i] \in Order(Sym)
  OBVIOUS
<1>2. new \in [DOMAIN orders -> Order(Sym)]
  BY <1>1 DEF FilledOrders, Order
<1>3. new \in Seq(Order(Sym)) /\ DOMAIN new = DOMAIN orders
  BY <1>2, SequenceOfOrders
<1>4. OpenOrders(new) = OpenOrders(orders) \ Crossed(orders, s, ltp)
  BY <1>1, <1>3 DEF FilledOrders, OpenOrders, Order
<1>5. \A i \in OpenOrders(new) : new[i] = orders[i]
  BY <1>3, <1>4 DEF FilledOrders, OpenOrders
<1> QED
  BY <1>3, <1>4, <1>5

\* Crossed orders are open orders of the symbol.
LEMMA CrossedAreOpen ==
  ASSUME NEW orders, NEW s, NEW ltp
  PROVE  /\ Crossed(orders, s, ltp) \subseteq OpenOrders(orders)
         /\ \A i \in Crossed(orders, s, ltp) : orders[i].sym = s
BY DEF Crossed

\* Some order is reported first when any is filled and at most two can be.
LEMMA FirstIsAFill ==
  ASSUME NEW fills, NEW a \in Nat, NEW b \in Nat, fills \subseteq {a, b}, fills # {}
  PROVE  First(fills) \in fills
<1>1. PICK i \in fills : \A j \in fills : i <= j
  <2>1. CASE a \in fills /\ (b \in fills => a <= b)
    BY <2>1
  <2>2. CASE b \in fills /\ (a \in fills => b <= a)
    BY <2>2
  <2>3. a \in fills \/ b \in fills
    OBVIOUS
  <2>4. a <= b \/ b <= a
    OBVIOUS
  <2> QED
    BY <2>1, <2>2, <2>3, <2>4
<1> QED
  BY <1>1 DEF First

\* process_tick opens a position for the symbol when it fills an order and
\* the symbol has none, and changes the book in no other way.
LEMMA FilledBookFacts ==
  ASSUME NEW Sym, NEW orders \in Seq(Order(Sym)), NEW s \in Sym, NEW ltp,
         NEW book, IsDict(book, Sym, PaperPosition),
         Crossed(orders, s, ltp) # {} =>
           First(Crossed(orders, s, ltp)) \in Crossed(orders, s, ltp)
  PROVE  LET fills == Crossed(orders, s, ltp)
             new   == FilledBook(orders, book, s, ltp)
         IN  /\ IsDict(new, Sym, PaperPosition)
             /\ fills = {} => new = book
             /\ fills # {} /\ s \notin DOMAIN book =>
                  new = Put(book, s, [side  |-> orders[First(fills)].side,
                                      entry |-> orders[First(fills)].trigger,
                                      qty   |-> orders[First(fills)].qty,
                                      sl    |-> NoLevel, tp |-> NoLevel])
<1> DEFINE fills == Crossed(orders, s, ltp)
           new   == FilledBook(orders, book, s, ltp)
           order == orders[First(fills)]
           entry == [side |-> order.side, entry |-> order.trigger, qty |-> order.qty,
                     sl |-> NoLevel, tp |-> NoLevel]
<1>1. CASE fills = {} \/ s \in DOMAIN book
  BY <1>1 DEF FilledBook
<1>2. CASE fills # {} /\ s \notin DOMAIN book
  <2>1. First(fills) \in DOMAIN orders
    BY <1>2, CrossedAreOpen DEF OpenOrders
  <2>2. order \in Order(Sym)
    BY <2>1
  <2>3. entry \in PaperPosition
    BY <2>2 DEF Order, PaperPosition, NoLevel
  <2>4. new = Put(book, s, entry)
    BY <1>2 DEF FilledBook
  <2> QED
    BY <1>2, <2>3, <2>4, PutType
<1> QED
  BY <1>1, <1>2

\* The fill of a symbol that has no position is its position.
LEMMA OpenedBook ==
  ASSUME NEW Sym, NEW orders \in Seq(Order(Sym)), NEW s \in Sym, NEW ltp,
         NEW book, IsDict(book, Sym, PaperPosition), s \notin DOMAIN book,
         First(Crossed(orders, s, ltp)) \in Crossed(orders, s, ltp)
  PROVE  LET order == orders[First(Crossed(orders, s, ltp))]
             new   == FilledBook(orders, book, s, ltp)
         IN  /\ new = Put(book, s, [side |-> order.side, entry |-> order.trigger,
                                   qty |-> order.qty, sl |-> NoLevel, tp |-> NoLevel])
             /\ IsDict(new, Sym, PaperPosition)
BY FilledBookFacts

\* modify_sl and modify_tp keep the book a book over the same symbols.
LEMMA ModifyType ==
  ASSUME NEW Sym, NEW book, IsDict(book, Sym, PaperPosition), NEW s, NEW level \in Int
  PROVE  /\ IsDict(ModifySl(book, s, level), Sym, PaperPosition)
         /\ DOMAIN ModifySl(book, s, level) = DOMAIN book
         /\ IsDict(ModifyTp(book, s, level), Sym, PaperPosition)
         /\ DOMAIN ModifyTp(book, s, level) = DOMAIN book
BY DEF IsDict, ModifySl, ModifyTp, PaperPosition

=============================================================================
