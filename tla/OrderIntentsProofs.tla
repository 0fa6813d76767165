------------------------ MODULE OrderIntentsProofs -------------------------
(***************************************************************************)
(* What the intents on disk say about the server's orders, for any number  *)
(* of intents, retries, orders and restarts.                               *)
(***************************************************************************)
EXTENDS OrderIntents, TLAPS

\* A placement under way is about an intent on file that names no order yet.
CallOnFile ==
  call.step \in {"post", "ack"} =>
    call.intent \in DOMAIN intents /\ ~Named(call.intent)

\* A reconciler under way has before it what it read as open and has not
\* done, and has every record with a null id before it or in its list.
PassUnderWay ==
  call.step = "reconcile" =>
    /\ call.todo \subseteq AllPending
    /\ \A i \in DOMAIN intents : intents[i].order = NoOrder => i \in call.todo \cup call.out

\* An id in an answer is one that the server gave for this intent.
AckIsReal ==
  call.step = "ack" =>
    call.order = Blank \/ call.order \in OrdersOf(call.intent)

\* The order that a record names is the intent's own.
NamedIsReal == \A i \in Intents : Named(i) => intents[i].order \in OrdersOf(i)

\* A record without an answer is as record_pending wrote it.
UnansweredIsPending ==
  \A i \in DOMAIN intents : intents[i].order = NoOrder => intents[i].status = "PENDING"

IInv ==
  /\ TypeOK
  /\ WriteAhead
  /\ CallOnFile
  /\ PassUnderWay
  /\ AckIsReal
  /\ NamedIsReal
  /\ UnansweredIsPending
  /\ TerminalIsTrue

-----------------------------------------------------------------------------
(* Lemmas *)

ServerOrder == [intent : Intents, status : DOMAIN StatusOf, process : Nat]

Record == [status : Status, order : OrderId]

\* The server statuses, what they read as, and that a status which may still
\* change never reads as final.
LEMMA StatusFacts ==
  /\ DOMAIN StatusOf = {"PENDING", "PART_TRADED", "TRADED", "REJECTED", "EXPIRED", "CONFIRM"}
  /\ \A s \in DOMAIN StatusOf : StatusOf[s] \in Status
  /\ \A s \in Live : s \in DOMAIN StatusOf /\ StatusOf[s] \notin Terminal
BY DEF StatusOf, Status, Live, Terminal

\* The orders are a sequence of orders.
LEMMA OrdersTyped ==
  ASSUME TypeOK
  PROVE  orders \in Seq(ServerOrder) /\ \A o \in DOMAIN orders : orders[o] \in ServerOrder
<1>1. orders \in Seq(ServerOrder)
  BY DEF TypeOK, ServerOrder
<1> HIDE DEF ServerOrder
<1> QED
  BY <1>1

\* A pass of the reconciler under way.
Pass == [step : {"reconcile"}, todo : SUBSET Intents, out : SUBSET Intents]

LEMMA PassTyped ==
  ASSUME TypeOK, call.step = "reconcile"
  PROVE  call \in Pass
BY DEF TypeOK, Pass

\* What is pending is an intent.
LEMMA PendingAreIntents ==
  ASSUME TypeOK
  PROVE  AllPending \in SUBSET Intents
BY DEF TypeOK, IsDict, AllPending

\* The two absent ids are no ids, and differ.
LEMMA AbsentIds == NoOrder \notin Nat /\ Blank \notin Nat /\ Blank # NoOrder
BY IntentsAssumption

\* An accepted order is the last one, and the others stay.
LEMMA AppendFacts ==
  ASSUME NEW S, NEW seq \in Seq(S), NEW e \in S
  PROVE  /\ Append(seq, e) \in Seq(S)
         /\ DOMAIN seq \subseteq DOMAIN Append(seq, e)
         /\ DOMAIN Append(seq, e) = DOMAIN seq \cup {Len(seq) + 1}
         /\ \A o \in DOMAIN seq : Append(seq, e)[o] = seq[o]
         /\ Append(seq, e)[Len(seq) + 1] = e
         /\ Len(seq) + 1 \notin DOMAIN seq
         /\ Len(seq) + 1 \in Nat
OBVIOUS

-----------------------------------------------------------------------------
(* The invariant *)

\* The invariant holds of an empty file.
LEMMA InvInit == Init => IInv
<1> SUFFICES ASSUME Init PROVE IInv
  OBVIOUS
<1> USE DEF Init, EmptyDict, Idle
<1>1. TypeOK
  BY DEF TypeOK, IsDict
<1>2. WriteAhead /\ CallOnFile /\ PassUnderWay /\ AckIsReal
  BY DEF WriteAhead, CallOnFile, PassUnderWay, AckIsReal
<1>3. NamedIsReal /\ UnansweredIsPending /\ TerminalIsTrue
  BY DEF NamedIsReal, Named, UnansweredIsPending, TerminalIsTrue
<1> QED
  BY <1>1, <1>2, <1>3 DEF IInv

\* A placement that reaches the request keeps the invariant.
LEMMA InvPlace ==
  ASSUME IInv, NEW i \in Intents, Place(i)
  PROVE  IInv'
<1>1. /\ ~HasOrder(i) /\ RecordPending(i) /\ orders' = orders /\ crashes' = crashes
      /\ call' = [step |-> "post", intent |-> i, attempt |-> 1]
  BY DEF Place
<1>2. /\ i \in DOMAIN intents' /\ DOMAIN intents' = DOMAIN intents \cup {i}
      /\ \A j \in DOMAIN intents : intents'[j] = intents[j]
      /\ i \notin DOMAIN intents => intents'[i] = [status |-> "PENDING", order |-> NoOrder]
  BY <1>1 DEF RecordPending, Put
<1>3. IsDict(intents', Intents, Record)
  BY <1>1 DEF IInv, TypeOK, RecordPending, IsDict, Put, Record, OrderId, Status
<1>4. TypeOK'
  BY <1>1, <1>3 DEF IInv, TypeOK, Record
<1>5. ~Named(i)'
  BY <1>1, <1>2, AbsentIds DEF HasOrder, Named
<1>6. WriteAhead' /\ CallOnFile' /\ PassUnderWay' /\ AckIsReal'
  BY <1>1, <1>2, <1>5 DEF IInv, WriteAhead, CallOnFile, PassUnderWay, AckIsReal
<1>7. NamedIsReal'
  BY <1>1, <1>2, <1>5 DEF IInv, NamedIsReal, Named, OrdersOf
<1>8. UnansweredIsPending'
  BY <1>2 DEF IInv, UnansweredIsPending
<1>9. TerminalIsTrue'
  BY <1>1, <1>2 DEF IInv, TerminalIsTrue, Named, OrdersOf, Terminal
<1> QED
  BY <1>4, <1>6, <1>7, <1>8, <1>9 DEF IInv

\* What a call that goes on or ends may look like after a failed attempt.
LEMMA RetryFacts ==
  ASSUME TypeOK, call.step = "post", Retry
  PROVE  \/ call' = Idle
         \/ /\ call' \in [step : {"post"}, intent : Intents, attempt : Nat]
            /\ call'.intent = call.intent
<1>1. call \in [step : {"post"}, intent : Intents, attempt : Nat]
  BY DEF TypeOK
<1> QED
  BY <1>1 DEF Retry

\* An order that the server accepts keeps the invariant, whatever the answer.
LEMMA InvPostAccepted ==
  ASSUME IInv, PostAccepted
  PROVE  IInv'
<1> DEFINE new == [intent |-> call.intent, status |-> "PENDING", process |-> crashes]
<1>1. /\ call.step = "post" /\ intents' = intents /\ crashes' = crashes
      /\ orders' = Append(orders, new)
  BY DEF PostAccepted
<1>2. call \in [step : {"post"}, intent : Intents, attempt : Nat] /\ call # Idle
  BY <1>1 DEF IInv, TypeOK, Idle
<1>3. orders \in Seq(ServerOrder) /\ new \in ServerOrder
  BY <1>2, StatusFacts DEF IInv, TypeOK, ServerOrder
<1> HIDE DEF new
<1>4. /\ orders' \in Seq(ServerOrder)
      /\ DOMAIN orders' = DOMAIN orders \cup {Len(orders) + 1}
      /\ \A o \in DOMAIN orders : orders'[o] = orders[o]
      /\ orders'[Len(orders) + 1] = new
      /\ Len(orders) + 1 \in Nat
  BY <1>1, <1>3, AppendFacts
<1>5. new.intent = call.intent
  BY DEF new
<1>6. call.intent \in DOMAIN intents /\ ~Named(call.intent)
  BY <1>2 DEF IInv, CallOnFile
<1>7. \A i : /\ OrdersOf(i) \subseteq OrdersOf(i)'
            /\ \A o \in DOMAIN orders' : orders'[o].intent = i => o \in OrdersOf(i)'
  BY <1>4 DEF OrdersOf
<1>8. \/ call' = Idle
      \/ /\ call' \in [step : {"post"}, intent : Intents, attempt : Nat]
         /\ call'.intent = call.intent
      \/ /\ call' \in [step : {"ack"}, intent : Intents, order : OrderId]
         /\ call'.intent = call.intent
         /\ call'.order \in {Len(orders) + 1, Blank}
  <2>1. CASE call' = [step |-> "ack", intent |-> call.intent, order |-> Len(orders) + 1]
    BY <1>2, <1>4, <2>1 DEF OrderId
  <2>2. CASE call' = [step |-> "ack", intent |-> call.intent, order |-> Blank]
    BY <1>2, <2>2 DEF OrderId
  <2>3. CASE Retry
    BY <1>1, <2>3, RetryFacts DEF IInv
  <2>4. CASE call' = Idle
    BY <2>4
  <2> QED
    BY <2>1, <2>2, <2>3, <2>4 DEF PostAccepted
<1>9. TypeOK'
  BY <1>1, <1>4, <1>8 DEF IInv, TypeOK, ServerOrder, Idle
<1>10. WriteAhead'
  BY <1>1, <1>4, <1>5, <1>6 DEF IInv, WriteAhead
<1>11. CallOnFile' /\ PassUnderWay' /\ AckIsReal'
  <2>1. CallOnFile'
    BY <1>1, <1>6, <1>8 DEF CallOnFile, Named, Idle
  <2>2. AckIsReal'
    BY <1>4, <1>5, <1>7, <1>8 DEF AckIsReal, Idle
  <2>3. PassUnderWay'
    BY <1>8 DEF PassUnderWay, Idle
  <2> QED
    BY <2>1, <2>2, <2>3
<1>12. NamedIsReal' /\ UnansweredIsPending'
  BY <1>1, <1>7 DEF IInv, NamedIsReal, Named, UnansweredIsPending
<1>13. TerminalIsTrue'
  BY <1>1, <1>4, <1>7 DEF IInv, TerminalIsTrue, Named, OrdersOf
<1> QED
  BY <1>9, <1>10, <1>11, <1>12, <1>13 DEF IInv

\* A refused request keeps the invariant.
LEMMA InvPostRefused ==
  ASSUME IInv, PostRefused
  PROVE  IInv'
<1>1. call.step = "post" /\ intents' = intents /\ orders' = orders /\ crashes' = crashes
  BY DEF PostRefused
<1>2. \/ call' = Idle
      \/ /\ call' \in [step : {"post"}, intent : Intents, attempt : Nat]
         /\ call'.intent = call.intent
  BY <1>1, RetryFacts DEF PostRefused, IInv
<1>3. TypeOK'
  BY <1>1, <1>2 DEF IInv, TypeOK, Idle
<1>4. CallOnFile'
  BY <1>1, <1>2 DEF IInv, CallOnFile, Named, Idle
<1>5. PassUnderWay' /\ AckIsReal'
  BY <1>2 DEF PassUnderWay, AckIsReal, Idle
<1>6. WriteAhead' /\ NamedIsReal' /\ UnansweredIsPending' /\ TerminalIsTrue'
  BY <1>1 DEF IInv, WriteAhead, NamedIsReal, UnansweredIsPending, TerminalIsTrue, Named, OrdersOf
<1> QED
  BY <1>3, <1>4, <1>5, <1>6 DEF IInv

\* Recording the answer keeps the invariant.
LEMMA InvAcknowledge ==
  ASSUME IInv, Acknowledge
  PROVE  IInv'
<1> DEFINE i == call.intent
<1>1. /\ call.step = "ack" /\ call' = Idle /\ orders' = orders /\ crashes' = crashes
      /\ intents' = [intents EXCEPT ![i] = [status |-> "SUBMITTED", order |-> call.order]]
  BY DEF Acknowledge, Submitted
<1>2. call \in [step : {"ack"}, intent : Intents, order : OrderId] /\ call # Idle
  BY <1>1 DEF IInv, TypeOK, Idle
<1>3. i \in DOMAIN intents
  BY <1>2 DEF IInv, CallOnFile
<1>4. call.order = Blank \/ call.order \in OrdersOf(i)
  BY <1>1, <1>2 DEF IInv, AckIsReal
<1>5. /\ DOMAIN intents' = DOMAIN intents
      /\ intents'[i] = [status |-> "SUBMITTED", order |-> call.order]
      /\ \A j \in DOMAIN intents : j # i => intents'[j] = intents[j]
  BY <1>1, <1>3 DEF IInv, TypeOK, IsDict
<1>6. i \in Intents /\ call.order \in OrderId
  BY <1>2
<1> HIDE DEF i
<1>7. TypeOK'
  <2>1. [status |-> "SUBMITTED", order |-> call.order] \in Record
    BY <1>6 DEF Record, Status
  <2>2. IsDict(intents', Intents, Record)
    BY <1>1, <2>1 DEF IInv, TypeOK, IsDict, Record
  <2> QED
    BY <1>1, <2>2 DEF IInv, TypeOK, Record, Idle
<1>8. WriteAhead' /\ CallOnFile' /\ PassUnderWay' /\ AckIsReal'
  BY <1>1, <1>5 DEF IInv, WriteAhead, CallOnFile, PassUnderWay, AckIsReal, Idle
<1>9. NamedIsReal'
  BY <1>1, <1>4, <1>5, AbsentIds DEF IInv, NamedIsReal, Named, OrdersOf
<1>10. UnansweredIsPending'
  <2>1. call.order # NoOrder
    BY <1>4, AbsentIds DEF IInv, TypeOK, OrdersOf
  <2> QED
    BY <1>5, <2>1 DEF IInv, UnansweredIsPending
<1>11. TerminalIsTrue'
  BY <1>1, <1>5 DEF IInv, TerminalIsTrue, Terminal, Named, OrdersOf
<1> QED
  BY <1>7, <1>8, <1>9, <1>10, <1>11 DEF IInv

\* Reconciling one intent keeps the invariant.
LEMMA InvReconcile ==
  ASSUME IInv, NEW i \in Intents, Reconcile(i)
  PROVE  IInv'
<1>1. /\ i \in DOMAIN intents /\ intents[i].order # NoOrder
      /\ call.step = "reconcile" /\ call' = [call EXCEPT !.todo = @ \ {i}]
      /\ orders' = orders /\ crashes' = crashes
      /\ intents' = [intents EXCEPT ![i].status = BrokerStatus(intents[i].order)]
  BY DEF Reconcile, Reconciling, IInv, PassUnderWay, AllPending
<1>2. intents[i] \in Record
  BY <1>1 DEF IInv, TypeOK, IsDict, Record
<1>3. intents[i].order = Blank \/ Named(i)
  BY <1>1, <1>2 DEF Record, OrderId, Named
<1>4. ASSUME Named(i)
      PROVE  /\ intents[i].order \in OrdersOf(i)
             /\ BrokerStatus(intents[i].order) = StatusOf[orders[intents[i].order].status]
             /\ orders[intents[i].order].status \in DOMAIN StatusOf
  <2>1. intents[i].order \in OrdersOf(i)
    BY <1>4 DEF IInv, NamedIsReal
  <2>2. BrokerStatus(intents[i].order) = StatusOf[orders[intents[i].order].status]
    BY <1>4, AbsentIds DEF BrokerStatus, Named
  <2>3. orders[intents[i].order] \in ServerOrder
    BY <2>1, OrdersTyped DEF IInv, OrdersOf
  <2> QED
    BY <2>1, <2>2, <2>3 DEF ServerOrder
<1>5. BrokerStatus(intents[i].order) \in Status
  <2>1. CASE intents[i].order = Blank
    BY <2>1 DEF BrokerStatus, Status
  <2>2. CASE Named(i)
    BY <1>4, <2>2, StatusFacts
  <2> QED
    BY <1>3, <2>1, <2>2
<1>6. /\ DOMAIN intents' = DOMAIN intents
      /\ intents'[i].order = intents[i].order
      /\ intents'[i].status = BrokerStatus(intents[i].order)
      /\ \A j \in DOMAIN intents : j # i => intents'[j] = intents[j]
      /\ IsDict(intents', Intents, Record)
  <2>1. [intents[i] EXCEPT !.status = BrokerStatus(intents[i].order)] \in Record
    BY <1>2, <1>5 DEF Record
  <2> QED
    BY <1>1, <1>2, <2>1 DEF IInv, TypeOK, IsDict, Record
<1>7. call' \in Pass /\ call'.todo = call.todo \ {i} /\ call'.out = call.out
  BY <1>1, PassTyped DEF Pass, IInv
<1>8. TypeOK' /\ WriteAhead' /\ CallOnFile' /\ PassUnderWay' /\ AckIsReal'
  <2>1. TypeOK'
    BY <1>1, <1>6, <1>7 DEF IInv, TypeOK, Record, Pass
  <2>2. WriteAhead' /\ CallOnFile' /\ AckIsReal'
    BY <1>1, <1>6, <1>7 DEF IInv, WriteAhead, CallOnFile, AckIsReal, Pass
  <2>3. PassUnderWay'
    BY <1>1, <1>6, <1>7 DEF IInv, PassUnderWay, AllPending
  <2> QED
    BY <2>1, <2>2, <2>3
<1>9. NamedIsReal' /\ UnansweredIsPending'
  BY <1>1, <1>6 DEF IInv, NamedIsReal, Named, OrdersOf, UnansweredIsPending
<1>10. TerminalIsTrue'
  <2>1. intents'[i].status \in Terminal => Named(i)
    BY <1>3, <1>6 DEF BrokerStatus, Terminal
  <2>2. TerminalIsTrue!(i)'
    BY <1>1, <1>4, <1>6, <2>1 DEF Named, OrdersOf
  <2>3. ASSUME NEW j \in DOMAIN intents, j # i PROVE TerminalIsTrue!(j)'
    BY <1>1, <1>6, <2>3 DEF IInv, TerminalIsTrue, Named, OrdersOf
  <2> QED
    BY <1>6, <2>2, <2>3 DEF TerminalIsTrue
<1> QED
  BY <1>8, <1>9, <1>10 DEF IInv

\* A pass that begins, hands a record over, is cut off or returns keeps the
\* invariant.
LEMMA InvPass ==
  ASSUME IInv,
         \/ ReconcileBegins \/ ReconcileReturns
         \/ \E i \in Intents : HandOver(i) \/ ReconcileRaises(i)
  PROVE  IInv'
<1>1. intents' = intents /\ orders' = orders /\ crashes' = crashes
  BY DEF ReconcileBegins, HandOver, ReconcileRaises, ReconcileReturns
<1>2. \/ call' = Idle
      \/ call' \in Pass /\ call'.todo = AllPending
      \/ /\ call.step = "reconcile" /\ call' \in Pass
         /\ \E i \in Intents :
              call'.todo = call.todo \ {i} /\ call'.out = call.out \cup {i}
  <2>1. CASE ReconcileBegins
    BY <2>1, PendingAreIntents DEF IInv, ReconcileBegins, Pass
  <2>2. ASSUME NEW i \in Intents, HandOver(i) PROVE <1>2!3
    BY <2>2, PassTyped DEF IInv, HandOver, Reconciling, Pass
  <2>3. CASE ReconcileReturns \/ \E i \in Intents : ReconcileRaises(i)
    BY <2>3 DEF ReconcileRaises, ReconcileReturns
  <2> QED
    BY <2>1, <2>2, <2>3
<1>3. TypeOK'
  BY <1>1, <1>2 DEF IInv, TypeOK, Idle, Pass
<1>4. CallOnFile' /\ AckIsReal'
  BY <1>2 DEF CallOnFile, AckIsReal, Idle, Pass
<1>5. PassUnderWay'
  BY <1>1, <1>2 DEF IInv, PassUnderWay, UnansweredIsPending, AllPending, Idle
<1>6. WriteAhead' /\ NamedIsReal' /\ UnansweredIsPending' /\ TerminalIsTrue'
  BY <1>1 DEF IInv, WriteAhead, NamedIsReal, UnansweredIsPending, TerminalIsTrue, Named, OrdersOf
<1> QED
  BY <1>3, <1>4, <1>5, <1>6 DEF IInv

\* An order that moves on at the server keeps the invariant: a record that
\* is final names an order that no longer moves.
LEMMA InvOrderMoves ==
  ASSUME IInv, NEW o \in DOMAIN orders, NEW status \in DOMAIN StatusOf,
         OrderMoves(o, status)
  PROVE  IInv'
<1>1. /\ orders[o].status \in Live
      /\ orders' = [orders EXCEPT ![o].status = status]
      /\ intents' = intents /\ call' = call /\ crashes' = crashes
  BY DEF OrderMoves
<1>2. orders \in Seq(ServerOrder) /\ orders[o] \in ServerOrder
  BY OrdersTyped DEF IInv
<1>3. /\ DOMAIN orders' = DOMAIN orders
      /\ orders' \in Seq(ServerOrder)
      /\ \A p \in DOMAIN orders : orders'[p].intent = orders[p].intent
      /\ \A p \in DOMAIN orders : p # o => orders'[p] = orders[p]
  <2>1. [orders[o] EXCEPT !.status = status] \in ServerOrder
    BY <1>2 DEF ServerOrder
  <2> QED
    BY <1>1, <1>2, <2>1 DEF ServerOrder
<1>4. \A i : OrdersOf(i)' = OrdersOf(i)
  BY <1>3 DEF OrdersOf
<1>5. TypeOK'
  BY <1>1, <1>3 DEF IInv, TypeOK, ServerOrder
<1>6. WriteAhead' /\ CallOnFile' /\ PassUnderWay' /\ AckIsReal'
  <2>1. WriteAhead'
    BY <1>1, <1>3 DEF IInv, WriteAhead
  <2>2. CallOnFile' /\ AckIsReal'
    BY <1>1, <1>4 DEF IInv, CallOnFile, AckIsReal, Named
  <2>3. PassUnderWay'
    BY <1>1 DEF IInv, PassUnderWay, AllPending
  <2> QED
    BY <2>1, <2>2, <2>3
<1>7. NamedIsReal' /\ UnansweredIsPending'
  BY <1>1, <1>4 DEF IInv, NamedIsReal, Named, UnansweredIsPending
<1>8. TerminalIsTrue'
  <2> SUFFICES ASSUME NEW i \in DOMAIN intents, intents[i].status \in Terminal
               PROVE  TerminalIsTrue!(i)'
    BY <1>1 DEF TerminalIsTrue
  <2>1. /\ Named(i) /\ intents[i].order \in OrdersOf(i)
        /\ intents[i].status = StatusOf[orders[intents[i].order].status]
    BY DEF IInv, TerminalIsTrue
  <2>2. intents[i].order # o
    BY <1>1, <2>1, StatusFacts
  <2> QED
    BY <1>1, <1>3, <1>4, <2>1, <2>2 DEF Named, OrdersOf
<1> QED
  BY <1>5, <1>6, <1>7, <1>8 DEF IInv

\* A crash, or no step at all, keeps the invariant.
LEMMA InvCrash ==
  ASSUME IInv, Crash \/ UNCHANGED vars
  PROVE  IInv'
<1>1. /\ intents' = intents /\ orders' = orders /\ crashes' \in Nat
      /\ call' = call \/ call' = Idle
  BY DEF IInv, TypeOK, Crash, vars
<1>2. TypeOK'
  BY <1>1 DEF IInv, TypeOK, Idle
<1>3. CallOnFile' /\ PassUnderWay' /\ AckIsReal'
  BY <1>1 DEF IInv, CallOnFile, PassUnderWay, AllPending, AckIsReal, Named, OrdersOf, Idle
<1>4. WriteAhead' /\ NamedIsReal' /\ UnansweredIsPending' /\ TerminalIsTrue'
  BY <1>1 DEF IInv, WriteAhead, NamedIsReal, UnansweredIsPending, TerminalIsTrue, Named, OrdersOf
<1> QED
  BY <1>2, <1>3, <1>4 DEF IInv

-----------------------------------------------------------------------------
(* Theorems *)

\* The invariant holds in every reachable state.
THEOREM IntentsSafe == Spec => []IInv
<1>1. IInv /\ [Next]_vars => IInv'
  <2> SUFFICES ASSUME IInv, [Next]_vars PROVE IInv'
    OBVIOUS
  <2>1. CASE \E i \in Intents : Place(i) \/ Reconcile(i)
    BY <2>1, InvPlace, InvReconcile
  <2>2. CASE \/ ReconcileBegins \/ ReconcileReturns
             \/ \E i \in Intents : HandOver(i) \/ ReconcileRaises(i)
    BY <2>2, InvPass
  <2>3. CASE PostAccepted \/ PostRefused \/ Acknowledge
    BY <2>3, InvPostAccepted, InvPostRefused, InvAcknowledge
  <2>4. CASE \E o \in DOMAIN orders, status \in DOMAIN StatusOf \ {"PENDING"} :
               OrderMoves(o, status)
    BY <2>4, InvOrderMoves
  <2>5. CASE Crash \/ UNCHANGED vars
    BY <2>5, InvCrash
  <2> QED
    BY <2>1, <2>2, <2>3, <2>4, <2>5 DEF Next
<1> QED
  BY <1>1, InvInit, PTL DEF Spec

\* Every record, call and order is well typed.
THEOREM IntentsTyped == Spec => []TypeOK
<1>1. IInv => TypeOK
  BY DEF IInv
<1> QED
  BY <1>1, IntentsSafe, PTL

\* The server never holds an order that the disk has no intent of.
THEOREM IntentBeforeOrder == Spec => []WriteAhead
<1>1. IInv => WriteAhead
  BY DEF IInv
<1> QED
  BY <1>1, IntentsSafe, PTL

\* A final status on file is the server's.
THEOREM FinalStatusIsTrue == Spec => []TerminalIsTrue
<1>1. IInv => TerminalIsTrue
  BY DEF IInv
<1> QED
  BY <1>1, IntentsSafe, PTL

\* A lost answer leaves the intent in the list of a pass that returns.
THEOREM LostAcksReported == Spec => []LostAckSurfaced
<1>1. IInv => LostAckSurfaced
  <2> SUFFICES ASSUME IInv, NEW i \in DOMAIN intents,
                      call.step = "reconcile", call.todo = {},
                      ~Named(i), intents[i].order # Blank
               PROVE  i \in call.out
    BY DEF LostAckSurfaced
  <2>1. intents[i] \in Record
    BY DEF IInv, TypeOK, IsDict, Record
  <2>2. intents[i].order = NoOrder
    BY <2>1 DEF Record, OrderId, Named
  <2> QED
    BY <2>2 DEF IInv, PassUnderWay
<1> QED
  BY <1>1, IntentsSafe, PTL

\* Once the disk names an intent's order, the server gets no other for it.
THEOREM AckedOnceAndForAll == Spec => NoRepostAfterAck
<1>1. IInv /\ [Next]_vars =>
        [\A i \in Intents : Named(i) => OrdersOf(i)' = OrdersOf(i)]_vars
  <2> SUFFICES ASSUME IInv, Next, NEW i \in Intents, Named(i)
               PROVE  OrdersOf(i)' = OrdersOf(i)
    OBVIOUS
  <2>1. CASE PostAccepted
    <3> DEFINE new == [intent |-> call.intent, status |-> "PENDING", process |-> crashes]
    <3>1. call.step = "post" /\ orders' = Append(orders, new)
      BY <2>1 DEF PostAccepted
    <3>2. call \in [step : {"post"}, intent : Intents, attempt : Nat] /\ call # Idle
      BY <3>1 DEF IInv, TypeOK, Idle
    <3>3. orders \in Seq(ServerOrder) /\ new \in ServerOrder
      BY <3>2, StatusFacts DEF IInv, TypeOK, ServerOrder
    <3>4. new.intent # i
      BY <3>2 DEF IInv, CallOnFile
    <3> HIDE DEF new
    <3> QED
      BY <3>1, <3>3, <3>4, AppendFacts DEF OrdersOf
  <2>2. ASSUME NEW o \in DOMAIN orders, NEW status \in DOMAIN StatusOf, OrderMoves(o, status)
        PROVE  OrdersOf(i)' = OrdersOf(i)
    <3>1. orders' = [orders EXCEPT ![o].status = status]
      BY <2>2 DEF OrderMoves
    <3>2. orders \in Seq(ServerOrder)
      BY DEF IInv, TypeOK, ServerOrder
    <3> QED
      BY <3>1, <3>2 DEF OrdersOf, ServerOrder
  <2>3. CASE orders' = orders
    BY <2>3 DEF OrdersOf
  <2> QED
    BY <2>1, <2>2, <2>3 DEF Next, Place, HandOver, Reconcile, ReconcileRaises,
                              ReconcileBegins, ReconcileReturns, PostRefused, Acknowledge, Crash
<1> QED
  BY <1>1, IntentsSafe, PTL DEF Spec, NoRepostAfterAck

-----------------------------------------------------------------------------
(* The journal that the intents implement *)

\* The parts of the mapping.
ServerOf(seq) ==
  [o \in DOMAIN seq |-> [intent |-> seq[o].intent, status |-> StatusOf[seq[o].status]]]

Names == [i \in {j \in DOMAIN intents : Named(j)} |-> intents[i].order]

Finals ==
  [i \in {j \in DOMAIN intents : intents[j].status \in Terminal} |-> intents[i].status]

\* A step that leaves the file and the orders alone is a stutter.
LEMMA JournalStutter ==
  ASSUME UNCHANGED <<intents, orders>>
  PROVE  UNCHANGED Journal!vars
BY DEF Journal!vars, Named

JournalOrder == [intent : Intents, status : Status]

\* The journal's orders are a sequence of orders.
LEMMA ServerOfTyped ==
  ASSUME NEW seq \in Seq(ServerOrder)
  PROVE  ServerOf(seq) \in Seq(JournalOrder) /\ DOMAIN ServerOf(seq) = DOMAIN seq
<1>1. \A o \in DOMAIN seq : seq[o] \in ServerOrder
  OBVIOUS
<1>2. \A e \in ServerOrder : [intent |-> e.intent, status |-> StatusOf[e.status]] \in JournalOrder
  BY StatusFacts DEF ServerOrder, JournalOrder
<1> HIDE DEF ServerOrder, JournalOrder
<1> QED
  BY <1>1, <1>2 DEF ServerOf

\* Two sequences that agree everywhere are equal.
LEMMA SameSeq ==
  ASSUME NEW S, NEW a \in Seq(S), NEW b \in Seq(S),
         DOMAIN a = DOMAIN b, \A o \in DOMAIN a : a[o] = b[o]
  PROVE  a = b
OBVIOUS

\* An accepted order is one more for the server of the journal.
LEMMA AppendServer ==
  ASSUME NEW seq \in Seq(ServerOrder), NEW e \in ServerOrder
  PROVE  ServerOf(Append(seq, e)) =
           Append(ServerOf(seq), [intent |-> e.intent, status |-> StatusOf[e.status]])
<1> DEFINE new == [intent |-> e.intent, status |-> StatusOf[e.status]]
           longer == Append(seq, e)
<1>1. /\ longer \in Seq(ServerOrder)
      /\ DOMAIN longer = DOMAIN seq \cup {Len(seq) + 1}
      /\ \A o \in DOMAIN seq : longer[o] = seq[o]
      /\ longer[Len(seq) + 1] = e
      /\ Len(seq) + 1 \notin DOMAIN seq
  BY AppendFacts
<1>2. new \in JournalOrder
  BY StatusFacts DEF ServerOrder, JournalOrder
<1>3. Len(ServerOf(seq)) = Len(seq)
  BY ServerOfTyped
<1> HIDE DEF new, longer, ServerOrder, JournalOrder
<1>4. /\ ServerOf(seq) \in Seq(JournalOrder) /\ DOMAIN ServerOf(seq) = DOMAIN seq
      /\ ServerOf(longer) \in Seq(JournalOrder) /\ DOMAIN ServerOf(longer) = DOMAIN longer
  BY <1>1, ServerOfTyped
<1>5. /\ Append(ServerOf(seq), new) \in Seq(JournalOrder)
      /\ DOMAIN Append(ServerOf(seq), new) = DOMAIN seq \cup {Len(seq) + 1}
      /\ \A o \in DOMAIN seq : Append(ServerOf(seq), new)[o] = ServerOf(seq)[o]
      /\ Append(ServerOf(seq), new)[Len(seq) + 1] = new
  BY <1>2, <1>3, <1>4, AppendFacts
<1>6. \A o \in DOMAIN longer : ServerOf(longer)[o] = Append(ServerOf(seq), new)[o]
  <2>1. \A o \in DOMAIN seq : ServerOf(longer)[o] = ServerOf(seq)[o]
    BY <1>1 DEF ServerOf
  <2>2. ServerOf(longer)[Len(seq) + 1] = new
    BY <1>1 DEF ServerOf, new
  <2> QED
    BY <1>1, <1>5, <2>1, <2>2
<1>7. ServerOf(longer) = Append(ServerOf(seq), new)
  BY <1>1, <1>4, <1>5, <1>6, SameSeq
<1> QED
  BY <1>7 DEF new, longer

\* A placement notes the intent, or finds it noted.
LEMMA JournalPlace ==
  ASSUME IInv, NEW i \in Intents, Place(i)
  PROVE  Journal!Note(i) \/ UNCHANGED Journal!vars
<1>1. RecordPending(i) /\ orders' = orders
  BY DEF Place
<1>2. CASE i \in DOMAIN intents
  BY <1>1, <1>2, JournalStutter DEF RecordPending
<1>3. CASE i \notin DOMAIN intents
  <2>1. intents' = Put(intents, i, [status |-> "PENDING", order |-> NoOrder])
    BY <1>1, <1>3 DEF RecordPending
  <2>2. /\ DOMAIN intents' = DOMAIN intents \cup {i}
        /\ \A j \in DOMAIN intents : intents'[j] = intents[j]
        /\ intents'[i].status = "PENDING" /\ intents'[i].order = NoOrder
    BY <1>3, <2>1 DEF Put
  <2>3. Names' = Names
    BY <2>2, AbsentIds DEF Names, Named
  <2>4. Finals' = Finals
    BY <2>2 DEF Finals, Terminal
  <2> QED
    BY <1>1, <2>2, <2>3, <2>4 DEF Journal!Note, Names, Named, Finals
<1> QED
  BY <1>2, <1>3

\* An accepted request, however it is answered, is an order of an intent that
\* is on file and names none.
LEMMA JournalPostAccepted ==
  ASSUME IInv, PostAccepted
  PROVE  \E i \in Intents : Journal!Accept(i)
<1> DEFINE new == [intent |-> call.intent, status |-> "PENDING", process |-> crashes]
<1>1. call.step = "post" /\ intents' = intents /\ orders' = Append(orders, new)
  BY DEF PostAccepted
<1>2. call \in [step : {"post"}, intent : Intents, attempt : Nat] /\ call # Idle
  BY <1>1 DEF IInv, TypeOK, Idle
<1>3. orders \in Seq(ServerOrder) /\ new \in ServerOrder
  BY <1>2, StatusFacts DEF IInv, TypeOK, ServerOrder
<1>4. call.intent \in Intents /\ call.intent \in DOMAIN intents /\ ~Named(call.intent)
  BY <1>2 DEF IInv, CallOnFile
<1>5. new.intent = call.intent /\ StatusOf[new.status] = "PENDING"
  BY DEF StatusOf
<1> HIDE DEF new
<1>6. ServerOf(orders)' =
        Append(ServerOf(orders), [intent |-> call.intent, status |-> "PENDING"])
  BY <1>1, <1>3, <1>5, AppendServer DEF ServerOf
<1>7. UNCHANGED <<DOMAIN intents, Names, Finals>>
  BY <1>1 DEF Names, Named, Finals
<1>8. call.intent \in DOMAIN intents \ DOMAIN Names
  BY <1>4 DEF Names
<1>9. PICK i \in Intents : i = call.intent
  BY <1>4
<1>10. Journal!Accept(i)
  BY <1>6, <1>7, <1>8, <1>9 DEF Journal!Accept, ServerOf, Names, Finals
<1> QED
  BY <1>10

\* Recording an answer names the order, if the answer has one.
LEMMA JournalAcknowledge ==
  ASSUME IInv, Acknowledge
  PROVE  (\E i \in Intents : Journal!Name(i)) \/ UNCHANGED Journal!vars
<1> DEFINE i == call.intent
<1>1. /\ call.step = "ack" /\ orders' = orders
      /\ intents' = [intents EXCEPT ![i] = [status |-> "SUBMITTED", order |-> call.order]]
  BY DEF Acknowledge, Submitted
<1>2. call \in [step : {"ack"}, intent : Intents, order : OrderId] /\ call # Idle
  BY <1>1 DEF IInv, TypeOK, Idle
<1>3. i \in Intents /\ i \in DOMAIN intents /\ ~Named(i)
  BY <1>2 DEF IInv, CallOnFile
<1>4. call.order = Blank \/ call.order \in OrdersOf(i)
  BY <1>1, <1>2 DEF IInv, AckIsReal
<1>5. /\ DOMAIN intents' = DOMAIN intents
      /\ intents'[i].status = "SUBMITTED" /\ intents'[i].order = call.order
      /\ \A j \in DOMAIN intents : j # i => intents'[j] = intents[j]
  BY <1>1, <1>3 DEF IInv, TypeOK, IsDict
<1> HIDE DEF i
<1>6. intents[i].status \notin Terminal
  BY <1>3 DEF IInv, TerminalIsTrue
<1>7. Finals' = Finals
  BY <1>5, <1>6 DEF Finals, Terminal
<1>8. CASE call.order = Blank
  <2>1. Names' = Names
    BY <1>3, <1>5, <1>8, AbsentIds DEF Names, Named
  <2> QED
    BY <1>1, <1>5, <1>7, <2>1 DEF Journal!vars, Names, Finals, Named
<1>9. CASE call.order \in OrdersOf(i)
  <2>1. call.order \in DOMAIN orders /\ orders[call.order].intent = i /\ call.order \in Nat
    <3>1. DOMAIN orders = 1..Len(orders) /\ Len(orders) \in Nat
      BY OrdersTyped DEF IInv
    <3> QED
      BY <1>9, <3>1 DEF OrdersOf
  <2>2. Names' = Put(Names, i, call.order)
    <3>1. DOMAIN Names = {j \in DOMAIN intents : Named(j)}
      BY DEF Names, Named
    <3>2. {j \in DOMAIN intents' : Named(j)'} = DOMAIN Names \cup {i}
      BY <1>3, <1>5, <2>1, <3>1 DEF Named
    <3>3. \A j \in DOMAIN Names \cup {i} :
            intents'[j].order = IF j = i THEN call.order ELSE Names[j]
      BY <1>5, <3>1 DEF Names, Named
    <3> QED
      BY <3>2, <3>3 DEF Names, Named, Put
  <2>3. i \notin DOMAIN Names
    BY <1>3 DEF Names, Named
  <2>4. call.order \in DOMAIN ServerOf(orders) /\ ServerOf(orders)[call.order].intent = i
    BY <2>1 DEF ServerOf
  <2>5. PICK j \in Intents : j = i
    BY <1>3
  <2>6. UNCHANGED <<DOMAIN intents, ServerOf(orders)>>
    BY <1>1, <1>5 DEF ServerOf
  <2>7. /\ j \notin DOMAIN Names
        /\ \E o \in DOMAIN ServerOf(orders) :
             ServerOf(orders)[o].intent = j /\ Names' = Put(Names, j, o)
    BY <2>2, <2>3, <2>4, <2>5
  <2>8. Journal!Name(j)
    BY <1>7, <2>6, <2>7 DEF Journal!Name, Journal!Put, Put, ServerOf, Names, Finals
  <2> QED
    BY <2>8
<1> QED
  BY <1>4, <1>8, <1>9

\* Reconciling settles an intent whose order is final at the server.
LEMMA JournalReconcile ==
  ASSUME IInv, NEW i \in Intents, Reconcile(i)
  PROVE  Journal!Settle(i) \/ UNCHANGED Journal!vars
<1> DEFINE status == BrokerStatus(intents[i].order)
<1>1. /\ i \in DOMAIN intents /\ intents[i].order # NoOrder
      /\ intents[i].status \in {"PENDING", "SUBMITTED"}
      /\ orders' = orders
      /\ intents' = [intents EXCEPT ![i].status = status]
  BY DEF Reconcile, Reconciling, IInv, PassUnderWay, AllPending
<1>2. intents[i] \in Record
  BY <1>1 DEF IInv, TypeOK, IsDict, Record
<1>3. intents[i].order = Blank \/ Named(i)
  BY <1>1, <1>2 DEF Record, OrderId, Named
<1>4. /\ DOMAIN intents' = DOMAIN intents
      /\ intents'[i].status = status /\ intents'[i].order = intents[i].order
      /\ \A j \in DOMAIN intents : j # i => intents'[j] = intents[j]
  BY <1>1, <1>2 DEF IInv, TypeOK, IsDict, Record
<1>5. intents[i].order = Blank => status = "PENDING"
  BY DEF BrokerStatus
<1>6. Named(i) => /\ intents[i].order \in DOMAIN orders
                  /\ status = StatusOf[orders[intents[i].order].status]
  BY <1>1, AbsentIds DEF IInv, NamedIsReal, OrdersOf, BrokerStatus, Named
<1> HIDE DEF status
<1>7. Names' = Names
  BY <1>4 DEF Names, Named
<1>8. i \notin DOMAIN Finals
  BY <1>1 DEF Finals, Terminal
<1>9. CASE status \notin Terminal
  <2>1. Finals' = Finals
    BY <1>1, <1>4, <1>9 DEF Finals, Terminal
  <2> QED
    BY <1>1, <1>4, <1>7, <2>1 DEF Journal!vars, Names, Finals, Named
<1>10. CASE status \in Terminal
  <2>1. Named(i)
    BY <1>3, <1>5, <1>10 DEF Terminal
  <2>2. Finals' = Put(Finals, i, status)
    <3>1. DOMAIN Finals = {j \in DOMAIN intents : intents[j].status \in Terminal}
      BY DEF Finals
    <3>2. {j \in DOMAIN intents' : intents'[j].status \in Terminal}
            = DOMAIN Finals \cup {i}
      BY <1>1, <1>4, <1>10, <3>1
    <3>3. \A j \in DOMAIN Finals \cup {i} :
            intents'[j].status = IF j = i THEN status ELSE Finals[j]
      BY <1>4, <3>1 DEF Finals
    <3> QED
      BY <3>2, <3>3 DEF Finals, Put
  <2>3. i \in DOMAIN Names /\ Names[i] = intents[i].order
    BY <1>1, <2>1 DEF Names, Named
  <2>4. ServerOf(orders)[Names[i]].status = status
    BY <1>6, <2>1, <2>3 DEF ServerOf
  <2>5. UNCHANGED <<DOMAIN intents, ServerOf(orders)>>
    BY <1>1, <1>4 DEF ServerOf
  <2>6. /\ i \in DOMAIN Names \ DOMAIN Finals
        /\ ServerOf(orders)[Names[i]].status \in Terminal
        /\ Finals' = Put(Finals, i, ServerOf(orders)[Names[i]].status)
    BY <1>8, <1>10, <2>2, <2>3, <2>4
  <2>7. Journal!Settle(i)
    BY <1>7, <2>5, <2>6
       DEF Journal!Settle, Journal!Put, Put, ServerOf, Names, Finals
  <2> QED
    BY <2>7
<1> QED
  BY <1>9, <1>10

\* An order that moves at the server is one that was not final.
LEMMA JournalOrderMoves ==
  ASSUME IInv, NEW o \in DOMAIN orders, NEW status \in DOMAIN StatusOf,
         OrderMoves(o, status)
  PROVE  o \in DOMAIN ServerOf(orders) /\ Journal!Move(o)
<1>1. /\ orders[o].status \in Live
      /\ orders' = [orders EXCEPT ![o].status = status]
      /\ intents' = intents
  BY DEF OrderMoves
<1>2. orders[o] \in ServerOrder
  BY OrdersTyped DEF IInv
<1>3. /\ DOMAIN orders' = DOMAIN orders
      /\ orders'[o].intent = orders[o].intent /\ orders'[o].status = status
      /\ \A p \in DOMAIN orders : p # o => orders'[p] = orders[p]
  BY <1>1, <1>2 DEF ServerOrder
<1>4. ServerOf(orders)' = [ServerOf(orders) EXCEPT ![o].status = StatusOf[status]]
  BY <1>3 DEF ServerOf
<1>5. o \in DOMAIN ServerOf(orders) /\ ServerOf(orders)[o].status \notin Terminal
  BY <1>1, StatusFacts DEF ServerOf
<1>6. StatusOf[status] \in Status
  BY StatusFacts
<1>7. UNCHANGED <<DOMAIN intents, Names, Finals>>
  BY <1>1 DEF Names, Named, Finals
<1> QED
  BY <1>4, <1>5, <1>6, <1>7 DEF Journal!Move, ServerOf, Names, Finals, Named

\* Every step of the broker's calls is a step of the journal, or a stutter.
LEMMA JournalStep ==
  ASSUME IInv, [Next]_vars
  PROVE  [Journal!Next]_(Journal!vars)
<1>1. CASE \E i \in Intents : Place(i) \/ Reconcile(i)
  BY <1>1, JournalPlace, JournalReconcile DEF Journal!Next
<1>2. CASE PostAccepted
  BY <1>2, JournalPostAccepted DEF Journal!Next
<1>3. CASE Acknowledge
  BY <1>3, JournalAcknowledge DEF Journal!Next
<1>4. CASE \E o \in DOMAIN orders, status \in DOMAIN StatusOf \ {"PENDING"} :
             OrderMoves(o, status)
  BY <1>4, JournalOrderMoves DEF Journal!Next, ServerOf
<1>5. CASE PostRefused \/ Crash \/ UNCHANGED vars
  BY <1>5, JournalStutter DEF PostRefused, Crash, vars
<1>6. CASE \/ \E i \in Intents : HandOver(i) \/ ReconcileRaises(i)
           \/ ReconcileBegins \/ ReconcileReturns
  BY <1>6, JournalStutter DEF HandOver, ReconcileRaises, ReconcileBegins, ReconcileReturns
<1> QED
  BY <1>1, <1>2, <1>3, <1>4, <1>5, <1>6 DEF Next

\* The intent file with its retries and restarts implements the journal: noted,
\* then ordered, then named once, then final once, each by the server's word.
THEOREM IntentsAreAJournal == Spec => ImplementsOrderJournal
<1>1. Init => Journal!Init
  BY DEF Init, EmptyDict, Journal!Init, Journal!EmptyDict
<1> QED
  BY <1>1, JournalStep, IntentsSafe, PTL DEF Spec, Journal!Spec, ImplementsOrderJournal
=============================================================================
