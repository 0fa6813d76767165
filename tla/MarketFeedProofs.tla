-------------------------- MODULE MarketFeedProofs --------------------------
(***************************************************************************)
(* The safety of MarketFeed, for any lists, delays and number of connects: *)
(* what close() reaches, and that the back-off never leaves its table.     *)
(***************************************************************************)
EXTENDS MarketFeed, TLAPS

\* While the feed is to stop, a thread between its stop test and run_forever
\* is one that had passed the test before: no thread passes it any more.
StartersAreMissed ==
  asked = "closed" =>
    /\ stop
    /\ \A t \in Threads : pc[t] \in {"build", "built"} => t \in missed

IInv == TypeOK /\ StartersAreMissed /\ CloseReachesTheRest

-----------------------------------------------------------------------------
(* The invariant holds at the start and is kept by each action.            *)

\* A thread's place changes and nothing else: the place stays a place.
LEMMA GoesTypes ==
  ASSUME NEW t \in Threads, NEW from, NEW to \in Place, TypeOK, Goes(t, from, to)
  PROVE  pc' \in [Threads -> Place]
BY DEF TypeOK, Goes

LEMMA InitIInv == Init => IInv
<1> SUFFICES ASSUME Init PROVE IInv
  OBVIOUS
<1>1. 0 \in 0..(Delays - 1) /\ 0 \in 0..MaxConnects
  BY FeedAssumption
<1>2. TypeOK
  BY <1>1 DEF Init, TypeOK, Place
<1>3. StartersAreMissed /\ CloseReachesTheRest
  BY DEF Init, StartersAreMissed, CloseReachesTheRest, Closed
<1> QED BY <1>2, <1>3 DEF IInv

LEMMA ConnectIInv ==
  ASSUME IInv, NEW list \in Lists, Connect(list)
  PROVE  IInv'
<1>1. TypeOK'
  <2>1. connects + 1 \in Threads /\ connects' \in 0..MaxConnects
    BY FeedAssumption DEF Connect, IInv, TypeOK, Threads
  <2>2. instruments' \in SUBSET Securities
    BY FeedAssumption DEF Connect
  <2>3. pc' \in [Threads -> Place]
    BY <2>1 DEF Connect, IInv, TypeOK, Place
  <2> QED BY <2>1, <2>2, <2>3 DEF Connect, IInv, TypeOK
<1>2. asked' = "open"
  BY DEF Connect
<1> QED BY <1>1, <1>2 DEF IInv, StartersAreMissed, CloseReachesTheRest, Closed

LEMMA CloseBeginsIInv ==
  ASSUME IInv, CloseBegins
  PROVE  IInv'
<1>1. TypeOK'
  BY DEF CloseBegins, IInv, TypeOK, loop
<1>2. StartersAreMissed'
  BY DEF CloseBegins, StartersAreMissed, loop
<1>3. CloseReachesTheRest'
  BY DEF CloseBegins, CloseReachesTheRest, Closed
<1> QED BY <1>1, <1>2, <1>3 DEF IInv

\* Closing an app moves a thread that runs to "returned" and no other.
LEMMA ClosesAppMoves ==
  ASSUME TypeOK, NEW u, ClosesApp(u)
  PROVE  /\ pc' \in [Threads -> Place]
         /\ \A t \in Threads : pc'[t] = pc[t] \/ pc'[t] = "returned"
         /\ u \in Threads => pc'[u] \notin {"connecting", "open"}
<1>1. CASE u \in Threads /\ Running(u)
  BY <1>1 DEF ClosesApp, TypeOK, Place
<1>2. CASE ~(u \in Threads /\ Running(u))
  BY <1>2 DEF ClosesApp, TypeOK, Running
<1> QED BY <1>1, <1>2

LEMMA CloseEndsIInv ==
  ASSUME IInv, CloseEnds
  PROVE  IInv'
<1>1. /\ pc' \in [Threads -> Place]
      /\ \A t \in Threads : pc'[t] = pc[t] \/ pc'[t] = "returned"
      /\ ws \in Threads => pc'[ws] \notin {"connecting", "open"}
  BY ClosesAppMoves DEF CloseEnds, IInv
<1>2. TypeOK'
  BY <1>1 DEF CloseEnds, IInv, TypeOK
<1>3. StartersAreMissed'
  BY <1>1 DEF CloseEnds, IInv, StartersAreMissed
<1>4. CloseReachesTheRest'
  BY <1>1 DEF CloseEnds, IInv, CloseReachesTheRest, Closed, Running
<1> QED BY <1>2, <1>3, <1>4 DEF IInv

LEMMA StepIInv ==
  ASSUME IInv, NEW t \in Threads, Step(t)
  PROVE  IInv'
<1> USE DEF IInv, owner
<1>1. CASE TestStop(t)
  <2>1. TypeOK'
    BY <1>1, GoesTypes DEF TestStop, TypeOK, Place
  <2>2. StartersAreMissed' /\ CloseReachesTheRest'
    BY <1>1 DEF TestStop, Goes, TypeOK, StartersAreMissed, CloseReachesTheRest, Closed, Running
  <2> QED BY <2>1, <2>2
<1>2. CASE BuildApp(t)
  <2>1. TypeOK'
    BY <1>2, GoesTypes DEF BuildApp, TypeOK, Place
  <2>2. StartersAreMissed' /\ CloseReachesTheRest'
    BY <1>2 DEF BuildApp, Goes, TypeOK, StartersAreMissed, CloseReachesTheRest, Closed, Running
  <2> QED BY <2>1, <2>2
<1>3. CASE RunForever(t)
  <2>1. TypeOK'
    BY <1>3, GoesTypes DEF RunForever, TypeOK, Place
  <2>2. StartersAreMissed' /\ CloseReachesTheRest'
    BY <1>3 DEF RunForever, Goes, TypeOK, StartersAreMissed, CloseReachesTheRest, Closed, Running
  <2> QED BY <2>1, <2>2
<1>4. CASE AfterRun(t)
  <2>1. attempt' \in 0..(Delays - 1)
    BY <1>4, FeedAssumption DEF AfterRun, TypeOK
  <2>2. TypeOK'
    BY <1>4, <2>1, GoesTypes DEF AfterRun, TypeOK, Place
  <2>3. StartersAreMissed' /\ CloseReachesTheRest'
    BY <1>4 DEF AfterRun, Goes, TypeOK, StartersAreMissed, CloseReachesTheRest, Closed, Running
  <2> QED BY <2>2, <2>3
<1>5. CASE Wake(t)
  <2>1. TypeOK'
    BY <1>5, GoesTypes DEF Wake, TypeOK, Place
  <2>2. StartersAreMissed' /\ CloseReachesTheRest'
    BY <1>5 DEF Wake, Goes, TypeOK, StartersAreMissed, CloseReachesTheRest, Closed, Running
  <2> QED BY <2>1, <2>2
<1> QED BY <1>1, <1>2, <1>3, <1>4, <1>5 DEF Step

LEMMA NetworkIInv ==
  ASSUME IInv, NEW t \in Threads, Network(t)
  PROVE  IInv'
<1> USE DEF IInv, owner
<1>1. CASE OnOpen(t)
  <2>1. attempt' \in 0..(Delays - 1)
    BY <1>1, FeedAssumption DEF OnOpen
  <2>2. TypeOK'
    BY <1>1, <2>1, GoesTypes DEF OnOpen, TypeOK, Place
  <2>3. StartersAreMissed' /\ CloseReachesTheRest'
    BY <1>1 DEF OnOpen, Goes, TypeOK, StartersAreMissed, CloseReachesTheRest, Closed, Running
  <2> QED BY <2>2, <2>3
<1>2. CASE Drops(t)
  <2>1. TypeOK'
    BY <1>2 DEF Drops, TypeOK, Place
  <2>2. StartersAreMissed' /\ CloseReachesTheRest'
    BY <1>2 DEF Drops, TypeOK, StartersAreMissed, CloseReachesTheRest, Closed, Running
  <2> QED BY <2>1, <2>2
<1>3. CASE OnTicker(t)
  <2>1. latest' \subseteq Securities
    BY <1>3 DEF OnTicker, TypeOK
  <2>2. QED
    BY <1>3, <2>1 DEF OnTicker, loop, TypeOK, StartersAreMissed, CloseReachesTheRest, Closed,
                      Running
<1>4. CASE OnDisconnect(t)
  <2>1. /\ pc' \in [Threads -> Place]
        /\ \A u \in Threads : pc'[u] = pc[u] \/ pc'[u] = "returned"
    BY <1>4, ClosesAppMoves DEF OnDisconnect
  <2>2. TypeOK'
    BY <1>4, <2>1 DEF OnDisconnect, TypeOK
  <2>3. StartersAreMissed' /\ CloseReachesTheRest'
    BY <1>4, <2>1 DEF OnDisconnect, StartersAreMissed, CloseReachesTheRest, Closed, Running
  <2> QED BY <2>2, <2>3
<1> QED BY <1>1, <1>2, <1>3, <1>4 DEF Network

LEMMA NextIInv == IInv /\ [Next]_vars => IInv'
<1> SUFFICES ASSUME IInv, [Next]_vars PROVE IInv'
  OBVIOUS
<1>1. CASE UNCHANGED vars
  BY <1>1 DEF vars, loop, owner, IInv, TypeOK, StartersAreMissed, CloseReachesTheRest, Closed,
              Running
<1>2. CASE Next
  BY <1>2, ConnectIInv, CloseBeginsIInv, CloseEndsIInv, StepIInv, NetworkIInv DEF Next
<1> QED BY <1>1, <1>2

-----------------------------------------------------------------------------
(* The theorems *)

\* The inductive invariant.
THEOREM SpecIInv == Spec => []IInv
<1> QED BY InitIInv, NextIInv, PTL DEF Spec

\* Types, and with them that _reconnect_idx, which failures in a row raise
\* without end, never indexes RECONNECT_DELAYS beyond its last delay.
THEOREM SpecTypeOK == Spec => []TypeOK
<1>1. IInv => TypeOK
  BY DEF IInv
<1> QED BY SpecIInv, <1>1, PTL

\* After close() no connection is up but those it could not reach, however
\* many threads connect() has started and wherever each of them was.
THEOREM SpecCloseReachesTheRest == Spec => []CloseReachesTheRest
<1>1. IInv => CloseReachesTheRest
  BY DEF IInv
<1> QED BY SpecIInv, <1>1, PTL
=============================================================================
