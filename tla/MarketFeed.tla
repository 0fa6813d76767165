----------------------------- MODULE MarketFeed -----------------------------
(***************************************************************************)
(* brokers/dhan/market_feed.py: the reconnect loop of the feed's threads   *)
(* against connect() and close() of its owner (engine/live_runner.py calls *)
(* connect), and the WebSocket between them.                               *)
(*                                                                         *)
(* Every connect() starts a thread, and a thread keeps its connections one *)
(* after the other, so that a WebSocketApp is named by its thread: self.ws *)
(* can only hold the latest app of some thread.  What the websocket        *)
(* library does is external: run_forever returns when the connection       *)
(* fails, drops or is closed, and close() on an app whose run_forever has  *)
(* not begun is without effect.  Prices and times of ticks are left out.   *)
(***************************************************************************)
EXTENDS Naturals

CONSTANTS
  Securities,   \* the ids a list of instruments may hold
  Lists,        \* the lists of instruments that connect() may be given
  NoThread,     \* None
  Delays,       \* Len(RECONNECT_DELAYS)
  MaxConnects   \* bound: the calls of connect()

ASSUME FeedAssumption ==
  /\ Lists \subseteq SUBSET Securities
  /\ Delays \in Nat \ {0}
  /\ MaxConnects \in Nat
  /\ NoThread \notin 1..MaxConnects

VARIABLES
  pc,           \* where each thread is in _run_loop
  subscribed,   \* the list that each thread's connection has subscribed
  ws,           \* self.ws, by thread
  stop,         \* _stop
  instruments,  \* _instruments
  attempt,      \* _reconnect_idx; more than the last delay is the last delay
  latest,       \* the keys of latest_ticks
  closing,      \* the owner is between the two statements of close()
  connects,     \* history: the calls of connect() so far
  asked,        \* history: what the owner last asked for
  missed        \* history: threads that the last close() could not reach

loop  == <<pc, subscribed, ws, attempt>>
owner == <<stop, instruments, closing, connects, asked, missed>>
vars  == <<loop, owner, latest>>

Threads == 1..MaxConnects

\* "test": at the while.  "build": past it, no app yet.  "built": the app is
\* self.ws, run_forever has not begun.  "returned": run_forever is over.
Place == {"unborn", "test", "build", "built", "connecting", "open", "returned",
          "asleep", "done"}

\* run_forever has begun: a close() of this app ends it.
Running(t) == pc[t] \in {"connecting", "open"}

TypeOK ==
  /\ pc \in [Threads -> Place]
  /\ subscribed \in [Threads -> SUBSET Securities]
  /\ ws \in Threads \cup {NoThread}
  /\ stop \in BOOLEAN
  /\ instruments \in SUBSET Securities
  /\ attempt \in 0..(Delays - 1)
  /\ latest \subseteq Securities
  /\ closing \in BOOLEAN
  /\ connects \in 0..MaxConnects
  /\ asked \in {"nothing", "open", "closed"}
  /\ missed \subseteq Threads

Init ==
  /\ pc = [t \in Threads |-> "unborn"]
  /\ subscribed = [t \in Threads |-> {}]
  /\ ws = NoThread
  /\ stop = FALSE
  /\ instruments = {}
  /\ attempt = 0
  /\ latest = {}
  /\ closing = FALSE
  /\ connects = 0
  /\ asked = "nothing"
  /\ missed = {}

-----------------------------------------------------------------------------
(* The owner *)

\* connect(): also after a close(), whether or not the old thread has ended.
\* One owner: connect() does not come in the middle of close().
Connect(list) ==
  /\ connects < MaxConnects /\ ~closing
  /\ instruments' = list
  /\ stop' = FALSE
  /\ connects' = connects + 1
  /\ asked' = "open"
  /\ pc' = [pc EXCEPT ![connects + 1] = "test"]
  /\ missed' = {}
  /\ UNCHANGED <<subscribed, ws, attempt, latest, closing>>

\* Seeded fault: close() leaves _stop alone.
CloseBeginsUnset ==
  /\ ~closing /\ connects > 0
  /\ closing' = TRUE
  /\ asked' = "closed"
  /\ missed' = {t \in Threads : pc[t] \in {"build", "built"}}
  /\ UNCHANGED <<loop, latest, stop, instruments, connects>>

\* close(), its first statement.
CloseBegins ==
  /\ ~closing /\ connects > 0
  /\ closing' = TRUE
  /\ asked' = "closed"
  /\ stop' = TRUE
  /\ missed' = {t \in Threads : pc[t] \in {"build", "built"}}
  /\ UNCHANGED <<loop, latest, instruments, connects>>

\* The app of thread t is closed, if it is one that runs.
ClosesApp(t) == pc' = IF t \in Threads /\ Running(t) THEN [pc EXCEPT ![t] = "returned"] ELSE pc

\* ... and the rest of it.
CloseEnds ==
  /\ closing
  /\ closing' = FALSE
  /\ ClosesApp(ws)
  /\ missed' = missed \cup {t \in Threads : Running(t) /\ t # ws}
  /\ UNCHANGED <<subscribed, ws, attempt, latest, stop, instruments, connects, asked>>

-----------------------------------------------------------------------------
(* _run_loop *)

Goes(t, from, to) == pc[t] = from /\ pc' = [pc EXCEPT ![t] = to]

\* Seeded fault: the loop is a "while True".
TestNothing(t) ==
  /\ Goes(t, "test", "build")
  /\ UNCHANGED <<subscribed, ws, attempt, latest, owner>>

\* while not self._stop.is_set()
TestStop(t) ==
  /\ \/ stop /\ Goes(t, "test", "done")
     \/ ~stop /\ Goes(t, "test", "build")
  /\ UNCHANGED <<subscribed, ws, attempt, latest, owner>>

\* self.ws = WebSocketApp(...)
BuildApp(t) ==
  /\ Goes(t, "build", "built")
  /\ ws' = t
  /\ UNCHANGED <<subscribed, attempt, latest, owner>>

RunForever(t) ==
  /\ Goes(t, "built", "connecting")
  /\ UNCHANGED <<subscribed, ws, attempt, latest, owner>>

\* Seeded fault: RECONNECT_DELAYS is indexed without the min.
AfterRunUncapped(t) ==
  /\ \/ stop /\ Goes(t, "returned", "done") /\ UNCHANGED attempt
     \/ ~stop /\ Goes(t, "returned", "asleep") /\ attempt' = attempt + 1
  /\ UNCHANGED <<subscribed, ws, latest, owner>>

\* Seeded fault: an exception of run_forever ends the thread.
AfterRunOnce(t) ==
  /\ Goes(t, "returned", "done")
  /\ UNCHANGED <<subscribed, ws, attempt, latest, owner>>

\* run_forever has returned or raised: end, or back off.
AfterRun(t) ==
  /\ \/ stop /\ Goes(t, "returned", "done") /\ UNCHANGED attempt
     \/ /\ ~stop /\ Goes(t, "returned", "asleep")
        /\ attempt' = IF attempt < Delays - 1 THEN attempt + 1 ELSE attempt
  /\ UNCHANGED <<subscribed, ws, latest, owner>>

\* time.sleep(delay) is over.
Wake(t) ==
  /\ Goes(t, "asleep", "test")
  /\ UNCHANGED <<subscribed, ws, attempt, latest, owner>>

-----------------------------------------------------------------------------
(* The connection and its callbacks *)

\* _on_open: the list of the latest connect() is subscribed.
OnOpen(t) ==
  /\ Goes(t, "connecting", "open")
  /\ attempt' = 0
  /\ subscribed' = [subscribed EXCEPT ![t] = instruments]
  /\ UNCHANGED <<ws, latest, owner>>

\* The connection cannot be made, or is lost.
Drops(t) ==
  /\ Running(t)
  /\ pc' = [pc EXCEPT ![t] = "returned"]
  /\ UNCHANGED <<subscribed, ws, attempt, latest, owner>>

\* _on_message, a ticker packet (whatever on_tick raises is swallowed).
OnTicker(t) ==
  /\ pc[t] = "open"
  /\ \E id \in subscribed[t] : latest' = latest \cup {id}
  /\ UNCHANGED <<loop, owner>>

\* _on_message, the server's disconnect packet: self.ws is closed, which is
\* the app that got the packet unless another thread has replaced it.
OnDisconnect(t) ==
  /\ pc[t] = "open"
  /\ ClosesApp(ws)
  /\ UNCHANGED <<subscribed, ws, attempt, latest, owner>>

-----------------------------------------------------------------------------

Step(t) == TestStop(t) \/ BuildApp(t) \/ RunForever(t) \/ AfterRun(t) \/ Wake(t)

Network(t) == OnOpen(t) \/ Drops(t) \/ OnTicker(t) \/ OnDisconnect(t)

Next ==
  \/ \E list \in Lists : Connect(list)
  \/ CloseBegins
  \/ CloseEnds
  \/ \E t \in Threads : Step(t) \/ Network(t)

Spec == Init /\ [][Next]_vars

\* Threads run, a call of close() returns, a thread that keeps trying gets a
\* connection, and no connection lasts for ever.
Fairness ==
  /\ WF_vars(CloseEnds)
  /\ \A t \in Threads : WF_vars(Step(t)) /\ SF_vars(OnOpen(t)) /\ WF_vars(Drops(t))

FairSpec == Spec /\ Fairness

-----------------------------------------------------------------------------
(* Properties *)

\* The owner's last call was close(), and it has returned.
Closed == asked = "closed" /\ ~closing

\* After close() no connection is up but those it could not reach: of a thread
\* that had passed its stop test and not begun to run, or of one whose app
\* self.ws no longer names.  A thread that slept or was done opens none.
CloseReachesTheRest == Closed => \A t \in Threads : Running(t) => t \in missed

\* The feed of an owner who has connected and not closed comes back, with the
\* list of the latest connect(), however often it is dropped.
FeedReconnects ==
  []<>(asked = "open" =>
         \E t \in Threads : pc[t] = "open" /\ subscribed[t] = instruments)

\* A feed that stays closed ends all its threads, those that close() could
\* not reach included.
ClosedFeedEnds ==
  <>[](asked = "closed") => <>[](\A t \in Threads : pc[t] \in {"unborn", "done"})
=============================================================================
