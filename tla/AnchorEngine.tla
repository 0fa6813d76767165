---------------------------- MODULE AnchorEngine ----------------------------
(***************************************************************************)
(* engine/anchor_engine.py, as operators on the engine's memory and on its *)
(* file (StateStore "anchors.json").                                       *)
(*                                                                         *)
(* Both are records [day, px]: px maps the symbols that have an anchor to  *)
(* it, for one day.  In memory that is _current_day_iso and                *)
(* _anchors_today.  The file maps dates to such dictionaries, but _persist *)
(* writes a dictionary with the current date as its only key, so a file    *)
(* has one date at most; day = NoDay is the file that does not exist yet,  *)
(* or the engine that was not called yet.                                  *)
(***************************************************************************)
EXTENDS Integers, Dicts

CONSTANTS
  TradingOpen, TradingClose,  \* the session, inclusive at both ends
  AnchorTime,                 \* anchor_time
  CaptureWindow               \* capture_window_seconds

ASSUME AnchorAssumption ==
  /\ TradingOpen \in Nat
  /\ TradingClose \in Nat
  /\ AnchorTime \in Nat
  /\ CaptureWindow \in Nat

NoDay == 0

NoAnchors == [day |-> NoDay, px |-> EmptyDict]

\* Seeded fault: the new date starts from nothing.
RolledDayWithoutReload(mem, file, today) ==
  IF mem.day = today THEN mem ELSE [day |-> today, px |-> EmptyDict]

\* _roll_day_if_needed / _reload: hydrate from the file on a new date.
RolledDay(mem, file, today) ==
  IF mem.day = today THEN mem
  ELSE [day |-> today,
        px  |-> IF file.day = today THEN file.px ELSE EmptyDict]

\* _reload's purge: a file that holds another date is rewritten.
PurgedFile(mem, file, today) ==
  IF mem.day # today /\ file.day \notin {NoDay, today}
  THEN [day |-> today, px |-> EmptyDict] ELSE file

\* should_capture_anchor, once the day has been rolled.
ShouldCapture(mem, s, tod) ==
  /\ TradingOpen <= tod /\ tod <= TradingClose
  /\ s \notin DOMAIN mem.px
  /\ AnchorTime <= tod /\ tod <= AnchorTime + CaptureWindow

\* capture_anchor: the new memory, which _persist also writes to the file.
CapturedAnchor(mem, s, price) == [mem EXCEPT !.px = Put(mem.px, s, price)]
=============================================================================
