---------------------------- MODULE CommandQueue ----------------------------
(***************************************************************************)
(* What an operator's commands are promised, whatever requests are lost,   *)
(* batches are cut short or processes die: the updates stand in a queue,   *)
(* and a cursor goes through it one by one.  The queue forgets nothing the *)
(* cursor has not passed, and a new process puts the cursor back to what   *)
(* is forgotten.  core/telegram_polling.py implements this, as             *)
(* TelegramPolling shows.                                                  *)
(***************************************************************************)
EXTENDS Naturals, Sequences

CONSTANTS
  Senders,    \* those that write to the queue
  Authorized  \* those whose commands count

VARIABLES
  queue,      \* every update so far, an id being a position
  forgotten,  \* the ids up to here are kept no longer
  cursor,     \* the ids up to here are dealt with
  done,       \* the ids of the commands executed, in the order of execution
  paused      \* entries are paused

vars == <<queue, forgotten, cursor, done, paused>>

Command == {"STATUS", "PAUSE", "RESUME", "KILL"}

Init ==
  /\ queue = <<>> /\ forgotten = 0 /\ cursor = 0 /\ done = <<>>
  /\ paused = FALSE

Arrive ==
  /\ \E update \in [command : Command, sender : Senders] : queue' = Append(queue, update)
  /\ UNCHANGED <<forgotten, cursor, done, paused>>

\* The update after the cursor, and no other.
Execute ==
  /\ cursor < Len(queue)
  /\ queue[cursor + 1].sender \in Authorized
  /\ cursor' = cursor + 1
  /\ done' = Append(done, cursor + 1)
  /\ paused' = CASE queue[cursor + 1].command = "PAUSE" -> TRUE
                 [] queue[cursor + 1].command = "RESUME" -> FALSE
                 [] OTHER -> paused
  /\ UNCHANGED <<queue, forgotten>>

\* The same for somebody who has no say.
PassOver ==
  /\ cursor < Len(queue)
  /\ queue[cursor + 1].sender \notin Authorized
  /\ cursor' = cursor + 1
  /\ UNCHANGED <<queue, forgotten, done, paused>>

Forget ==
  /\ forgotten' \in forgotten + 1 .. cursor
  /\ UNCHANGED <<queue, cursor, done, paused>>

\* A new process knows neither the cursor nor the pause of the old one.
TakeOver ==
  /\ cursor' = forgotten
  /\ paused' = FALSE
  /\ UNCHANGED <<queue, forgotten, done>>

Next == Arrive \/ Execute \/ PassOver \/ Forget \/ TakeOver

Spec == Init /\ [][Next]_vars
=============================================================================
