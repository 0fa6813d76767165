-------------------------- MODULE TelegramPolling --------------------------
(***************************************************************************)
(* core/telegram_polling.py: the thread that fetches commands, with the    *)
(* offset that acknowledges them, and Telegram's getUpdates as the code    *)
(* relies on it (external): an update is served until a request carries an *)
(* offset beyond it.  Update ids are positions in the sequence sent.       *)
(***************************************************************************)
EXTENDS Naturals, Sequences, FiniteSetsExt

CONSTANTS
  Senders,     \* the chats that write to the bot
  Authorized,  \* those that pass the authorized_chat_id test
  MaxUpdates,  \* bound: the updates sent
  MaxCrashes   \* bound: the restarts of the process

ASSUME PollingAssumption ==
  /\ Authorized \subseteq Senders
  /\ MaxUpdates \in Nat
  /\ MaxCrashes \in Nat

VARIABLES
  sent,       \* every update so far (external)
  confirmed,  \* the ids up to here are no longer served (external)
  offset,     \* _last_update_id
  batch,      \* ids of the answer that the loop of _poll_once still has to handle
  paused,     \* state["paused"]
  stopped,    \* the _stop event
  log,        \* history: the commands that had their turn, and in which process
  base,       \* history: confirmed when this process began
  crashes     \* history: restarts so far

vars == <<sent, confirmed, offset, batch, paused, stopped, log, base, crashes>>

\* "STATUS" stands for the commands that only read; a message that is no
\* command is one of them.
Command == {"STATUS", "PAUSE", "RESUME", "KILL"}

TypeOK ==
  /\ sent \in Seq([command : Command, sender : Senders])
  /\ confirmed \in 0..Len(sent)
  /\ offset \in Nat
  /\ batch \in Seq(1..Len(sent))
  /\ paused \in BOOLEAN
  /\ stopped \in BOOLEAN
  /\ log \in Seq([id : 1..Len(sent), process : Nat])
  /\ base \in 0..confirmed
  /\ crashes \in Nat

Init ==
  /\ sent = <<>> /\ confirmed = 0
  /\ offset = 0 /\ batch = <<>> /\ paused = FALSE /\ stopped = FALSE
  /\ log = <<>> /\ base = 0 /\ crashes = 0

-----------------------------------------------------------------------------
(* The poller's thread *)

\* max(a, b)
Larger(a, b) == IF a > b THEN a ELSE b

\* The server has seen the request's offset.
Confirmed == Larger(confirmed, offset)

\* The loop is about to poll.
ReadyToPoll == batch = <<>> /\ ~stopped

\* _poll_once: the oldest updates that are not acknowledged, some or all.
PollAnswered ==
  /\ ReadyToPoll /\ Confirmed < Len(sent)
  /\ confirmed' = Confirmed
  /\ \E last \in Confirmed + 1 .. Len(sent) :
       batch' = [i \in 1 .. last - Confirmed |-> Confirmed + i]
  /\ UNCHANGED <<sent, offset, paused, stopped, log, base, crashes>>

\* The request arrives and its answer is empty, late, broken or lost.
PollUnanswered ==
  /\ ReadyToPoll
  /\ confirmed' = Confirmed
  /\ UNCHANGED <<sent, offset, batch, paused, stopped, log, base, crashes>>

\* Seeded fault: the whole batch is acknowledged with its first update.
AdvanceToLast(id) == batch[Len(batch)]

\* Seeded fault: the offset of the next request, not of this update.
AdvanceTooFar(id) == id + 1

\* Seeded fault: the offset stays.
AdvanceNever(id) == offset

\* The first lines of _handle_update: always, whoever sent the update.
Advance(id) == Larger(offset, id)

\* Seeded fault: /pause toggles.
PausedByToggle(command) ==
  IF command \in {"PAUSE", "RESUME"} THEN ~paused ELSE paused

\* handle_command: what it does to the pause flag.
PausedBy(command) == CASE command = "PAUSE" -> TRUE
                       [] command = "RESUME" -> FALSE
                       [] OTHER -> paused

\* An update of somebody else, or without a text: dropped.
DropUpdate ==
  /\ batch # <<>>
  /\ offset' = Advance(Head(batch))
  /\ sent[Head(batch)].sender \notin Authorized
  /\ batch' = Tail(batch)
  /\ UNCHANGED <<sent, confirmed, paused, stopped, log, base, crashes>>

\* The command has its turn.  What it calls may raise, a provider (it reads what
\* the tick thread writes) or pause_setter, after paused is written: that ends
\* the batch, and the command is neither answered nor fetched again.  Exceptions
\* of on_kill are caught.
ExecuteUpdate ==
  /\ batch # <<>>
  /\ LET id == Head(batch)
         command == sent[id].command
     IN  /\ offset' = Advance(id)
         /\ sent[id].sender \in Authorized
         /\ paused' = PausedBy(command)
         /\ log' = Append(log, [id |-> id, process |-> crashes])
         /\ \/ batch' = Tail(batch)
            \/ command # "KILL" /\ batch' = <<>>
  /\ UNCHANGED <<sent, confirmed, stopped, base, crashes>>

\* stop(): the loop looks at the event between batches only.
Stop ==
  /\ ~stopped
  /\ stopped' = TRUE
  /\ UNCHANGED <<sent, confirmed, offset, batch, paused, log, base, crashes>>

-----------------------------------------------------------------------------
(* Environment *)

Send ==
  /\ Len(sent) < MaxUpdates
  /\ \E update \in [command : Command, sender : Senders] : sent' = Append(sent, update)
  /\ UNCHANGED <<confirmed, offset, batch, paused, stopped, log, base, crashes>>

\* The process dies and another takes over: __init__ begins at update 0.
Restart ==
  /\ crashes < MaxCrashes
  /\ crashes' = crashes + 1
  /\ offset' = 0 /\ batch' = <<>> /\ paused' = FALSE /\ stopped' = FALSE
  /\ base' = confirmed
  /\ UNCHANGED <<sent, confirmed, log>>

Next ==
  \/ PollAnswered
  \/ PollUnanswered
  \/ DropUpdate
  \/ ExecuteUpdate
  \/ Stop
  \/ Send
  \/ Restart

Spec == Init /\ [][Next]_vars

\* The thread goes through its batch, and not every request fails for ever.
FairSpec ==
  /\ Spec
  /\ WF_vars(PollAnswered)
  /\ WF_vars(DropUpdate \/ ExecuteUpdate)

-----------------------------------------------------------------------------
(* Properties *)

Commands(ids) == {id \in ids : sent[id].sender \in Authorized}

Executed == {log[i].id : i \in DOMAIN log}

\* No command is acknowledged unexecuted: what Telegram forgets had its turn in
\* some process, though a batch may be cut short by the exception of another
\* command, a stop or a restart, and answers get lost.  (A command that raises
\* itself had its turn: a /status may go unanswered.)
AckedIsExecuted == Commands(1..confirmed) \subseteq Executed

\* One process executes commands in the order of their ids, none twice.
ExecutedInOrder ==
  \A i, j \in DOMAIN log :
    i < j /\ log[i].process = log[j].process => log[i].id < log[j].id

\* The pauses and resumes up to the offset that this process could fetch.
Switches ==
  {id \in Commands(base + 1 .. offset) : sent[id].command \in {"PAUSE", "RESUME"}}

\* Entries are paused exactly when the latest of these is a pause: whatever
\* was cut short and fetched again.
PauseFollowsOrder == paused <=> Switches # {} /\ sent[Max(Switches)].command = "PAUSE"

\* Every command is executed in the end, unless the poller is stopped.
CommandsAreExecuted ==
  \A id \in 1..MaxUpdates :
    (id <= Len(sent) /\ id \in Commands(1..Len(sent))) ~> (id \in Executed \/ stopped)

\* The account of an operator: a queue whose cursor is the offset, or what the
\* server confirmed to an earlier process.
Queue ==
  INSTANCE CommandQueue WITH
    queue     <- sent,
    forgotten <- confirmed,
    cursor    <- Confirmed,
    done      <- [i \in DOMAIN log |-> log[i].id]

\* Batches and offsets, lost answers, exceptions, stops and restarts amount to
\* a queue that is worked off one update at a time, each command once until
\* another process takes over, and forgets nothing undone.
ImplementsCommandQueue == Queue!Spec

-----------------------------------------------------------------------------
(* What the docs say and the code does not do; see the README. *)

\* "Without offset advancement, restart replays the last batch of commands,
\* which would re-execute /kill": a /kill is executed once.
KillOnce ==
  \A i, j \in DOMAIN log :
    log[i].id = log[j].id /\ sent[log[i].id].command = "KILL" => i = j
=============================================================================
