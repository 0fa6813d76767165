----------------------- MODULE TelegramPollingProofs -----------------------
(***************************************************************************)
(* The poller loses no command and repeats none within a process, for any  *)
(* number of updates, senders and restarts.                                *)
(***************************************************************************)
EXTENDS TelegramPolling, TLAPS

\* The batch continues where the offset, or the server, stands.
BatchInSequence == \A i \in DOMAIN batch : batch[i] = Confirmed + i

\* The offset is behind the server's only in a process that has handled
\* nothing yet.
OffsetKept ==
  /\ offset <= Len(sent)
  /\ offset < confirmed => offset = 0 /\ confirmed = base

\* What is acknowledged, or will be by the next poll, is executed.
ExecutedUpToOffset == Commands(1..Confirmed) \subseteq Executed

\* The log of this process ends at the offset.
LogUpToOffset ==
  \A i \in DOMAIN log :
    /\ log[i].process <= crashes
    /\ log[i].process = crashes => log[i].id <= Confirmed

\* The latest switch is one of the switches.
LatestIsASwitch == Switches # {} => Max(Switches) \in Switches

IInv ==
  /\ TypeOK
  /\ BatchInSequence
  /\ OffsetKept
  /\ ExecutedUpToOffset
  /\ LogUpToOffset
  /\ ExecutedInOrder
  /\ PauseFollowsOrder
  /\ LatestIsASwitch

-----------------------------------------------------------------------------
(* Lemmas *)

Update == [command : Command, sender : Senders]

\* An element of a sequence, whatever it is a sequence of.
LEMMA ElementOf ==
  ASSUME NEW S, NEW seq \in Seq(S), NEW i \in DOMAIN seq
  PROVE  seq[i] \in S
OBVIOUS

\* The empty sequence is one over any set.
LEMMA EmptySeq == ASSUME NEW S PROVE <<>> \in Seq(S)
OBVIOUS

\* A sequence over a set is one over any larger set.
LEMMA WiderSeq ==
  ASSUME NEW S, NEW T, S \subseteq T, NEW seq \in Seq(S)
  PROVE  seq \in Seq(T)
OBVIOUS

\* Appending keeps the elements and adds one.
LEMMA AppendFacts ==
  ASSUME NEW S, NEW seq \in Seq(S), NEW e \in S
  PROVE  /\ Append(seq, e) \in Seq(S)
         /\ Len(Append(seq, e)) = Len(seq) + 1
         /\ DOMAIN Append(seq, e) = DOMAIN seq \cup {Len(seq) + 1}
         /\ \A i \in DOMAIN seq : Append(seq, e)[i] = seq[i]
         /\ Append(seq, e)[Len(seq) + 1] = e
         /\ Len(seq) \in Nat
         /\ DOMAIN seq = 1..Len(seq)
OBVIOUS

\* The head and the tail of a batch.
LEMMA HeadTailFacts ==
  ASSUME NEW S, NEW seq \in Seq(S), seq # <<>>
  PROVE  /\ Head(seq) = seq[1] /\ 1 \in DOMAIN seq /\ Head(seq) \in S
         /\ Tail(seq) \in Seq(S)
         /\ \A i \in DOMAIN Tail(seq) : i \in Nat /\ i + 1 \in DOMAIN seq /\ Tail(seq)[i] = seq[i + 1]
OBVIOUS

\* A member that no other exceeds is the maximum.
LEMMA MaxIs ==
  ASSUME NEW S \in SUBSET Int, NEW h \in S, \A y \in S : h >= y
  PROVE  Max(S) = h
<1>1. \A x \in S : (\A y \in S : x >= y) => x = h
  OBVIOUS
<1> QED
  BY <1>1 DEF Max

\* What the variables are, in the form the steps use.
LEMMA Types ==
  ASSUME TypeOK
  PROVE  /\ Len(sent) \in Nat /\ DOMAIN sent = 1..Len(sent)
         /\ confirmed \in Nat /\ confirmed <= Len(sent) /\ offset \in Nat
         /\ base \in Nat /\ base <= confirmed
         /\ Confirmed \in Nat /\ Confirmed >= confirmed /\ Confirmed >= offset
         /\ Confirmed = confirmed \/ Confirmed = offset
BY DEF TypeOK, Confirmed, Larger

\* What the log's entries are.
LEMMA LogTypes ==
  ASSUME TypeOK
  PROVE  \A i \in DOMAIN log : log[i].id \in Nat /\ log[i].process \in Nat
<1>1. log \in Seq([id : 1..Len(sent), process : Nat]) /\ Len(sent) \in Nat
  BY DEF TypeOK
<1>2. \A i \in DOMAIN log : log[i] \in [id : 1..Len(sent), process : Nat]
  BY <1>1, ElementOf
<1> QED
  BY <1>1, <1>2

-----------------------------------------------------------------------------
(* The invariant *)

\* It holds before anything is sent.
LEMMA InvInit == Init => IInv
<1> SUFFICES ASSUME Init PROVE IInv
  OBVIOUS
<1> USE DEF Init
<1>1. TypeOK
  <2>1. batch \in Seq(1..Len(sent)) /\ log \in Seq([id : 1..Len(sent), process : Nat])
    BY EmptySeq
  <2>2. sent \in Seq([command : Command, sender : Senders])
    BY EmptySeq
  <2>3. Len(sent) = 0
    OBVIOUS
  <2>4. confirmed \in 0..Len(sent) /\ offset \in Nat /\ base \in 0..confirmed /\ crashes \in Nat
    BY <2>3
  <2>5. paused \in BOOLEAN /\ stopped \in BOOLEAN
    OBVIOUS
  <2> QED
    BY <2>1, <2>2, <2>4, <2>5 DEF TypeOK
<1>2. BatchInSequence /\ OffsetKept /\ LogUpToOffset /\ ExecutedInOrder
  BY DEF BatchInSequence, OffsetKept, LogUpToOffset, ExecutedInOrder
<1>3. Confirmed = 0
  BY DEF Confirmed, Larger
<1>4. Commands(1..0) = {} /\ Commands(base + 1 .. offset) = {}
  BY DEF Commands
<1>5. ExecutedUpToOffset /\ PauseFollowsOrder /\ LatestIsASwitch
  BY <1>3, <1>4 DEF ExecutedUpToOffset, PauseFollowsOrder, LatestIsASwitch, Switches
<1> QED
  BY <1>1, <1>2, <1>5 DEF IInv

\* Polling, answered or not, moves the server up to the offset.
LEMMA InvPoll ==
  ASSUME IInv, PollAnswered \/ PollUnanswered
  PROVE  IInv'
<1>1. /\ confirmed' = Confirmed
      /\ UNCHANGED <<sent, offset, paused, stopped, log, base, crashes>>
  BY DEF PollAnswered, PollUnanswered
<1>2. /\ Len(sent) \in Nat /\ confirmed \in Nat /\ offset \in Nat /\ base \in Nat
      /\ base <= confirmed /\ confirmed <= Len(sent) /\ offset <= Len(sent)
  BY Types DEF IInv, OffsetKept
<1>3. /\ Confirmed \in Nat /\ Confirmed >= confirmed /\ Confirmed >= offset
      /\ Confirmed <= Len(sent)
  BY <1>2 DEF Confirmed, Larger
<1>4. Confirmed' = Confirmed
  BY <1>1, <1>2 DEF Confirmed, Larger
<1>5. /\ batch' \in Seq(1..Len(sent))
      /\ \A i \in DOMAIN batch' : batch'[i] = Confirmed + i
  <2>1. CASE PollAnswered
    <3>1. PICK last \in Confirmed + 1 .. Len(sent) :
            batch' = [i \in 1 .. last - Confirmed |-> Confirmed + i]
      BY <2>1 DEF PollAnswered
    <3>2. last - Confirmed \in Nat
      BY <1>2, <1>3, <3>1
    <3>3. \A i \in 1 .. last - Confirmed : Confirmed + i \in 1..Len(sent)
      BY <1>2, <1>3, <3>1
    <3> QED
      BY <3>1, <3>2, <3>3
  <2>2. CASE PollUnanswered
    BY <1>3, <2>2 DEF PollUnanswered, ReadyToPoll
  <2> QED
    BY <2>1, <2>2
<1>6. TypeOK'
  BY <1>1, <1>2, <1>3, <1>5 DEF IInv, TypeOK
<1>7. BatchInSequence' /\ LogUpToOffset'
  BY <1>1, <1>4, <1>5 DEF IInv, BatchInSequence, LogUpToOffset
<1>8. OffsetKept'
  BY <1>1, <1>2 DEF IInv, OffsetKept, Confirmed, Larger
<1>9. ExecutedUpToOffset' /\ ExecutedInOrder' /\ PauseFollowsOrder' /\ LatestIsASwitch'
  BY <1>1, <1>4 DEF IInv, ExecutedUpToOffset, ExecutedInOrder, PauseFollowsOrder,
                    LatestIsASwitch, Switches, Commands, Executed
<1> QED
  BY <1>6, <1>7, <1>8, <1>9 DEF IInv

\* Where the head of the batch stands, and what handling it leaves.
LEMMA HandleFacts ==
  ASSUME IInv, batch # <<>>, offset' = Advance(Head(batch)), confirmed' = confirmed,
         (batch' = Tail(batch) \/ batch' = <<>>)
  PROVE  /\ Head(batch) = Confirmed + 1 /\ Head(batch) \in 1..Len(sent)
         /\ offset' = Head(batch) /\ Confirmed' = Head(batch)
         /\ batch' \in Seq(1..Len(sent))
         /\ BatchInSequence'
<1>1. /\ batch \in Seq(1..Len(sent)) /\ Len(sent) \in Nat
      /\ confirmed \in Nat /\ offset \in Nat
  BY Types DEF IInv, TypeOK
<1>2. /\ Head(batch) = batch[1] /\ 1 \in DOMAIN batch /\ Head(batch) \in 1..Len(sent)
      /\ Tail(batch) \in Seq(1..Len(sent))
      /\ \A i \in DOMAIN Tail(batch) :
           i \in Nat /\ i + 1 \in DOMAIN batch /\ Tail(batch)[i] = batch[i + 1]
  BY <1>1, HeadTailFacts
<1>3. Head(batch) = Confirmed + 1
  BY <1>2 DEF IInv, BatchInSequence
<1>4. offset' = Head(batch) /\ Confirmed' = Head(batch)
  BY <1>1, <1>2, <1>3 DEF Advance, Confirmed, Larger
<1>5. Confirmed \in Nat
  BY <1>1 DEF Confirmed, Larger
<1>6. BatchInSequence'
  <2>1. CASE batch' = <<>>
    BY <2>1 DEF BatchInSequence
  <2>2. CASE batch' = Tail(batch)
    <3>1. \A i \in DOMAIN Tail(batch) : Tail(batch)[i] = Confirmed + (i + 1)
      BY <1>2 DEF IInv, BatchInSequence
    <3> QED
      BY <1>2, <1>3, <1>4, <1>5, <2>2, <3>1 DEF BatchInSequence
  <2> QED
    BY <2>1, <2>2
<1>7. batch' \in Seq(1..Len(sent))
  BY <1>2, EmptySeq
<1> QED
  BY <1>2, <1>3, <1>4, <1>6, <1>7

\* The range of updates that decide the pause flag grows by the head.
LEMMA RangeFacts ==
  ASSUME IInv, batch # <<>>, Head(batch) = Confirmed + 1
  PROVE  base + 1 .. Head(batch) = (base + 1 .. offset) \cup {Head(batch)}
<1>1. /\ confirmed \in Nat /\ offset \in Nat /\ base \in Nat /\ base <= confirmed
      /\ offset < confirmed => offset = 0 /\ confirmed = base
  BY Types DEF IInv, OffsetKept
<1>2. CASE offset < confirmed
  BY <1>1, <1>2 DEF Confirmed, Larger
<1>3. CASE offset >= confirmed
  <2>1. Head(batch) = offset + 1
    BY <1>1, <1>3 DEF Confirmed, Larger
  <2> QED
    BY <1>1, <1>3, <2>1
<1> QED
  BY <1>1, <1>2, <1>3

\* Dropping somebody else's update keeps the invariant.
LEMMA InvDropUpdate ==
  ASSUME IInv, DropUpdate
  PROVE  IInv'
<1> DEFINE h == Head(batch)
<1>1. /\ batch # <<>> /\ offset' = Advance(h) /\ batch' = Tail(batch)
      /\ sent[h].sender \notin Authorized
      /\ UNCHANGED <<sent, confirmed, paused, stopped, log, base, crashes>>
  BY DEF DropUpdate
<1>2. /\ h = Confirmed + 1 /\ h \in 1..Len(sent) /\ offset' = h /\ Confirmed' = h
      /\ batch' \in Seq(1..Len(sent)) /\ BatchInSequence'
  BY <1>1, HandleFacts
<1>3. /\ Len(sent) \in Nat /\ confirmed \in Nat /\ Confirmed \in Nat /\ Confirmed >= confirmed
  BY Types DEF IInv
<1>4. base + 1 .. h = (base + 1 .. offset) \cup {h}
  BY <1>1, <1>2, RangeFacts
<1> HIDE DEF h
<1>5. TypeOK'
  BY <1>1, <1>2, <1>3 DEF IInv, TypeOK
<1>6. OffsetKept'
  BY <1>1, <1>2, <1>3 DEF OffsetKept
<1>7. ExecutedUpToOffset'
  <2>1. Commands(1..h) = Commands(1..Confirmed)
    BY <1>1, <1>2, <1>3 DEF Commands
  <2> QED
    BY <1>1, <1>2, <2>1 DEF IInv, ExecutedUpToOffset, Executed, Commands
<1>8. LogUpToOffset' /\ ExecutedInOrder'
  <2>1. \A i \in DOMAIN log : log[i].id \in Nat
    BY LogTypes DEF IInv
  <2> QED
    BY <1>1, <1>2, <1>3, <2>1 DEF IInv, LogUpToOffset, ExecutedInOrder
<1>9. PauseFollowsOrder' /\ LatestIsASwitch'
  <2>1. Switches' = Switches
    BY <1>1, <1>2, <1>4 DEF Switches, Commands
  <2> QED
    BY <1>1, <2>1 DEF IInv, PauseFollowsOrder, LatestIsASwitch
<1> QED
  BY <1>2, <1>5, <1>6, <1>7, <1>8, <1>9 DEF IInv

\* Executing a command keeps the invariant.
LEMMA InvExecuteUpdate ==
  ASSUME IInv, ExecuteUpdate
  PROVE  IInv'
<1> DEFINE h == Head(batch)
           entry == [id |-> h, process |-> crashes]
<1>1. /\ batch # <<>> /\ offset' = Advance(h) /\ (batch' = Tail(batch) \/ batch' = <<>>)
      /\ sent[h].sender \in Authorized
      /\ paused' = PausedBy(sent[h].command)
      /\ log' = Append(log, entry)
      /\ UNCHANGED <<sent, confirmed, stopped, base, crashes>>
  BY DEF ExecuteUpdate
<1>2. /\ h = Confirmed + 1 /\ h \in 1..Len(sent) /\ offset' = h /\ Confirmed' = h
      /\ batch' \in Seq(1..Len(sent)) /\ BatchInSequence'
  BY <1>1, HandleFacts
<1>3. /\ Len(sent) \in Nat /\ confirmed \in Nat /\ Confirmed \in Nat /\ Confirmed >= confirmed
      /\ base \in Nat /\ offset \in Nat /\ crashes \in Nat
  BY Types DEF IInv, TypeOK
<1>4. base + 1 .. h = (base + 1 .. offset) \cup {h}
  BY <1>1, <1>2, RangeFacts
<1>5. /\ log' \in Seq([id : 1..Len(sent), process : Nat])
      /\ DOMAIN log' = DOMAIN log \cup {Len(log) + 1} /\ Len(log) \in Nat
      /\ DOMAIN log = 1..Len(log)
      /\ \A i \in DOMAIN log : log'[i] = log[i]
      /\ log'[Len(log) + 1] = entry
      /\ entry.id = h /\ entry.process = crashes
  <2>1. log \in Seq([id : 1..Len(sent), process : Nat])
    BY DEF IInv, TypeOK
  <2>2. entry \in [id : 1..Len(sent), process : Nat]
    BY <1>2, <1>3
  <2> HIDE DEF entry
  <2>3. /\ log' \in Seq([id : 1..Len(sent), process : Nat])
        /\ DOMAIN log' = DOMAIN log \cup {Len(log) + 1} /\ Len(log) \in Nat
        /\ DOMAIN log = 1..Len(log)
        /\ \A i \in DOMAIN log : log'[i] = log[i]
        /\ log'[Len(log) + 1] = entry
    BY <1>1, <2>1, <2>2, AppendFacts
  <2>4. entry.id = h /\ entry.process = crashes
    BY DEF entry
  <2> QED
    BY <2>3, <2>4
<1>6. \A i \in DOMAIN log : log[i].id \in Nat /\ log[i].process \in Nat
  BY LogTypes DEF IInv
<1> HIDE DEF h, entry
<1>7. TypeOK'
  <2>1. paused' \in BOOLEAN
    BY <1>1 DEF PausedBy, IInv, TypeOK
  <2> QED
    BY <1>1, <1>2, <1>3, <1>5, <2>1 DEF IInv, TypeOK
<1>8. OffsetKept'
  BY <1>1, <1>2, <1>3 DEF OffsetKept
<1>9. ExecutedUpToOffset'
  <2>1. Commands(1..h) \subseteq Commands(1..Confirmed) \cup {h}
    BY <1>2, <1>3 DEF Commands
  <2>2. Executed' = Executed \cup {h}
    BY <1>5 DEF Executed
  <2> QED
    BY <1>1, <1>2, <2>1, <2>2 DEF IInv, ExecutedUpToOffset, Commands
<1>10. LogUpToOffset'
  <2>1. \A i \in DOMAIN log : log[i].process <= crashes
                              /\ (log[i].process = crashes => log[i].id <= h)
    BY <1>2, <1>3, <1>6 DEF IInv, LogUpToOffset
  <2>2. entry.process <= crashes /\ entry.id <= h
    BY <1>2, <1>3, <1>5
  <2> QED
    BY <1>1, <1>2, <1>5, <2>1, <2>2 DEF LogUpToOffset
<1>11. ExecutedInOrder'
  <2>1. \A i \in DOMAIN log : log[i].process = crashes => log[i].id < h
    BY <1>2, <1>3, <1>6 DEF IInv, LogUpToOffset
  <2> SUFFICES ASSUME NEW i \in DOMAIN log', NEW j \in DOMAIN log', i < j,
                      log'[i].process = log'[j].process
               PROVE  log'[i].id < log'[j].id
    BY DEF ExecutedInOrder
  <2>2. i \in DOMAIN log
    BY <1>5
  <2>3. CASE j \in DOMAIN log
    BY <1>5, <2>2, <2>3 DEF IInv, ExecutedInOrder
  <2>4. CASE j = Len(log) + 1
    BY <1>5, <2>1, <2>2, <2>4
  <2> QED
    BY <1>5, <2>3, <2>4
<1>12. PauseFollowsOrder' /\ LatestIsASwitch'
  <2>1. CASE sent[h].command \in {"PAUSE", "RESUME"}
    <3>1. h \in Switches' /\ Switches' \in SUBSET Int /\ \A y \in Switches' : h >= y
      BY <1>1, <1>2, <1>3, <1>4, <2>1 DEF Switches, Commands
    <3>2. Max(Switches') = h
      BY <3>1, MaxIs
    <3>3. paused' <=> sent[h].command = "PAUSE"
      BY <1>1, <2>1 DEF PausedBy
    <3> QED
      BY <1>1, <3>1, <3>2, <3>3 DEF PauseFollowsOrder, LatestIsASwitch
  <2>2. CASE sent[h].command \notin {"PAUSE", "RESUME"}
    <3>1. paused' = paused
      BY <1>1, <2>2 DEF PausedBy
    <3>2. Switches' = Switches
      BY <1>1, <1>2, <1>4, <2>2 DEF Switches, Commands
    <3> QED
      BY <1>1, <3>1, <3>2 DEF IInv, PauseFollowsOrder, LatestIsASwitch
  <2> QED
    BY <2>1, <2>2
<1> QED
  BY <1>2, <1>7, <1>8, <1>9, <1>10, <1>11, <1>12 DEF IInv

\* A further update keeps the invariant: it is beyond every id in use.
LEMMA InvSend ==
  ASSUME IInv, Send
  PROVE  IInv'
<1>1. PICK update \in Update : sent' = Append(sent, update)
  BY DEF Send, Update
<1>2. UNCHANGED <<confirmed, offset, batch, paused, stopped, log, base, crashes>>
  BY DEF Send
<1>3. /\ sent' \in Seq(Update) /\ Len(sent') = Len(sent) + 1
      /\ \A i \in 1..Len(sent) : sent'[i] = sent[i]
  <2>1. sent \in Seq(Update)
    BY DEF IInv, TypeOK, Update
  <2> QED
    BY <1>1, <2>1, AppendFacts
<1>4. /\ Len(sent) \in Nat /\ confirmed \in Nat /\ offset \in Nat /\ base \in Nat
      /\ confirmed <= Len(sent) /\ offset <= Len(sent)
  BY Types DEF IInv, OffsetKept
<1>5. Confirmed' = Confirmed /\ Confirmed \in Nat /\ Confirmed <= Len(sent)
  BY <1>2, <1>4 DEF Confirmed, Larger
<1>6. TypeOK'
  <2>1. 1..Len(sent) \subseteq 1..Len(sent')
    BY <1>3, <1>4
  <2>2. batch' \in Seq(1..Len(sent'))
    BY <1>2, <2>1, WiderSeq DEF IInv, TypeOK
  <2>3. log' \in Seq([id : 1..Len(sent'), process : Nat])
    <3>1. [id : 1..Len(sent), process : Nat] \subseteq [id : 1..Len(sent'), process : Nat]
      BY <2>1
    <3>2. log \in Seq([id : 1..Len(sent), process : Nat]) /\ log' = log
      BY <1>2 DEF IInv, TypeOK
    <3> QED
      BY <3>1, <3>2, WiderSeq
  <2>4. sent' \in Seq([command : Command, sender : Senders])
    BY <1>3 DEF Update
  <2> QED
    BY <1>2, <1>3, <1>4, <2>2, <2>3, <2>4 DEF IInv, TypeOK
<1>7. BatchInSequence' /\ OffsetKept' /\ LogUpToOffset' /\ ExecutedInOrder'
  BY <1>2, <1>3, <1>4, <1>5
     DEF IInv, BatchInSequence, OffsetKept, LogUpToOffset, ExecutedInOrder
<1>8. ExecutedUpToOffset'
  <2>1. Commands(1..Confirmed)' = Commands(1..Confirmed)
    BY <1>3, <1>4, <1>5 DEF Commands
  <2> QED
    BY <1>2, <2>1 DEF IInv, ExecutedUpToOffset, Executed
<1>9. PauseFollowsOrder' /\ LatestIsASwitch'
  <2>1. Switches' = Switches
    BY <1>2, <1>3, <1>4 DEF Switches, Commands
  <2>2. Switches \subseteq 1..Len(sent)
    BY <1>4 DEF Switches, Commands
  <2> QED
    BY <1>2, <1>3, <2>1, <2>2 DEF IInv, PauseFollowsOrder, LatestIsASwitch
<1> QED
  BY <1>6, <1>7, <1>8, <1>9 DEF IInv

\* A new process begins with nothing but what the server still serves.
LEMMA InvRestart ==
  ASSUME IInv, Restart
  PROVE  IInv'
<1>1. /\ crashes' = crashes + 1 /\ offset' = 0 /\ batch' = <<>> /\ paused' = FALSE
      /\ stopped' = FALSE /\ base' = confirmed
      /\ UNCHANGED <<sent, confirmed, log>>
  BY DEF Restart
<1>2. /\ Len(sent) \in Nat /\ confirmed \in Nat /\ confirmed <= Len(sent) /\ offset \in Nat
      /\ crashes \in Nat /\ Confirmed \in Nat /\ Confirmed >= confirmed
  BY Types DEF IInv, TypeOK
<1>3. Confirmed' = confirmed
  BY <1>1, <1>2 DEF Confirmed, Larger
<1>4. TypeOK'
  <2>1. batch' \in Seq(1..Len(sent))
    BY <1>1, EmptySeq
  <2>2. offset' \in Nat /\ base' \in 0..confirmed' /\ crashes' \in Nat
    BY <1>1, <1>2
  <2>3. UNCHANGED <<sent, confirmed, log>> /\ paused' \in BOOLEAN /\ stopped' \in BOOLEAN
    BY <1>1
  <2>4. TypeOK
    BY DEF IInv
  <2> QED
    BY <2>1, <2>2, <2>3, <2>4 DEF TypeOK
<1>5. BatchInSequence' /\ OffsetKept' /\ ExecutedInOrder'
  BY <1>1, <1>2 DEF IInv, BatchInSequence, OffsetKept, ExecutedInOrder
<1>6. LogUpToOffset'
  BY <1>1, <1>2, LogTypes DEF IInv, LogUpToOffset
<1>7. ExecutedUpToOffset'
  <2>1. Commands(1..confirmed) \subseteq Commands(1..Confirmed)
    BY <1>2 DEF Commands
  <2>2. (Commands(1..Confirmed))' = Commands(1..confirmed)
    BY <1>1, <1>3 DEF Commands
  <2> QED
    BY <1>1, <2>1, <2>2 DEF IInv, ExecutedUpToOffset, Executed
<1>8. PauseFollowsOrder' /\ LatestIsASwitch'
  <2>1. Switches' = {}
    BY <1>1, <1>2 DEF Switches, Commands
  <2> QED
    BY <1>1, <2>1 DEF PauseFollowsOrder, LatestIsASwitch
<1> QED
  BY <1>4, <1>5, <1>6, <1>7, <1>8 DEF IInv

\* Stopping, or no step at all, keeps the invariant.
LEMMA InvStop ==
  ASSUME IInv, Stop \/ UNCHANGED vars
  PROVE  IInv'
<1>1. /\ stopped' \in BOOLEAN
      /\ UNCHANGED <<sent, confirmed, offset, batch, paused, log, base, crashes>>
  BY DEF IInv, TypeOK, Stop, vars
<1>2. TypeOK'
  BY <1>1 DEF IInv, TypeOK
<1>3. BatchInSequence' /\ OffsetKept' /\ LogUpToOffset' /\ ExecutedInOrder'
  BY <1>1 DEF IInv, BatchInSequence, OffsetKept, LogUpToOffset, ExecutedInOrder, Confirmed
<1>4. ExecutedUpToOffset' /\ PauseFollowsOrder' /\ LatestIsASwitch'
  BY <1>1 DEF IInv, ExecutedUpToOffset, PauseFollowsOrder, LatestIsASwitch, Switches,
              Commands, Executed, Confirmed
<1> QED
  BY <1>2, <1>3, <1>4 DEF IInv

-----------------------------------------------------------------------------
(* Theorems *)

\* The invariant holds in every reachable state.
THEOREM PollingSafe == Spec => []IInv
<1>1. IInv /\ [Next]_vars => IInv'
  BY InvPoll, InvDropUpdate, InvExecuteUpdate, InvStop, InvSend, InvRestart DEF Next
<1> QED
  BY <1>1, InvInit, PTL DEF Spec

\* Every variable is well typed.
THEOREM PollingTyped == Spec => []TypeOK
<1>1. IInv => TypeOK
  BY DEF IInv
<1> QED
  BY <1>1, PollingSafe, PTL

\* Telegram forgets no command that nobody executed.
THEOREM NoCommandLost == Spec => []AckedIsExecuted
<1>1. IInv => AckedIsExecuted
  <2> SUFFICES ASSUME IInv PROVE Commands(1..confirmed) \subseteq Executed
    BY DEF AckedIsExecuted
  <2>1. confirmed \in Nat /\ Confirmed \in Nat /\ Confirmed >= confirmed
    BY Types DEF IInv
  <2>2. Commands(1..confirmed) \subseteq Commands(1..Confirmed)
    BY <2>1 DEF Commands
  <2> QED
    BY <2>2 DEF IInv, ExecutedUpToOffset
<1> QED
  BY <1>1, PollingSafe, PTL

\* A process executes commands in order, none twice.
THEOREM OrderKept == Spec => []ExecutedInOrder
<1>1. IInv => ExecutedInOrder
  BY DEF IInv
<1> QED
  BY <1>1, PollingSafe, PTL

\* Entries are paused when the latest switch says so.
THEOREM PauseIsTheLatest == Spec => []PauseFollowsOrder
<1>1. IInv => PauseFollowsOrder
  BY DEF IInv
<1> QED
  BY <1>1, PollingSafe, PTL

-----------------------------------------------------------------------------
(* The queue with a cursor that the poller implements *)

\* The ids of a log, as the queue keeps them.
Ids(entries) == [i \in DOMAIN entries |-> entries[i].id]

\* The ids of a longer log are the ids of the log and one more.
LEMMA AppendIds ==
  ASSUME NEW S, NEW entries \in Seq(S), NEW e \in S
  PROVE  Ids(Append(entries, e)) = Append(Ids(entries), e.id)
<1>1. /\ DOMAIN entries = 1..Len(entries) /\ Len(entries) \in Nat
      /\ DOMAIN Append(entries, e) = 1 .. Len(entries) + 1
      /\ \A i \in DOMAIN entries : Append(entries, e)[i] = entries[i]
      /\ Append(entries, e)[Len(entries) + 1] = e
  OBVIOUS
<1>2. DOMAIN Ids(entries) = 1..Len(entries) /\ Len(Ids(entries)) = Len(entries)
  BY <1>1 DEF Ids
<1>3. Append(Ids(entries), e.id) =
        [i \in 1 .. Len(entries) + 1 |->
           IF i \in 1..Len(entries) THEN entries[i].id ELSE e.id]
  BY <1>1, <1>2 DEF Ids
<1> QED
  BY <1>1, <1>3 DEF Ids

\* A poll lets the server forget what is behind the cursor, which stays.
LEMMA QueuePoll ==
  ASSUME IInv, PollAnswered \/ PollUnanswered
  PROVE  Queue!Forget \/ UNCHANGED Queue!vars
<1>1. confirmed' = Confirmed /\ UNCHANGED <<sent, offset, paused, log>>
  BY DEF PollAnswered, PollUnanswered
<1>2. /\ confirmed \in Nat /\ offset \in Nat
      /\ Confirmed \in Nat /\ Confirmed >= confirmed /\ Confirmed >= offset
  BY Types DEF IInv
<1>3. Confirmed' = Confirmed
  BY <1>1, <1>2 DEF Confirmed, Larger
<1>4. CASE Confirmed = confirmed
  BY <1>1, <1>3, <1>4 DEF Queue!vars
<1>5. CASE Confirmed # confirmed
  BY <1>1, <1>2, <1>3, <1>5 DEF Queue!Forget
<1> QED
  BY <1>4, <1>5

\* The head of a batch is the update after the cursor: dropping it passes it.
LEMMA QueueDropUpdate ==
  ASSUME IInv, DropUpdate
  PROVE  Queue!PassOver
<1> DEFINE h == Head(batch)
<1>1. /\ batch # <<>> /\ offset' = Advance(h) /\ batch' = Tail(batch)
      /\ sent[h].sender \notin Authorized
      /\ UNCHANGED <<sent, confirmed, paused, log>>
  BY DEF DropUpdate
<1>2. h = Confirmed + 1 /\ h \in 1..Len(sent) /\ Confirmed' = h
  BY <1>1, HandleFacts
<1>3. Len(sent) \in Nat /\ Confirmed \in Nat
  BY Types DEF IInv
<1> HIDE DEF h
<1> QED
  BY <1>1, <1>2, <1>3 DEF Queue!PassOver

\* ... and handling it executes it, even when an exception ends the batch.
LEMMA QueueExecuteUpdate ==
  ASSUME IInv, ExecuteUpdate
  PROVE  Queue!Execute
<1> DEFINE h == Head(batch)
           entry == [id |-> h, process |-> crashes]
<1>1. /\ batch # <<>> /\ offset' = Advance(h) /\ (batch' = Tail(batch) \/ batch' = <<>>)
      /\ sent[h].sender \in Authorized
      /\ paused' = PausedBy(sent[h].command)
      /\ log' = Append(log, entry)
      /\ UNCHANGED <<sent, confirmed>>
  BY DEF ExecuteUpdate
<1>2. h = Confirmed + 1 /\ h \in 1..Len(sent) /\ Confirmed' = h
  BY <1>1, HandleFacts
<1>3. Len(sent) \in Nat /\ Confirmed \in Nat
  BY Types DEF IInv
<1>4. Ids(log)' = Append(Ids(log), h)
  <2>1. log \in Seq([id : 1..Len(sent), process : Nat])
    BY DEF IInv, TypeOK
  <2>2. entry \in [id : 1..Len(sent), process : Nat] /\ entry.id = h
    BY <1>2 DEF IInv, TypeOK
  <2> HIDE DEF entry
  <2>3. Ids(Append(log, entry)) = Append(Ids(log), entry.id)
    BY <2>1, <2>2, AppendIds
  <2>4. Ids(log)' = Ids(Append(log, entry))
    BY <1>1 DEF Ids
  <2> QED
    BY <2>2, <2>3, <2>4
<1> HIDE DEF h, entry
<1>5. Confirmed < Len(sent) /\ Confirmed + 1 = h /\ Confirmed' = Confirmed + 1
  BY <1>2, <1>3
<1>6. paused' = CASE sent[h].command = "PAUSE" -> TRUE
                  [] sent[h].command = "RESUME" -> FALSE
                  [] OTHER -> paused
  BY <1>1 DEF PausedBy
<1> QED
  BY <1>1, <1>4, <1>5, <1>6 DEF Queue!Execute, Ids

\* A further update arrives, a new process takes over, and stopping is no
\* matter of the queue.
LEMMA QueueEnvironment ==
  ASSUME IInv, Stop \/ Send \/ Restart \/ UNCHANGED vars
  PROVE  Queue!Arrive \/ Queue!TakeOver \/ UNCHANGED Queue!vars
<1>1. CASE Stop \/ UNCHANGED vars
  <2>1. UNCHANGED <<sent, confirmed, offset, log, paused>>
    BY <1>1 DEF Stop, vars
  <2> QED
    BY <2>1 DEF Queue!vars, Confirmed
<1>2. CASE Send
  BY <1>2 DEF Send, Queue!Arrive, Command, Queue!Command, Confirmed
<1>3. CASE Restart
  <2>1. /\ offset' = 0 /\ paused' = FALSE
        /\ UNCHANGED <<sent, confirmed, log>>
    BY <1>3 DEF Restart
  <2>2. confirmed \in Nat
    BY Types DEF IInv
  <2>3. Confirmed' = confirmed
    BY <2>1, <2>2 DEF Confirmed, Larger
  <2> QED
    BY <2>1, <2>3 DEF Queue!TakeOver
<1> QED
  BY <1>1, <1>2, <1>3

\* The poller, with its batches, its offset and its restarts, implements the
\* queue: each update dealt with in turn, none skipped, none forgotten undone.
THEOREM PollerIsAQueue == Spec => ImplementsCommandQueue
<1>1. Init => Queue!Init
  BY DEF Init, Queue!Init, Confirmed, Larger
<1>2. IInv /\ [Next]_vars => [Queue!Next]_(Queue!vars)
  BY QueuePoll, QueueDropUpdate, QueueExecuteUpdate, QueueEnvironment DEF Next, Queue!Next
<1> QED
  BY <1>1, <1>2, PollingSafe, PTL DEF Spec, Queue!Spec, ImplementsCommandQueue
=============================================================================
