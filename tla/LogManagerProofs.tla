-------------------------- MODULE LogManagerProofs --------------------------
(***************************************************************************)
(* LogManager loses and reorders no message, for every set of messages and *)
(* every number of them.                                                   *)
(***************************************************************************)
EXTENDS LogManager, SequenceTheorems, TLAPS

(* The writer holds the mutex from its look at the queue to the end of its *)
(* writing or of its falling asleep, so that nothing is added meanwhile.   *)
WriterOwnsMutex == queueMutex <=> writer \in {"predicate", "block", "drain"}

SleepsOnNothing == writer \in {"block", "asleep"} => messageQueue = <<>>

(* While the writer writes, all that was added is what it saw; at any      *)
(* other time it has flushed what it wrote, if flush has never failed.     *)
WritesWhatItSaw ==
  /\ writer = "drain" => seen = Len(lines)
  /\ writer # "drain" => seen <= Len(file) /\ (bad \/ flushed = Len(file))

(* The file is closed when no writer runs any more.                        *)
ClosedAfterWriter == exit = "closed" => writer \in {"done", "unborn"}

LogInv ==
  /\ TypeOK /\ WriterOwnsMutex /\ SleepsOnNothing /\ WritesWhatItSaw
  /\ ClosedAfterWriter

-----------------------------------------------------------------------------
(* AddMessage adds one line at the end and the writer moves one from the   *)
(* queue to the file: neither loses a line or changes the order.           *)
LEMMA LinesGrow ==
  ASSUME TypeOK, NEW message \in Message
  PROVE  /\ Append(messageQueue, message) \in Seq(Message)
         /\ file \o Append(messageQueue, message) = Append(lines, message)
<1>1. file \in Seq(Message) /\ messageQueue \in Seq(Message) /\ <<message>> \in Seq(Message)
  BY DEF TypeOK
<1>2. lines \in Seq(Message)
  BY <1>1, ConcatProperties DEF lines
<1>3. Append(lines, message) = (file \o messageQueue) \o <<message>>
  BY <1>2, AppendIsConcat DEF lines
<1>4. @ = file \o (messageQueue \o <<message>>)
  BY <1>1, ConcatAssociative
<1> QED BY <1>1, <1>3, <1>4, AppendIsConcat, AppendProperties

(* The writer moves the head of the queue to the end of the file.          *)
LEMMA LinesKept ==
  ASSUME TypeOK, messageQueue # <<>>
  PROVE  /\ Append(file, Head(messageQueue)) \in Seq(Message)
         /\ Len(Append(file, Head(messageQueue))) = Len(file) + 1
         /\ Tail(messageQueue) \in Seq(Message)
         /\ Append(file, Head(messageQueue)) \o Tail(messageQueue) = lines
<1> DEFINE h == Head(messageQueue)
           t == Tail(messageQueue)
<1>1. /\ file \in Seq(Message) /\ h \in Message /\ t \in Seq(Message)
      /\ messageQueue = <<h>> \o t
  <2>1. messageQueue \in Seq(Message) /\ Len(messageQueue) \in Nat /\ Len(messageQueue) >= 1
    BY EmptySeq DEF TypeOK
  <2>2. messageQueue = SubSeq(messageQueue, 1, Len(messageQueue))
    BY <2>1, SubSeqFull
  <2>3. messageQueue = <<messageQueue[1]>> \o SubSeq(messageQueue, 2, Len(messageQueue))
    <3>1. 1 \in 1..Len(messageQueue) /\ Len(messageQueue) \in 1..Len(messageQueue)
      BY <2>1
    <3>2. SubSeq(messageQueue, 1, Len(messageQueue))
            = <<messageQueue[1]>> \o SubSeq(messageQueue, 1 + 1, Len(messageQueue))
      BY ONLY <2>1, <3>1, SubSeqRecursiveFirst
    <3> QED
      BY <2>2, <3>2
  <2> QED
    BY <2>1, <2>3, HeadTailProperties, TailIsSubSeq DEF TypeOK
<1> HIDE DEF h, t
<1>2. Append(file, h) \in Seq(Message) /\ Len(Append(file, h)) = Len(file) + 1
  BY <1>1, AppendProperties
<1>3. Append(file, h) \o t = (file \o <<h>>) \o t
  BY <1>1, AppendIsConcat
<1>4. @ = file \o (<<h>> \o t)
  <2>1. <<h>> \in Seq(Message)
    BY <1>1
  <2> QED BY <1>1, <2>1, ConcatAssociative
<1>5. Append(file, h) \o t = lines
  BY <1>1, <1>3, <1>4 DEF lines
<1> QED BY <1>1, <1>2, <1>5 DEF h, t

(* The lines are counted.                                                  *)
LEMMA LinesLength ==
  ASSUME TypeOK
  PROVE  /\ Len(lines) = Len(file) + Len(messageQueue)
         /\ Len(file) \in Nat /\ Len(messageQueue) \in Nat
         /\ messageQueue = <<>> => Len(messageQueue) = 0
BY ConcatProperties DEF TypeOK, lines

-----------------------------------------------------------------------------
(* OnCreate establishes the invariant.                                     *)
LEMMA LogInvInit == Init => LogInv
<1> SUFFICES ASSUME Init PROVE LogInv
  OBVIOUS
<1>1. TypeOK
  <2>1. <<>> \in Seq(Message) /\ 0 \in Nat /\ 0 \in 0..Len(<<>>)
    OBVIOUS
  <2> QED BY <2>1 DEF Init, TypeOK, WriterLabel, ExitLabel
<1>2. WriterOwnsMutex /\ SleepsOnNothing /\ WritesWhatItSaw /\ ClosedAfterWriter
  BY DEF Init, WriterOwnsMutex, SleepsOnNothing, WritesWhatItSaw, ClosedAfterWriter
<1> QED BY <1>1, <1>2 DEF LogInv

(* A flush leaves the buffer empty and a beginning of the file on disk,    *)
(* all of it unless it fails or has failed before.                         *)
LEMMA FlushTypes ==
  ASSUME TypeOK, Flush
  PROVE  /\ flushed' \in 0..Len(file) /\ bad' \in BOOLEAN
         /\ flushed' \in flushed..Len(file)
         /\ bad' \/ flushed' = Len(file)
<1>1. Len(file) \in Nat /\ flushed \in 0..Len(file) /\ bad \in BOOLEAN
  BY LinesLength DEF TypeOK
<1>2. CASE ~bad /\ flushed' = Len(file) /\ UNCHANGED bad
  BY <1>1, <1>2
<1>3. CASE ~bad /\ flushed' \in flushed..Len(file) /\ bad' = TRUE
  BY <1>1, <1>3
<1>4. CASE bad /\ UNCHANGED <<flushed, bad>>
  BY <1>1, <1>4
<1> QED BY <1>2, <1>3, <1>4 DEF Flush

(* Every step of the writer, of AddMessage and of OnDestroy keeps it.      *)
LEMMA LogInvStep == LogInv /\ [Next]_vars => LogInv'
<1> SUFFICES ASSUME LogInv, [Next]_vars PROVE LogInv'
  OBVIOUS
<1> USE LinesLength DEF LogInv, TypeOK, WriterLabel, ExitLabel, WriterOwnsMutex,
            SleepsOnNothing, WritesWhatItSaw, ClosedAfterWriter, queues, WriterGoes, Exits
<1>1. ASSUME NEW message \in Message, AddMessage(message) PROVE LogInv'
  <2>1. messageQueue' \in Seq(Message)
    BY <1>1, LinesGrow DEF AddMessage
  <2>2. writer \notin {"predicate", "block", "drain"}
    BY <1>1 DEF AddMessage
  <2>3. /\ writer' = (IF writer = "asleep" THEN "lock" ELSE writer)
        /\ UNCHANGED <<exit, running, queueMutex, file, flushed, bad, seen>>
    BY <1>1 DEF AddMessage, notify_one
  <2>4. TypeOK'
    BY <2>1, <2>3
  <2>5. WriterOwnsMutex' /\ SleepsOnNothing' /\ WritesWhatItSaw'
    BY <2>2, <2>3
  <2>6. ClosedAfterWriter'
    BY <2>3
  <2> QED BY <2>4, <2>5, <2>6
<1>2. CASE WriterTest
  BY <1>2 DEF WriterTest, lines
<1>3. CASE WriterLock
  BY <1>3 DEF WriterLock, lines
<1>4. CASE WriterPredicate
  <2>1. /\ writer = "predicate" /\ seen' = Len(lines) /\ seen' \in Nat
        /\ writer' = IF messageQueue # <<>> \/ ~running THEN "drain" ELSE "block"
        /\ UNCHANGED <<exit, running, queueMutex, messageQueue, file, flushed, bad>>
    BY <1>4 DEF WriterPredicate
  <2>2. TypeOK' /\ WriterOwnsMutex' /\ SleepsOnNothing'
    BY <2>1
  <2>3. lines' = lines
    BY <2>1 DEF lines
  <2>4. writer' = "block" => Len(messageQueue) = 0
    BY <2>1
  <2>5. WritesWhatItSaw'
    BY <2>1, <2>3, <2>4
  <2>6. ClosedAfterWriter'
    BY <2>1
  <2> QED BY <2>2, <2>5, <2>6
<1>5. CASE WriterBlocks
  BY <1>5 DEF WriterBlocks, lines
<1>6. CASE WriterWrites
  <2>1. /\ writer = "drain" /\ writer' = "drain"
        /\ file' = Append(file, Head(messageQueue))
        /\ messageQueue' = Tail(messageQueue)
        /\ flushed' \in {flushed, Len(file')}
        /\ UNCHANGED <<exit, running, queueMutex, bad, seen>>
    BY <1>6 DEF WriterWrites, Pop
  <2>2. /\ file' \in Seq(Message) /\ Len(file') = Len(file) + 1
        /\ messageQueue' \in Seq(Message) /\ lines' = lines
    BY <1>6, <2>1, LinesKept DEF WriterWrites, lines
  <2>3. flushed' \in 0..Len(file')
    BY <2>1, <2>2
  <2>4. TypeOK'
    BY <2>1, <2>2, <2>3
  <2>5. WriterOwnsMutex' /\ SleepsOnNothing' /\ WritesWhatItSaw'
    BY <2>1, <2>2
  <2>6. ClosedAfterWriter'
    BY <2>1
  <2> QED BY <2>4, <2>5, <2>6
<1>7. CASE WriterFlushes
  <2>1. /\ writer = "drain" /\ writer' = "test" /\ queueMutex' = FALSE
        /\ messageQueue = <<>> /\ UNCHANGED <<exit, running, messageQueue, file, seen>>
    BY <1>7 DEF WriterFlushes, NextLoop
  <2>2. Flush
    BY <1>7 DEF WriterFlushes
  <2>3. seen = Len(file)
    BY <2>1
  <2>4. TypeOK' /\ (bad' \/ flushed' = Len(file))
    BY <2>1, <2>2, FlushTypes
  <2> QED BY <2>1, <2>3, <2>4
<1>8. CASE WriteFails \/ SpuriousWakeup
  <2>1. /\ exit' \in ExitLabel /\ writer' \in WriterLabel
        /\ UNCHANGED <<running, queueMutex, messageQueue, file, flushed, bad, seen>>
    BY <1>8 DEF WriteFails, Throw, SpuriousWakeup
  <2> QED BY <1>8, <2>1 DEF WriteFails, Throw, SpuriousWakeup, lines
<1>9. CASE StopRunning \/ OnWindowClose
  <2>1. /\ exit' \in ExitLabel /\ running' \in BOOLEAN
        /\ exit' # "closed"
        /\ UNCHANGED <<writer, queueMutex, messageQueue, file, flushed, bad, seen>>
    BY <1>9 DEF StopRunning, OnWindowClose
  <2> QED BY <2>1 DEF lines
<1>10. CASE NotifyWriter
  BY <1>10 DEF NotifyWriter, notify_one, lines
<1>11. CASE JoinWriter
  <2>1. /\ writer \in {"done", "unborn"} /\ exit' \in ExitLabel
        /\ UNCHANGED <<writer, running, queueMutex, messageQueue, file, seen>>
    BY <1>11 DEF JoinWriter
  <2>2. Flush
    BY <1>11 DEF JoinWriter
  <2>3. TypeOK' /\ (bad' \/ flushed' = Len(file))
    BY <2>1, <2>2, FlushTypes
  <2> QED BY <2>1, <2>3 DEF lines
<1>12. CASE UNCHANGED vars
  BY <1>12 DEF vars, lines
<1> QED
  BY <1>1, <1>2, <1>3, <1>4, <1>5, <1>6, <1>7, <1>8, <1>9, <1>10, <1>11, <1>12
  DEF Next, WriterFunction, Gone

(* LogInv holds in every reachable state.                                  *)
THEOREM LogInvariance == Spec => []LogInv
BY LogInvInit, LogInvStep, PTL DEF Spec

(* The log's state is well typed, and never is more on disk than was       *)
(* written.                                                                *)
THEOREM LogTypeCorrect == Spec => []TypeOK
<1>1. LogInv => TypeOK
  BY DEF LogInv
<1> QED BY <1>1, LogInvariance, PTL

(* The writer is never asleep while a message waits.                       *)
THEOREM NoMessageIsSleptOn == Spec => []NoMessageSleeps
<1>1. LogInv => NoMessageSleeps
  BY DEF LogInv, SleepsOnNothing, NoMessageSleeps
<1> QED BY <1>1, LogInvariance, PTL

(* However the program ends, every message the writer had seen before it   *)
(* began to write is on disk, as long as no flush has failed.              *)
THEOREM WriterFlushesWhatItSaw == Spec => []SeenIsOnDisk
<1>1. LogInv => SeenIsOnDisk
  BY DEF LogInv, TypeOK, WritesWhatItSaw, SeenIsOnDisk
<1> QED BY <1>1, LogInvariance, PTL

-----------------------------------------------------------------------------
(* The log's first state and each of its steps are Journal's.              *)
LEMMA JournalInit == Init => J!Init
BY ConcatEmptySeq DEF Init, J!Init, lines

(* A step adds a line, keeps more of them, or changes neither.             *)
LEMMA JournalStep ==
  ASSUME LogInv, LogInv', [Next]_vars
  PROVE  [J!Next]_<<lines, flushed>>
<1> USE DEF queues, WriterGoes, Exits
<1>0. TypeOK /\ TypeOK'
  BY DEF LogInv
<1>1. ASSUME UNCHANGED file, UNCHANGED messageQueue,
             flushed' \in flushed..Len(file)
      PROVE  [J!Next]_<<lines, flushed>>
  <2>1. lines' = lines
    BY <1>1 DEF lines
  <2>2. Len(file) \in Nat /\ Len(lines) \in Nat /\ Len(file) <= Len(lines) /\ flushed \in 0..Len(file)
    BY <1>0, LinesLength DEF TypeOK
  <2>3. flushed' = flushed \/ flushed' \in (flushed + 1)..Len(lines)
    BY <1>1, <2>2
  <2> QED BY <2>1, <2>3 DEF J!Next, J!Keep
<1>8. (UNCHANGED flushed \/ Flush) => flushed' \in flushed..Len(file)
  <2>1. flushed \in 0..Len(file) /\ Len(file) \in Nat
    BY <1>0, LinesLength DEF TypeOK
  <2> QED BY <1>0, <2>1, FlushTypes
<1>2. ASSUME NEW message \in Message, AddMessage(message)
      PROVE  [J!Next]_<<lines, flushed>>
  BY <1>0, <1>2, LinesGrow DEF AddMessage, lines, J!Next, J!Add
<1>3. CASE WriterWrites
  <2>1. /\ lines' = lines /\ Len(file') = Len(file) + 1
        /\ flushed' \in {flushed, Len(file')}
    BY <1>0, <1>3, LinesKept DEF WriterWrites, Pop, lines
  <2>2. Len(file') <= Len(lines') /\ Len(lines') \in Nat /\ Len(file) \in Nat
        /\ flushed \in 0..Len(file)
    <3>1. /\ Len(lines) = Len(file) + Len(messageQueue)
          /\ Len(file) \in Nat /\ Len(messageQueue) \in Nat
      BY <1>0, LinesLength
    <3>2. Len(messageQueue) >= 1
      BY <1>0, <1>3, <3>1, EmptySeq DEF WriterWrites, TypeOK
    <3> QED BY <1>0, <2>1, <3>1, <3>2 DEF TypeOK
  <2>3. flushed' = flushed \/ flushed' \in (flushed + 1)..Len(lines)
    BY <2>1, <2>2
  <2> QED BY <2>1, <2>3 DEF J!Next, J!Keep
<1>4. CASE WriterTest \/ WriterLock \/ WriterPredicate \/ WriterBlocks \/ WriterFlushes
  <2>1. UNCHANGED <<file, messageQueue>> /\ (UNCHANGED flushed \/ Flush)
    BY <1>4 DEF WriterTest, WriterLock, WriterPredicate, WriterBlocks, WriterFlushes
  <2> QED BY <1>1, <1>8, <2>1
<1>5. CASE WriteFails \/ SpuriousWakeup
  BY <1>1, <1>8, <1>5 DEF WriteFails, SpuriousWakeup
<1>6. CASE StopRunning \/ NotifyWriter \/ JoinWriter \/ OnWindowClose
  <2>1. UNCHANGED <<file, messageQueue>> /\ (UNCHANGED flushed \/ Flush)
    BY <1>6 DEF StopRunning, NotifyWriter, JoinWriter, OnWindowClose
  <2> QED BY <1>1, <1>8, <2>1
<1>7. CASE UNCHANGED vars
  BY <1>1, <1>8, <1>7 DEF vars
<1> QED
  BY <1>2, <1>3, <1>4, <1>5, <1>6, <1>7 DEF Next, WriterFunction, Gone

(* The log implements Journal: no message is lost, doubled or moved, and   *)
(* what is on disk is a beginning of what was added, for every set of      *)
(* messages and any number of them.                                        *)
THEOREM ImplementsJournal == Spec => KeepsJournal
<1>1. LogInv /\ LogInv' /\ [Next]_vars => [J!Next]_<<lines, flushed>>
  BY JournalStep
<1> QED
  BY <1>1, JournalInit, LogInvariance, PTL DEF Spec, KeepsJournal, J!Spec
=============================================================================
