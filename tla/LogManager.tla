----------------------------- MODULE LogManager -----------------------------
(***************************************************************************)
(* The log (LogManager.cpp) from OnCreate to OnDestroy: any thread adds    *)
(* messages to a queue, one writer thread writes them to the file, and the *)
(* program ends by OnDestroy, which stops the writer, by ExitProcess, or   *)
(* by the exception of a failed write.  A flush that fails ends nothing.   *)
(***************************************************************************)
EXTENDS Naturals, Sequences

CONSTANTS
  Message,
  MaxMessages   \* bound: messages added in a life of the log

ASSUME MaxMessagesAssumption == MaxMessages \in Nat

VARIABLES
  writer,        \* where WriterFunction is, "asleep" in _cv, "unborn"
                 \* before OnCreate
  exit,          \* where OnDestroy is, or how the program ended
  running,       \* _running
  queueMutex,    \* _queueMutex is held across steps of the writer
  messageQueue,  \* _messageQueue
  file,          \* the messages written to _file
  flushed,       \* how many of them have left its buffer for the disk
  bad,           \* _file.bad(): a flush has failed
  seen           \* history: how many had been added when the writer last
                 \* tested the queue

queues == <<messageQueue, file, flushed, bad>>
vars   == <<writer, exit, running, queueMutex, queues, seen>>

(* Every message, in the order in which AddMessage was called.             *)
lines == file \o messageQueue

WriterLabel ==
  {"unborn", "test", "lock", "predicate", "block", "asleep", "drain", "done"}
ExitLabel   == {"none", "notify", "join", "closed", "terminated", "killed"}

TypeOK ==
  /\ writer \in WriterLabel
  /\ exit \in ExitLabel
  /\ running \in BOOLEAN
  /\ queueMutex \in BOOLEAN
  /\ messageQueue \in Seq(Message)
  /\ file \in Seq(Message)
  /\ flushed \in 0..Len(file)
  /\ bad \in BOOLEAN
  /\ seen \in Nat

(* OnCreate has opened the file and started the writer.                    *)
Init ==
  /\ writer = "test"
  /\ exit = "none"
  /\ running = TRUE
  /\ queueMutex = FALSE
  /\ messageQueue = <<>>
  /\ file = <<>>
  /\ flushed = 0
  /\ bad = FALSE
  /\ seen = 0

Alive == exit \notin {"closed", "terminated", "killed"}

(* notify_one is lost on a writer that is not asleep in _cv.               *)
(* Mutant: nobody is notified.                                             *)
NotifyNobody == UNCHANGED writer
notify_one   == writer' = IF writer = "asleep" THEN "lock" ELSE writer

AddMessage(message) ==
  /\ Alive
  /\ ~queueMutex
  /\ Len(lines) < MaxMessages
  /\ messageQueue' = Append(messageQueue, message)
  /\ notify_one
  /\ UNCHANGED <<exit, running, queueMutex, file, flushed, bad, seen>>

-----------------------------------------------------------------------------
(* WriterFunction.                                                         *)
WriterGoes(from, to) == writer = from /\ writer' = to

WriterTest ==
  /\ WriterGoes("test", IF running THEN "lock" ELSE "done")
  /\ UNCHANGED <<exit, running, queueMutex, queues, seen>>

(* The lock, at the top of the loop or on the way out of _cv.wait.         *)
WriterLock ==
  /\ WriterGoes("lock", "predicate")
  /\ ~queueMutex
  /\ queueMutex' = TRUE
  /\ UNCHANGED <<exit, running, queues, seen>>

(* _cv.wait evaluates its predicate, and only then releases the mutex and  *)
(* sleeps: running may change in between, since OnDestroy takes no lock.   *)
WriterPredicate ==
  /\ WriterGoes("predicate",
                IF messageQueue # <<>> \/ ~running THEN "drain" ELSE "block")
  /\ seen' = Len(lines)
  /\ UNCHANGED <<exit, running, queueMutex, queues>>

WriterBlocks ==
  /\ WriterGoes("block", "asleep")
  /\ queueMutex' = FALSE
  /\ UNCHANGED <<exit, running, queues, seen>>

SpuriousWakeup ==
  /\ WriterGoes("asleep", "lock")
  /\ UNCHANGED <<exit, running, queueMutex, queues, seen>>

(* Mutant: a message that was written is not popped.                       *)
NoPop == UNCHANGED messageQueue
Pop   == messageQueue' = Tail(messageQueue)

(* A full buffer is flushed without being asked.  Nothing can be written   *)
(* to a stream that is bad.                                                *)
WriterWrites ==
  /\ WriterGoes("drain", "drain")
  /\ messageQueue # <<>> /\ ~bad
  /\ file' = Append(file, Head(messageQueue))
  /\ Pop
  /\ flushed' \in {flushed, Len(file')}
  /\ UNCHANGED <<exit, running, queueMutex, bad, seen>>

(* Nobody looks whether flush or close succeeds.  What the buffer held is  *)
(* gone then, but for the part that got to the disk, and flush does        *)
(* nothing from then on.                                                   *)
(* Mutants: no flush; what is queued counts as flushed.                    *)
NoFlush  == UNCHANGED <<flushed, bad>>
FlushAll == flushed' = Len(lines) /\ UNCHANGED bad
Flush    ==
  \/ ~bad /\ flushed' = Len(file) /\ UNCHANGED bad
  \/ ~bad /\ flushed' \in flushed..Len(file) /\ bad' = TRUE
  \/ bad /\ UNCHANGED <<flushed, bad>>

(* Mutants: one turn only; no look at running.                             *)
LoopOnce == "done"
LoopOn   == "lock"
NextLoop == "test"

WriterFlushes ==
  /\ WriterGoes("drain", NextLoop)
  /\ messageQueue = <<>>
  /\ Flush
  /\ queueMutex' = FALSE
  /\ UNCHANGED <<exit, running, messageQueue, file, seen>>

(* A write fails: the exception leaves the thread and ends the program.    *)
(* Mutant: it is tried again and again.                                    *)
TryAgain == UNCHANGED exit
Throw    == exit' = "terminated"

WriteFails ==
  /\ Alive
  /\ writer = "drain"
  /\ messageQueue # <<>>
  /\ Throw
  /\ UNCHANGED <<writer, running, queueMutex, queues, seen>>

WriterFunction ==
  /\ Alive
  /\ \/ WriterTest \/ WriterLock \/ WriterPredicate \/ WriterBlocks
     \/ WriterWrites \/ WriterFlushes

-----------------------------------------------------------------------------
(* OnDestroy, and the end of a program whose window is closed instead.     *)
Exits(from, to) == exit = from /\ exit' = to

StopRunning ==
  /\ Exits("none", "notify")
  /\ running' = FALSE
  /\ UNCHANGED <<writer, queueMutex, queues, seen>>

NotifyWriter ==
  /\ Exits("notify", "join")
  /\ notify_one
  /\ UNCHANGED <<running, queueMutex, queues, seen>>

(* A thread that was never started is not joinable.                        *)
JoinWriter ==
  /\ Exits("join", "closed")
  /\ writer \in {"done", "unborn"}
  /\ Flush
  /\ UNCHANGED <<writer, running, queueMutex, messageQueue, file, seen>>

OnWindowClose ==
  /\ Exits("none", "killed")
  /\ UNCHANGED <<writer, running, queueMutex, queues, seen>>

-----------------------------------------------------------------------------
Gone == ~Alive /\ UNCHANGED vars

Next ==
  \/ \E message \in Message : AddMessage(message)
  \/ WriterFunction
  \/ WriteFails
  \/ Alive /\ SpuriousWakeup
  \/ StopRunning \/ NotifyWriter \/ JoinWriter \/ OnWindowClose
  \/ Gone

Spec == Init /\ [][Next]_vars

(* The writer and OnDestroy are scheduled, and the mutex, which the others *)
(* hold for a moment, does not starve the writer.                          *)
Fairness ==
  /\ WF_vars(WriterFunction) /\ WF_vars(bad /\ WriteFails)
  /\ SF_vars(Alive /\ WriterLock)
  /\ WF_vars(NotifyWriter \/ JoinWriter)

FairSpec == Spec /\ Fairness

-----------------------------------------------------------------------------
J == INSTANCE Journal WITH lines <- lines, kept <- flushed

(* The log implements Journal: the file followed by the queue is all that  *)
(* was added, once and in order, through every write, failed write and     *)
(* end of the program, and what is on disk is a beginning of it.           *)
KeepsJournal == J!Spec

(* The writer never sleeps on a message: AddMessage cannot slip between    *)
(* its look at the queue and its sleep.                                    *)
NoMessageSleeps == writer = "asleep" => messageQueue = <<>>

(* Whatever the writer has seen is on disk unless it is just writing it:   *)
(* all that ExitProcess or a shutdown can drop was added after the writer  *)
(* last looked at the queue, or went into a flush that failed.             *)
SeenIsOnDisk == writer # "drain" /\ ~bad => flushed >= seen

(* Unless the program ends or a flush fails, the nth message gets to the   *)
(* disk.                                                                   *)
ReachesDisk ==
  \A n \in 1..MaxMessages : Len(lines) >= n ~> (flushed >= n \/ bad \/ exit # "none")

(* A flush that failed is found out by the next message, which ends the    *)
(* program: the log never goes on with a gap, nor takes messages that are  *)
(* never written.                                                          *)
LossIsNoticed == bad /\ messageQueue # <<>> ~> exit # "none"

(* OnDestroy ends, unless running became FALSE between the writer's look   *)
(* at it and its sleep: that notify_one may be lost, and then the join     *)
(* waits until another thread logs something.                              *)
ClosesUnlessLost == (exit = "notify" /\ writer # "block") ~> ~Alive
=============================================================================
