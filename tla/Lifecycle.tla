----------------------------- MODULE Lifecycle -----------------------------
(***************************************************************************)
(* The singletons and the end of the program (Singleton.h): GetInstance    *)
(* creates SocketManager and LogManager when they are first asked for and  *)
(* registers DestroyInstance with atexit, whose handlers run last one      *)
(* first.  So the log goes before SocketManager::OnDestroy writes to it.   *)
(* LogManager's variables are those of the log created last.               *)
(*                                                                         *)
(* wWinMain returns when ConnectServer fails, or when it cannot create its *)
(* window while its two threads are running.                               *)
(***************************************************************************)
EXTENDS LogManager, SequencesExt

CONSTANTS
  Worker,   \* the threads of SocketManager
  MaxLines  \* bound: lines that they log

ASSUME WorkerAssumption == "main" \notin Worker

ASSUME MaxLinesAssumption == MaxLines \in Nat /\ MaxLines + 2 <= MaxMessages

Singleton == {"Socket", "Log"}
Logger    == {"main"} \cup Worker
Ended     == {"done", "aborted", "crashed"}
LogLabel  == {"get", "create", "register", "oncreate", "add"}
PcLabel   == {"start", "exit", "destroy", "reset", "off", "idle"} \cup LogLabel \cup Ended

VARIABLES
  pc,          \* where main and the workers are
  log,         \* the log each of them has a reference to, numbered
  instance,    \* the singletons that exist
  handlers,    \* the DestroyInstance calls registered with atexit
  destroying,  \* the singleton main destroys
  created,     \* logs created so far
  logged       \* lines that the workers have begun to log

single  == <<instance, handlers, destroying, created>>
threads == <<pc, log, logged>>
life    == <<vars, single, threads>>

LifeTypeOK ==
  /\ TypeOK
  /\ pc \in [Logger -> PcLabel]
  /\ log \in [Logger -> 0..created]
  /\ instance \subseteq Singleton
  /\ handlers \in Seq(Singleton)
  /\ destroying \in Singleton \cup {"none"}
  /\ created \in Nat
  /\ logged \in 0..MaxLines

(* No log exists: its variables are as a closed one leaves them.           *)
LifeInit ==
  /\ writer = "done" /\ exit = "closed" /\ running = FALSE
  /\ queueMutex = FALSE /\ messageQueue = <<>> /\ file = <<>>
  /\ flushed = 0 /\ bad = FALSE /\ seen = 0
  /\ pc = [t \in Logger |-> IF t = "main" THEN "start" ELSE "off"]
  /\ log = [t \in Logger |-> 0]
  /\ instance = {}
  /\ handlers = <<>>
  /\ destroying = "none"
  /\ created = 0
  /\ logged = 0

Started == \E w \in Worker : pc[w] # "off"

Goes(t, from, to) == pc[t] = from /\ pc' = [pc EXCEPT ![t] = to]

-----------------------------------------------------------------------------
(* Singleton.  Mutants: DestroyInstance is registered for the first        *)
(* instance only; the instance is not reset.                               *)
AtExitOnce(s) ==
  handlers' = IF s = "Log" /\ created > 0 THEN handlers ELSE Append(handlers, s)
AtExit(s)     == handlers' = Append(handlers, s)
KeepInstance  == UNCHANGED instance
ResetInstance == instance' = instance \ {destroying}

GetSocket ==
  /\ Goes("main", "start", "get") \/ Goes("main", "start", "exit")
  /\ instance' = instance \cup {"Socket"}
  /\ AtExit("Socket")
  /\ UNCHANGED <<vars, destroying, created, log, logged>>

(* Mutant: the log created next goes on with the count of the last one.    *)
KeepCount  == UNCHANGED flushed
FreshCount == flushed' = 0

NewFile == file' = <<>> /\ FreshCount /\ bad' = FALSE /\ seen' = 0

LogManagerCreated ==
  /\ writer' = "unborn" /\ exit' = "none" /\ running' = FALSE
  /\ queueMutex' = FALSE /\ messageQueue' = <<>> /\ NewFile

(* A half-made log may hold messages, or be in its OnDestroy, already.     *)
OnCreate ==
  /\ writer' = "test" /\ running' = TRUE /\ NewFile
  /\ exit' = IF exit = "closed" THEN "none" ELSE exit
  /\ UNCHANGED <<queueMutex, messageQueue>>

(* The log's _writerThread, whose destructor and whose assignment end the  *)
(* program while it is joinable.                                           *)
Joinable == writer # "unborn" /\ exit # "closed"

EndsProgram(how) ==
  pc' = [pc EXCEPT !["main"] = how] /\ UNCHANGED <<vars, single, log, logged>>

(* LogUtils::Log: GetInstance tests the instance and then creates it.      *)
GetLog(t) ==
  /\ IF "Log" \in instance
     THEN Goes(t, "get", "add") /\ log' = [log EXCEPT ![t] = created]
     ELSE Goes(t, "get", "create") /\ UNCHANGED log
  /\ UNCHANGED <<vars, single, logged>>

(* The one that another thread has created meanwhile is destroyed, which   *)
(* goes well if it has no thread and is not in its OnDestroy.              *)
Replaceable == "Log" \notin instance \/ (~Joinable /\ exit \in {"none", "closed"})

CreateLog(t) ==
  /\ Replaceable
  /\ Goes(t, "create", "register")
  /\ LogManagerCreated
  /\ created' = created + 1
  /\ instance' = instance \cup {"Log"}
  /\ UNCHANGED <<handlers, destroying, log, logged>>

CreateAgain(t) ==
  /\ ~Replaceable
  /\ pc[t] = "create"
  /\ EndsProgram("aborted")

RegisterLog(t) ==
  /\ Goes(t, "register", "oncreate")
  /\ AtExit("Log")
  /\ UNCHANGED <<vars, instance, destroying, created, log, logged>>

(* Whatever log is there now is started.                                   *)
StartLog(t) ==
  /\ "Log" \in instance /\ ~Joinable
  /\ Goes(t, "oncreate", "add")
  /\ OnCreate
  /\ log' = [log EXCEPT ![t] = created]
  /\ UNCHANGED <<single, logged>>

StartAgain(t) ==
  /\ "Log" \in instance /\ Joinable
  /\ pc[t] = "oncreate"
  /\ EndsProgram("aborted")

(* It has been destroyed: GetInstance returns a reference to nothing.      *)
StartNone(t) ==
  /\ "Log" \notin instance
  /\ pc[t] = "oncreate"
  /\ EndsProgram("crashed")

(* Back from LogUtils::Log: Disconnect ends OnDestroy, ConnectServer has   *)
(* failed, or has started the threads and then there is no window.         *)
Logged(t) ==
  \/ t # "main" /\ Goes(t, "add", "idle")
  \/ t = "main" /\ destroying = "Socket" /\ Goes(t, "add", "reset")
  \/ t = "main" /\ destroying = "none" /\ Goes(t, "add", "exit")
  \/ /\ t = "main" /\ destroying = "none" /\ pc[t] = "add"
     /\ pc' = [u \in Logger |-> IF u = "main" THEN "exit" ELSE "idle"]

IsOpen(n) == "Log" \in instance /\ n = created /\ Alive

AddLine(t) ==
  /\ IsOpen(log[t])
  /\ \E message \in Message : AddMessage(message)
  /\ Logged(t)
  /\ UNCHANGED <<single, log, logged>>

(* A closed log keeps the line in its queue; what a destroyed one does is  *)
(* not defined.                                                            *)
AddLineTooLate(t) ==
  /\ ~IsOpen(log[t])
  /\ \/ Logged(t)
     \/ /\ "Log" \notin instance \/ log[t] # created
        /\ pc[t] = "add" /\ pc' = [pc EXCEPT !["main"] = "crashed"]
  /\ UNCHANGED <<vars, single, log, logged>>

LogStep(t) ==
  \/ GetLog(t) \/ CreateLog(t) \/ CreateAgain(t) \/ RegisterLog(t)
  \/ StartLog(t) \/ StartAgain(t) \/ StartNone(t)
  \/ AddLine(t) \/ AddLineTooLate(t)

WorkerLogs(w) ==
  /\ logged < MaxLines
  /\ Goes(w, "idle", "get")
  /\ logged' = logged + 1
  /\ UNCHANGED <<vars, single, log>>

-----------------------------------------------------------------------------
(* exit runs the handlers, the one registered last first, those that are   *)
(* registered meanwhile included.                                          *)
RunHandler ==
  /\ handlers # <<>>
  /\ IF Last(handlers) \in instance
     THEN Goes("main", "exit", "destroy") /\ destroying' = Last(handlers)
     ELSE Goes("main", "exit", "exit") /\ UNCHANGED destroying
  /\ handlers' = Front(handlers)
  /\ UNCHANGED <<vars, instance, created, log, logged>>

ReturnToSystem ==
  /\ handlers = <<>>
  /\ Goes("main", "exit", "done")
  /\ UNCHANGED <<vars, single, log, logged>>

(* OnDestroy: Disconnect logs a line; the log stops its writer.            *)
DestroySocket ==
  /\ destroying = "Socket"
  /\ Goes("main", "destroy", "get")
  /\ UNCHANGED <<vars, single, log, logged>>

StopLog ==
  /\ destroying = "Log"
  /\ pc["main"] = "destroy"
  /\ StopRunning \/ NotifyWriter
  /\ UNCHANGED <<single, threads>>

CloseLog ==
  /\ destroying = "Log"
  /\ Goes("main", "destroy", "reset")
  /\ JoinWriter
  /\ UNCHANGED <<single, log, logged>>

(* ~SocketManager ends the program if its threads are joinable, ~LogManager *)
(* if another thread's OnCreate has started the closed log again.          *)
HasThread(s) == IF s = "Socket" THEN Started ELSE Joinable

Reset ==
  /\ Goes("main", "reset", IF HasThread(destroying) THEN "aborted" ELSE "exit")
  /\ ResetInstance
  /\ destroying' = "none"
  /\ UNCHANGED <<vars, handlers, created, log, logged>>

LogFails ==
  /\ WriteFails
  /\ pc' = [pc EXCEPT !["main"] = "crashed"]
  /\ UNCHANGED <<single, log, logged>>

-----------------------------------------------------------------------------
IsRunning == pc["main"] \notin Ended

MainStep ==
  /\ IsRunning
  /\ \/ GetSocket \/ LogStep("main")
     \/ RunHandler \/ ReturnToSystem
     \/ DestroySocket \/ StopLog \/ CloseLog \/ Reset

WriterStep == IsRunning /\ WriterFunction /\ UNCHANGED <<single, threads>>

Spurious == SpuriousWakeup /\ UNCHANGED <<single, threads>>

LifeNext ==
  \/ MainStep \/ WriterStep
  \/ IsRunning /\ \E w \in Worker : WorkerLogs(w) \/ LogStep(w)
  \/ IsRunning /\ (LogFails \/ (Alive /\ Spurious))
  \/ ~IsRunning /\ UNCHANGED life

LifeSpec == LifeInit /\ [][LifeNext]_life

(* Main and the writer are scheduled, and no mutex starves them.           *)
LifeFairness ==
  /\ SF_life(MainStep)
  /\ WF_life(WriterStep) /\ SF_life(WriterStep /\ WriterLock)
  /\ WF_life(IsRunning /\ bad /\ LogFails)

FairLifeSpec == LifeSpec /\ LifeFairness

-----------------------------------------------------------------------------
(* Without threads main's lines go to a log that is there and whose writer *)
(* runs, above all the one that SocketManager::OnDestroy logs when the log *)
(* that was used before has been destroyed.  With them main may log to one *)
(* that a thread has created and not started yet.                          *)
AddsToOpenLog ==
  pc["main"] = "add" /\ ~Started => IsOpen(log["main"]) /\ running /\ Joinable

(* The program ends regularly only when both singletons are destroyed, all *)
(* handlers have run and the writer has ended, and only when there were no *)
(* threads; it created the log twice at most then.                         *)
EndsClean ==
  pc["main"] = "done" =>
    /\ instance = {} /\ handlers = <<>> /\ writer = "done"
    /\ ~Started
    /\ created <= 2

(* exit can stay only in the join of a writer whose notification was lost, *)
(* or that a thread's OnCreate has started after OnDestroy had stopped it. *)
ExitEnds ==
  pc["main"] = "exit" ~>
    (~IsRunning \/ (exit = "join" /\ (running \/ writer \in {"block", "asleep"})))
=============================================================================
