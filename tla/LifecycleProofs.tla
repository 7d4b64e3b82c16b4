-------------------------- MODULE LifecycleProofs --------------------------
(***************************************************************************)
(* The end of the program, for any messages, any threads and any number of *)
(* lines that they log.                                                    *)
(***************************************************************************)
EXTENDS Lifecycle, LogManagerProofs

(* A program that was aborted or has crashed takes no step any more.       *)
Sound == pc["main"] \notin {"aborted", "crashed"}

Registered(s) == \E i \in 1..Len(handlers) : handlers[i] = s

(* What main does for which singleton.                                     *)
PlaceInv ==
  /\ destroying = "none"   => pc["main"] \in {"start", "exit", "done"} \cup LogLabel
  /\ destroying = "Socket" => pc["main"] \in {"destroy", "reset"} \cup LogLabel
  /\ destroying = "Log"    => pc["main"] \in {"destroy", "reset"}
  /\ destroying # "none"   => destroying \in instance

(* Every singleton that exists has its handler waiting, or is the one that *)
(* is destroyed now, or the thread that created it is about to register    *)
(* its handler.  The threads belong to SocketManager.                      *)
InstanceInv ==
  /\ "Socket" \in instance => destroying = "Socket" \/ Registered("Socket")
  /\ "Log" \in instance => \/ destroying = "Log" \/ Registered("Log")
                          \/ \E t \in Logger : pc[t] = "register"
  /\ Started => "Socket" \in instance
  /\ destroying = "none" /\ pc["main"] \in LogLabel => "Socket" \in instance /\ ~Started
  /\ pc["main"] = "start" => ~Started
  /\ pc["main"] = "done" => handlers = <<>>

(* Without threads the log that exists is open from the end of its         *)
(* OnCreate until it is destroyed, and without one the last writer has     *)
(* ended.                                                                  *)
OpenInv ==
  /\ exit = "closed" => writer = "done"
  /\ "Log" \notin instance => exit = "closed"
  /\ pc["main"] = "create" => "Log" \notin instance
  /\ pc["main"] \in {"register", "oncreate"} =>
       "Log" \in instance /\ writer = "unborn" /\ exit = "none"
  /\ "Log" \in instance /\ pc["main"] \notin {"register", "oncreate"} =>
       writer # "unborn" /\ (destroying # "Log" => exit = "none" /\ running)
  /\ destroying = "Log" /\ pc["main"] = "reset" => exit = "closed"
  /\ pc["main"] = "add" => "Log" \in instance /\ log["main"] = created

(* Only main creates logs then: one for the line of a failed               *)
(* ConnectServer, one for the line of SocketManager::OnDestroy.            *)
CountInv ==
  /\ created <= 2
  /\ destroying = "none" /\ pc["main"] \in {"start", "get", "create"} => created = 0
  /\ pc["main"] # "start" /\ "Socket" \in instance
       /\ ~(destroying = "Socket" /\ pc["main"] \in {"register", "oncreate", "add", "reset"})
     => created <= 1

Parts == PlaceInv /\ InstanceInv /\ (~Started => OpenInv /\ CountInv)

LifeInv == LogInv /\ LifeTypeOK /\ (Sound => Parts)

-----------------------------------------------------------------------------
(* The steps by what they change.                                          *)
LEMMA LifeCases ==
  ASSUME LifeNext
  PROVE  \/ Sound /\ GetSocket
         \/ Sound /\ \E t \in Logger : GetLog(t)
         \/ IsRunning /\ \E t \in Logger : CreateLog(t)
         \/ \E t \in Logger : CreateAgain(t) \/ StartAgain(t) \/ StartNone(t)
         \/ IsRunning /\ \E t \in Logger : RegisterLog(t) \/ StartLog(t)
         \/ Sound /\ \E t \in Logger : AddLine(t)
         \/ Sound /\ \E t \in Logger : AddLineTooLate(t)
         \/ Sound /\ (RunHandler \/ ReturnToSystem \/ DestroySocket)
         \/ Sound /\ (StopLog \/ CloseLog \/ Reset)
         \/ Sound /\ Alive /\ (WriterFunction \/ SpuriousWakeup)
              /\ UNCHANGED <<single, threads>>
         \/ LogFails
         \/ Sound /\ \E w \in Worker : WorkerLogs(w)
         \/ UNCHANGED life
BY DEF LifeNext, MainStep, WriterStep, Spurious, LogStep, IsRunning, Ended,
   Sound, Logger, WriterFunction

(* Taking the last handler off the list leaves all the others on it.       *)
LEMMA Handlers ==
  ASSUME NEW s \in Seq(Singleton), s # <<>>
  PROVE  /\ Last(s) \in Singleton /\ Front(s) \in Seq(Singleton)
         /\ \A i \in 1..Len(s) : s[i] = Last(s) \/ \E j \in 1..Len(Front(s)) : Front(s)[j] = s[i]
<1>1. Len(s) \in Nat /\ Len(s) >= 1
  BY EmptySeq
<1>2. Last(s) = s[Len(s)] /\ Front(s) = SubSeq(s, 1, Len(s) - 1)
  BY DEF Last, Front
<1>3. /\ SubSeq(s, 1, Len(s) - 1) \in Seq(Singleton)
      /\ Len(SubSeq(s, 1, Len(s) - 1)) = Len(s) - 1
      /\ \A i \in 1..Len(s) - 1 : SubSeq(s, 1, Len(s) - 1)[i] = s[i]
  BY <1>1
<1>4. ASSUME NEW i \in 1..Len(s), s[i] # Last(s)
      PROVE  \E j \in 1..Len(Front(s)) : Front(s)[j] = s[i]
  <2>1. i \in 1..Len(s) - 1
    BY <1>1, <1>2, <1>4
  <2> QED BY <1>2, <1>3, <2>1
<1> QED BY <1>1, <1>2, <1>3, <1>4

(* A thread that goes from one place to another was started, and the       *)
(* others have not been started by it.                                     *)
LEMMA StartedStays ==
  ASSUME pc \in [Logger -> PcLabel], NEW t \in Logger, NEW from, NEW to,
         Goes(t, from, to), from # "off", to # "off"
  PROVE  /\ Started' <=> Started
         /\ t # "main" => Started
         /\ t # "main" => pc'["main"] = pc["main"]
<1>1. pc[t] = from /\ pc' = [pc EXCEPT ![t] = to]
  BY DEF Goes
<1>2. \A u \in Logger : pc'[u] = "off" <=> pc[u] = "off"
  BY <1>1
<1>3. Worker \subseteq Logger /\ "main" \in Logger /\ (t # "main" => t \in Worker)
  BY DEF Logger
<1>4. Started' <=> Started
  BY <1>2, <1>3 DEF Started
<1> QED BY <1>1, <1>3, <1>4 DEF Started

(* atexit adds a handler and keeps those there are.                        *)
LEMMA Registers ==
  ASSUME handlers \in Seq(Singleton), NEW s \in Singleton, AtExit(s)
  PROVE  /\ handlers' \in Seq(Singleton) /\ Registered(s)'
         /\ \A u \in Singleton : Registered(u) => Registered(u)'
<1>1. /\ Len(handlers') = Len(handlers) + 1 /\ Len(handlers) \in Nat
      /\ handlers' \in Seq(Singleton) /\ handlers'[Len(handlers) + 1] = s
      /\ \A i \in 1..Len(handlers) : handlers'[i] = handlers[i]
  BY AppendProperties DEF AtExit
<1>2. Registered(s)'
  BY <1>1 DEF Registered
<1>3. ASSUME NEW u \in Singleton, Registered(u) PROVE Registered(u)'
  BY <1>1, <1>3 DEF Registered
<1> QED BY <1>1, <1>2, <1>3

-----------------------------------------------------------------------------
(* In Lifecycle the log takes its own steps, or a new one is created, or   *)
(* started.                                                                *)
LEMMA LogSteps ==
  ASSUME LifeNext
  PROVE  [Next]_vars \/ LogManagerCreated \/ (OnCreate /\ ~Joinable)
<1> USE DEF LifeNext, MainStep, WriterStep, Spurious, LogStep, GetSocket, GetLog,
     CreateLog, CreateAgain, RegisterLog, StartLog, StartAgain, StartNone, EndsProgram,
     AddLine, AddLineTooLate, RunHandler, ReturnToSystem, DestroySocket,
     StopLog, CloseLog, Reset, LogFails, WorkerLogs, Next, life
<1> QED OBVIOUS

(* The invariant of the log holds over the lives of several logs.          *)
LEMMA LogLifeStep ==
  ASSUME LogInv, [LifeNext]_life
  PROVE  LogInv'
<1> DEFINE Rest == WriterOwnsMutex /\ SleepsOnNothing /\ WritesWhatItSaw /\ ClosedAfterWriter
<1>0. <<>> \in Seq(Message) /\ Len(<<>>) = 0 /\ 0 \in 0..Len(<<>>) /\ 0 \in Nat
  OBVIOUS
<1>1. LogManagerCreated => LogInv'
  <2> SUFFICES ASSUME LogManagerCreated PROVE LogInv'
    OBVIOUS
  <2> USE DEF LogManagerCreated, NewFile, FreshCount
  <2>1. TypeOK'
    BY <1>0 DEF TypeOK, WriterLabel, ExitLabel
  <2>2. Rest'
    BY <1>0 DEF WriterOwnsMutex, SleepsOnNothing, WritesWhatItSaw, ClosedAfterWriter
  <2> QED BY <2>1, <2>2 DEF LogInv
<1>4. OnCreate /\ ~Joinable => LogInv'
  <2> SUFFICES ASSUME OnCreate, ~Joinable PROVE LogInv'
    OBVIOUS
  <2>0. /\ writer \in {"done", "unborn"} /\ queueMutex = FALSE
        /\ messageQueue \in Seq(Message) /\ exit \in ExitLabel
    BY DEF Joinable, LogInv, ClosedAfterWriter, WriterOwnsMutex, TypeOK
  <2> USE DEF OnCreate, NewFile, FreshCount
  <2>1. TypeOK'
    BY <1>0, <2>0 DEF TypeOK, WriterLabel, ExitLabel
  <2>2. Rest'
    BY <1>0, <2>0 DEF WriterOwnsMutex, SleepsOnNothing, WritesWhatItSaw, ClosedAfterWriter
  <2> QED BY <2>1, <2>2 DEF LogInv
<1>2. [Next]_vars => LogInv'
  BY LogInvStep
<1>3. UNCHANGED life => UNCHANGED vars
  BY DEF life
<1> QED BY <1>1, <1>2, <1>3, <1>4, LogSteps

-----------------------------------------------------------------------------
(* Every step keeps the types.                                             *)
LEMMA LifeTypeStep ==
  ASSUME LogInv', LifeTypeOK, [LifeNext]_life
  PROVE  LifeTypeOK'
<1> USE MaxLinesAssumption DEF LifeTypeOK, Logger, single, threads, Goes
<1>0. TypeOK'
  BY DEF LogInv
<1> USE <1>0
<1>1. CASE GetSocket
  <2>1. "Socket" \in Singleton
    BY DEF Singleton
  <2>2. handlers' \in Seq(Singleton)
    BY <1>1, <2>1, AppendProperties DEF GetSocket, AtExit
  <2>3. pc' \in [Logger -> PcLabel]
    BY <1>1 DEF GetSocket, PcLabel, LogLabel
  <2>4. instance' \subseteq Singleton /\ UNCHANGED <<log, destroying, created, logged>>
    BY <1>1, <2>1 DEF GetSocket
  <2> QED BY <2>2, <2>3, <2>4
<1>2. ASSUME NEW t \in Logger,
             GetLog(t) \/ StartLog(t) \/ CreateAgain(t) \/ StartAgain(t) \/ StartNone(t)
      PROVE  LifeTypeOK'
  <2> USE DEF GetLog, StartLog, CreateAgain, StartAgain, StartNone, EndsProgram
  <2>1. pc' \in [Logger -> PcLabel]
    BY <1>2 DEF PcLabel, LogLabel, Ended
  <2>2. log' \in [Logger -> 0..created]
    <3>1. log' = log \/ log' = [log EXCEPT ![t] = created]
      BY <1>2
    <3>2. created \in 0..created
      OBVIOUS
    <3> QED BY <3>1, <3>2
  <2>3. UNCHANGED <<instance, handlers, destroying, created, logged>>
    BY <1>2
  <2> QED BY <2>1, <2>2, <2>3
<1>11. ASSUME NEW t \in Logger, RegisterLog(t) PROVE LifeTypeOK'
  <2>1. handlers' \in Seq(Singleton)
    BY <1>11, AppendProperties DEF RegisterLog, AtExit, Singleton
  <2>2. pc' \in [Logger -> PcLabel] /\ UNCHANGED <<instance, destroying, created, log, logged>>
    BY <1>11 DEF RegisterLog, PcLabel, LogLabel
  <2> QED BY <2>1, <2>2
<1>3. ASSUME NEW t \in Logger, CreateLog(t) PROVE LifeTypeOK'
  <2>1. pc' \in [Logger -> PcLabel]
    BY <1>3 DEF CreateLog, PcLabel, LogLabel
  <2>2. /\ created' = created + 1 /\ instance' = instance \cup {"Log"}
        /\ UNCHANGED <<handlers, destroying, log, logged>>
    BY <1>3 DEF CreateLog
  <2>3. log' \in [Logger -> 0..created'] /\ created' \in Nat
    <3>1. \A n \in 0..created : n \in 0..created'
      BY <2>2
    <3> QED BY <2>2, <3>1
  <2> QED BY <2>1, <2>2, <2>3 DEF Singleton
<1>4. ASSUME NEW t \in Logger, AddLine(t) \/ AddLineTooLate(t) PROVE LifeTypeOK'
  <2>1. pc' \in [Logger -> PcLabel]
    BY <1>4 DEF AddLine, AddLineTooLate, Logged, PcLabel, Ended
  <2>2. UNCHANGED <<single, log, logged>>
    BY <1>4 DEF AddLine, AddLineTooLate
  <2> QED BY <2>1, <2>2
<1>5. CASE RunHandler
  <2>1. Last(handlers) \in Singleton /\ Front(handlers) \in Seq(Singleton)
    BY <1>5, Handlers DEF RunHandler
  <2>2. pc' \in [Logger -> PcLabel]
    BY <1>5 DEF RunHandler, PcLabel
  <2> QED BY <1>5, <2>1, <2>2 DEF RunHandler
<1>6. CASE ReturnToSystem \/ DestroySocket \/ LogFails
  <2>1. pc' \in [Logger -> PcLabel]
    BY <1>6 DEF ReturnToSystem, DestroySocket, LogFails, PcLabel, LogLabel, Ended
  <2>2. UNCHANGED <<single, log, logged>>
    BY <1>6 DEF ReturnToSystem, DestroySocket, LogFails
  <2> QED BY <2>1, <2>2
<1>7. CASE CloseLog \/ Reset
  <2>1. pc' \in [Logger -> PcLabel]
    BY <1>7 DEF CloseLog, Reset, PcLabel, Ended
  <2>2. instance' \subseteq Singleton /\ destroying' \in Singleton \cup {"none"}
        /\ UNCHANGED <<handlers, created, log, logged>>
    BY <1>7 DEF CloseLog, Reset, ResetInstance
  <2> QED BY <2>1, <2>2
<1>8. ASSUME NEW w \in Worker, WorkerLogs(w) PROVE LifeTypeOK'
  <2>1. pc' \in [Logger -> PcLabel] /\ UNCHANGED <<single, log>>
    BY <1>8 DEF WorkerLogs, PcLabel, LogLabel
  <2>2. logged' \in 0..MaxLines
    BY <1>8 DEF WorkerLogs
  <2> QED BY <2>1, <2>2
<1>9. CASE UNCHANGED <<single, threads>>
  BY <1>9
<1>10. StopLog \/ UNCHANGED life => UNCHANGED <<single, threads>>
  BY DEF StopLog, life
<1> QED
  BY <1>1, <1>2, <1>3, <1>4, <1>5, <1>6, <1>7, <1>8, <1>9, <1>10, <1>11,
     LifeCases

-----------------------------------------------------------------------------
(* A line is logged.                                                       *)
LEMMA LogParts ==
  ASSUME LifeTypeOK, Parts, NEW t \in Logger, Sound,
         GetLog(t) \/ AddLine(t) \/ AddLineTooLate(t)
  PROVE  Sound' => Parts'
<1> USE DEF LifeTypeOK, single, LogLabel, Ended
<1>0. "main" \in Logger /\ Worker \subseteq Logger
  BY DEF Logger
<1>1. UNCHANGED <<instance, handlers, destroying, created>>
  BY DEF GetLog, AddLine, AddLineTooLate
<1>2. /\ UNCHANGED <<exit, running>>
      /\ exit = "closed" \/ writer = "unborn" => writer' = writer
      /\ writer' = "unborn" => writer = "unborn"
  <2>1. CASE AddLine(t)
    BY <2>1 DEF AddLine, IsOpen, Alive, AddMessage, notify_one
  <2>2. CASE ~AddLine(t)
    BY <2>2 DEF GetLog, AddLineTooLate, vars
  <2> QED BY <2>1, <2>2
<1>3. \A s \in Singleton : Registered(s)' <=> Registered(s)
  BY <1>1 DEF Registered
<1>4. "Socket" \in Singleton /\ "Log" \in Singleton
  BY DEF Singleton
<1>5. CASE GetLog(t)
  <2>1. /\ pc[t] = "get" /\ \A u \in Logger : u # t => pc'[u] = pc[u] /\ log'[u] = log[u]
        /\ \/ pc'[t] = "add" /\ "Log" \in instance /\ log'[t] = created
           \/ pc'[t] = "create" /\ "Log" \notin instance /\ log'[t] = log[t]
    BY <1>5 DEF GetLog, Goes
  <2>2. (Started' <=> Started) /\ (t # "main" => Started)
    BY <1>5, StartedStays DEF GetLog
  <2>3. \A u \in Logger : pc[u] = "register" => pc'[u] = "register"
    BY <2>1
  <2>4. PlaceInv'
    BY <1>0, <1>1, <2>1 DEF Parts, PlaceInv
  <2>5. InstanceInv'
    BY <1>0, <1>1, <1>3, <1>4, <2>1, <2>2, <2>3 DEF Parts, InstanceInv
  <2>6. ~Started' => OpenInv' /\ CountInv'
    BY <1>0, <1>1, <1>2, <2>1, <2>2 DEF Parts, OpenInv, CountInv
  <2> QED BY <2>4, <2>5, <2>6 DEF Parts
<1>6. CASE AddLine(t) \/ AddLineTooLate(t)
  <2> SUFFICES ASSUME Sound' PROVE Parts'
    OBVIOUS
  <2>1. Logged(t) /\ UNCHANGED log
    BY <1>0, <1>6 DEF AddLine, AddLineTooLate, Sound
  <2>2. CASE ~Started /\ t = "main"
    <3>1. /\ pc["main"] = "add" /\ destroying # "Log"
          /\ \/ destroying = "Socket" /\ pc'["main"] = "reset"
             \/ destroying = "none" /\ pc'["main"] = "exit"
      BY <1>0, <2>1, <2>2 DEF Logged, Goes, Parts, PlaceInv
    <3>2. \A u \in Logger : pc[u] # "register"
      BY <2>2, <3>1 DEF Started, Logger
    <3>3. "Socket" \in instance
      BY <3>1 DEF Parts, InstanceInv, PlaceInv
    <3>4. PlaceInv' /\ InstanceInv'
      BY <1>1, <1>3, <1>4, <3>1, <3>2, <3>3 DEF Parts, PlaceInv, InstanceInv
    <3>5. OpenInv' /\ CountInv'
      BY <1>1, <1>2, <2>1, <2>2, <3>1, <3>3 DEF Parts, OpenInv, CountInv
    <3> QED BY <3>4, <3>5 DEF Parts
  <2>3. CASE Started \/ t # "main"
    <3>1. \E to : Goes(t, "add", to) /\ to \in {"idle", "reset", "exit"}
                  /\ (t = "main" => destroying = "Socket" /\ to = "reset")
      <4>1. t = "main" => destroying # "none"
        BY <2>1, <2>3 DEF Logged, Goes, Parts, InstanceInv
      <4> QED BY <2>1, <4>1 DEF Logged
    <3>2. PICK to \in {"idle", "reset", "exit"} :
            /\ Goes(t, "add", to)
            /\ t = "main" => destroying = "Socket" /\ to = "reset"
      BY <3>1
    <3>3. (Started' <=> Started) /\ (t # "main" => Started /\ pc'["main"] = pc["main"])
      BY <3>2, StartedStays
    <3>4. Started /\ Started'
      BY <2>3, <3>3
    <3>5. /\ \A u \in Logger : pc[u] = "register" => pc'[u] = "register"
          /\ t = "main" => pc'["main"] = "reset" /\ pc["main"] = "add"
      BY <1>0, <3>2 DEF Goes
    <3>6. PlaceInv' /\ InstanceInv'
      BY <1>1, <1>3, <1>4, <3>2, <3>3, <3>4, <3>5 DEF Parts, PlaceInv, InstanceInv
    <3> QED BY <3>4, <3>6 DEF Parts
  <2> QED BY <2>2, <2>3
<1> QED BY <1>5, <1>6

(* A log is created, its handler registered, its OnCreate called.          *)
LEMMA CreateParts ==
  ASSUME LifeTypeOK, Parts, NEW t \in Logger, IsRunning,
         CreateLog(t) \/ RegisterLog(t) \/ StartLog(t)
  PROVE  Parts'
<1> USE DEF LifeTypeOK, single, LogLabel, Ended
<1>0. /\ "main" \in Logger /\ Worker \subseteq Logger
      /\ "Socket" \in Singleton /\ "Log" \in Singleton
  BY DEF Logger, Singleton
<1>1. PICK from, to \in LogLabel : Goes(t, from, to)
  BY DEF CreateLog, RegisterLog, StartLog
<1>2. /\ pc[t] = from /\ pc'[t] = to /\ \A u \in Logger : u # t => pc'[u] = pc[u]
      /\ UNCHANGED destroying
  BY <1>1 DEF Goes, CreateLog, RegisterLog, StartLog
<1>3. (Started' <=> Started) /\ (t # "main" => Started)
  BY <1>1, StartedStays
<1>4. PlaceInv'
  <2>1. instance \subseteq instance'
    BY DEF CreateLog, RegisterLog, StartLog
  <2> QED BY <1>0, <1>2, <2>1 DEF Parts, PlaceInv
<1>5. CASE CreateLog(t)
  <2>1. /\ instance' = instance \cup {"Log"} /\ created' = created + 1
        /\ writer' = "unborn" /\ exit' = "none" /\ UNCHANGED <<handlers, log>>
        /\ pc[t] = "create" /\ pc'[t] = "register"
    BY <1>5 DEF CreateLog, LogManagerCreated, Goes
  <2>2. \A s \in Singleton : Registered(s)' <=> Registered(s)
    BY <2>1 DEF Registered
  <2>3. InstanceInv'
    <3>1. \E u \in Logger : pc'[u] = "register"
      BY <2>1
    <3>2. pc'["main"] \in LogLabel => pc["main"] \in LogLabel
      BY <1>0, <1>2, <2>1
    <3>3. "Socket" \in instance' <=> "Socket" \in instance
      BY <2>1
    <3>4. pc'["main"] \in {"start", "done"} => pc'["main"] = pc["main"]
      BY <1>0, <1>2, <2>1
    <3> QED BY <1>0, <1>2, <1>3, <2>1, <2>2, <3>1, <3>2, <3>3, <3>4 DEF Parts, InstanceInv
  <2>4. ASSUME ~Started' PROVE OpenInv' /\ CountInv'
    <3>1. t = "main" /\ OpenInv /\ CountInv /\ destroying # "Log"
      BY <1>3, <2>1, <2>4 DEF Parts, PlaceInv
    <3>2. OpenInv'
      BY <1>2, <2>1, <3>1 DEF OpenInv
    <3>3. destroying \in {"none", "Socket"} /\ created \in Nat
      BY <3>1 DEF Singleton
    <3>4. destroying = "none" => created = 0
      BY <2>1, <3>1 DEF CountInv
    <3>5. destroying = "Socket" => created <= 1
      BY <2>1, <3>1 DEF CountInv, Parts, PlaceInv
    <3>6. CountInv'
      BY ONLY <1>2, <2>1, <3>1, <3>3, <3>4, <3>5 DEF CountInv
    <3> QED BY <3>2, <3>6
  <2> QED BY <1>4, <2>3, <2>4 DEF Parts
<1>6. CASE RegisterLog(t)
  <2>1. /\ AtExit("Log") /\ UNCHANGED <<vars, instance, created, log>>
        /\ pc[t] = "register" /\ pc'[t] = "oncreate"
    BY <1>6 DEF RegisterLog, Goes
  <2>2. Registered("Log")' /\ \A s \in Singleton : Registered(s) => Registered(s)'
    BY <1>0, <2>1, Registers
  <2>3. InstanceInv'
    <3>1. pc'["main"] \in LogLabel => pc["main"] \in LogLabel
      BY <1>0, <1>2, <2>1
    <3>2. pc'["main"] \in {"start", "done"} => pc'["main"] = pc["main"]
      BY <1>0, <1>2, <2>1
    <3>3. UNCHANGED <<instance, destroying>>
      BY <1>2, <2>1
    <3>4. pc'["main"] # "done"
      BY <1>0, <1>2, <2>1 DEF IsRunning
    <3> QED BY <1>0, <1>3, <2>2, <3>1, <3>2, <3>3, <3>4 DEF Parts, InstanceInv
  <2>4. ASSUME ~Started' PROVE OpenInv' /\ CountInv'
    <3>1. t = "main" /\ OpenInv /\ CountInv
      BY <1>3, <2>4 DEF Parts
    <3> QED BY <1>2, <2>1, <3>1 DEF OpenInv, CountInv, vars
  <2> QED BY <1>4, <2>3, <2>4 DEF Parts
<1>7. CASE StartLog(t)
  <2>1. /\ OnCreate /\ "Log" \in instance /\ UNCHANGED <<instance, created, handlers>>
        /\ pc[t] = "oncreate" /\ pc'[t] = "add" /\ log'[t] = created
    BY <1>7 DEF StartLog, Goes
  <2>2. \A s \in Singleton : Registered(s)' <=> Registered(s)
    BY <2>1 DEF Registered
  <2>3. \A u \in Logger : pc[u] = "register" => pc'[u] = "register"
    BY <1>2, <2>1
  <2>4. InstanceInv'
    BY <1>0, <1>2, <1>3, <2>1, <2>2, <2>3 DEF Parts, InstanceInv
  <2>5. ASSUME ~Started' PROVE OpenInv' /\ CountInv'
    <3>1. t = "main" /\ OpenInv /\ CountInv /\ destroying # "Log"
      BY <1>3, <2>1, <2>5 DEF Parts, PlaceInv
    <3>2. writer' = "test" /\ exit' = "none" /\ running'
      BY <2>1, <3>1 DEF OnCreate, OpenInv
    <3> QED BY <1>2, <2>1, <3>1, <3>2 DEF OpenInv, CountInv
  <2> QED BY <1>4, <2>4, <2>5 DEF Parts
<1> QED BY <1>5, <1>6, <1>7

(* A step of main from one place to another leaves the others' places.     *)
LEMMA MainGoes ==
  ASSUME LifeTypeOK, NEW from, NEW to, Goes("main", from, to), from # "off", to # "off"
  PROVE  /\ pc["main"] = from /\ pc'["main"] = to
         /\ Started' <=> Started
         /\ from # "register" =>
              \A t \in Logger : pc[t] = "register" => pc'[t] = "register"
<1>1. "main" \in Logger /\ pc \in [Logger -> PcLabel]
  BY DEF LifeTypeOK, Logger
<1>2. Started' <=> Started
  BY <1>1, StartedStays
<1> QED BY <1>1, <1>2 DEF Goes

(* Main begins, and exit runs its handlers.                                *)
LEMMA ExitParts ==
  ASSUME LifeTypeOK, Parts, Sound,
         GetSocket \/ RunHandler \/ ReturnToSystem \/ DestroySocket
  PROVE  Parts'
<1> USE DEF LogLabel
<1>0. /\ handlers \in Seq(Singleton) /\ destroying \in Singleton \cup {"none"}
      /\ instance \subseteq Singleton /\ "Socket" \in Singleton /\ "Log" \in Singleton
      /\ \A s \in Singleton : s = "Socket" \/ s = "Log"
  BY DEF LifeTypeOK, Singleton
<1>1. CASE GetSocket
  <2>1. Registered("Socket")' /\ \A u \in Singleton : Registered(u) => Registered(u)'
    BY <1>0, <1>1, Registers DEF GetSocket
  <2>2. PICK to \in {"get", "exit"} : Goes("main", "start", to)
    BY <1>1 DEF GetSocket
  <2>3. /\ pc["main"] = "start" /\ pc'["main"] = to /\ (Started' <=> Started)
        /\ \A t \in Logger : pc[t] = "register" => pc'[t] = "register"
    BY <2>2, MainGoes
  <2>4. instance' = instance \cup {"Socket"} /\ UNCHANGED <<vars, destroying, created, log>>
    BY <1>1 DEF GetSocket
  <2>5. destroying = "none" /\ ~Started
    BY <2>3, <1>0 DEF Parts, PlaceInv, InstanceInv
  <2>6. PlaceInv'
    BY <2>3, <2>4, <2>5 DEF PlaceInv
  <2>7. InstanceInv'
    BY <1>0, <2>1, <2>3, <2>4, <2>5 DEF Parts, InstanceInv
  <2>8. OpenInv' /\ CountInv'
    BY <2>3, <2>4, <2>5 DEF Parts, OpenInv, CountInv, vars
  <2> QED BY <2>6, <2>7, <2>8 DEF Parts
<1>2. CASE RunHandler
  <2>1. /\ handlers # <<>> /\ handlers' = Front(handlers)
        /\ UNCHANGED <<vars, instance, created, log>>
    BY <1>2 DEF RunHandler
  <2>2. \A s \in Singleton : Registered(s) => s = Last(handlers) \/ Registered(s)'
    <3> TAKE s \in Singleton
    <3> SUFFICES ASSUME Registered(s) PROVE s = Last(handlers) \/ Registered(s)'
      OBVIOUS
    <3>1. PICK i \in 1..Len(handlers) : handlers[i] = s
      BY DEF Registered
    <3>2. s = Last(handlers) \/ \E j \in 1..Len(Front(handlers)) : Front(handlers)[j] = s
      BY <1>0, <2>1, <3>1, Handlers
    <3> QED BY <2>1, <3>2 DEF Registered
  <2>3. Last(handlers) \in Singleton
    BY <1>0, <2>1, Handlers
  <2>4. \/ /\ Goes("main", "exit", "destroy")
           /\ destroying' = Last(handlers) /\ Last(handlers) \in instance
        \/ /\ Goes("main", "exit", "exit")
           /\ destroying' = destroying /\ Last(handlers) \notin instance
    BY <1>2 DEF RunHandler
  <2>5. /\ pc["main"] = "exit" /\ (Started' <=> Started)
        /\ \A t \in Logger : pc[t] = "register" => pc'[t] = "register"
        /\ \/ pc'["main"] = "destroy" /\ destroying' = Last(handlers) /\ Last(handlers) \in instance
           \/ pc'["main"] = "exit" /\ destroying' = destroying /\ Last(handlers) \notin instance
    BY <2>4, MainGoes
  <2>6. destroying = "none"
    BY <1>0, <2>5 DEF Parts, PlaceInv
  <2>7. PlaceInv'
    BY <1>0, <2>1, <2>3, <2>5, <2>6 DEF PlaceInv
  <2>8. InstanceInv'
    BY <1>0, <2>1, <2>2, <2>3, <2>5, <2>6 DEF Parts, InstanceInv
  <2>9. ~Started' => OpenInv' /\ CountInv'
    BY <1>0, <2>1, <2>3, <2>5, <2>6 DEF Parts, OpenInv, CountInv, vars
  <2> QED BY <2>7, <2>8, <2>9 DEF Parts
<1>3. CASE ReturnToSystem \/ DestroySocket
  <2>1. /\ UNCHANGED <<vars, single, log>>
        /\ \/ Goes("main", "exit", "done") /\ handlers = <<>>
           \/ Goes("main", "destroy", "get") /\ destroying = "Socket"
    BY <1>3 DEF ReturnToSystem, DestroySocket
  <2>2. /\ Started' <=> Started
        /\ \A t \in Logger : pc[t] = "register" => pc'[t] = "register"
        /\ \/ pc["main"] = "exit" /\ pc'["main"] = "done" /\ handlers = <<>>
           \/ pc["main"] = "destroy" /\ pc'["main"] = "get" /\ destroying = "Socket"
    BY <2>1, MainGoes
  <2>3. \A s \in Singleton : Registered(s)' <=> Registered(s)
    BY <2>1 DEF Registered, single
  <2>4. destroying \in {"none", "Socket"} /\ PlaceInv'
    BY <1>0, <2>1, <2>2 DEF Parts, PlaceInv, single
  <2>5. InstanceInv'
    BY <1>0, <2>1, <2>2, <2>3, <2>4 DEF Parts, PlaceInv, InstanceInv, single
  <2>6. ~Started' => OpenInv' /\ CountInv'
    BY <2>1, <2>2, <2>4 DEF Parts, PlaceInv, OpenInv, CountInv, single, vars
  <2> QED BY <2>4, <2>5, <2>6 DEF Parts
<1> QED BY <1>1, <1>2, <1>3

(* A singleton is destroyed.                                               *)
LEMMA DestroyParts ==
  ASSUME LifeTypeOK, Parts, Sound, StopLog \/ CloseLog \/ Reset
  PROVE  Sound' => Parts'
<1> USE DEF LogLabel
<1>0. /\ destroying \in Singleton \cup {"none"} /\ "Socket" \in Singleton /\ "Log" \in Singleton
      /\ \A s \in Singleton : s = "Socket" \/ s = "Log"
  BY DEF LifeTypeOK, Singleton
<1>1. \A s \in Singleton : Registered(s)' <=> Registered(s)
  BY DEF StopLog, CloseLog, Reset, Registered, single
<1>2. CASE StopLog
  <2>1. /\ destroying = "Log" /\ exit' # "closed" /\ exit # "closed"
        /\ (writer' = "unborn" <=> writer = "unborn")
        /\ UNCHANGED <<single, threads>> /\ pc["main"] = "destroy"
    BY <1>2 DEF StopLog, StopRunning, NotifyWriter, notify_one, Exits
  <2>2. PlaceInv' /\ InstanceInv' /\ (Started' <=> Started)
    BY <1>0, <1>1, <2>1 DEF Parts, PlaceInv, InstanceInv, Started, single, threads
  <2>3. ~Started' => OpenInv' /\ CountInv'
    BY <2>1, <2>2 DEF Parts, PlaceInv, OpenInv, CountInv, single, threads
  <2> QED BY <2>2, <2>3 DEF Parts
<1>3. CASE CloseLog
  <2>1. /\ exit' = "closed" /\ writer \in {"done", "unborn"} /\ writer' = writer
        /\ UNCHANGED <<single, log>> /\ destroying = "Log"
    BY <1>3 DEF CloseLog, JoinWriter, Exits
  <2>2. /\ pc["main"] = "destroy" /\ pc'["main"] = "reset" /\ (Started' <=> Started)
        /\ \A t \in Logger : pc[t] = "register" => pc'[t] = "register"
    BY <1>3, MainGoes DEF CloseLog
  <2>3. PlaceInv' /\ InstanceInv'
    BY <1>0, <1>1, <2>1, <2>2 DEF Parts, PlaceInv, InstanceInv, single
  <2>4. ~Started' => OpenInv' /\ CountInv'
    BY <2>1, <2>2 DEF Parts, PlaceInv, OpenInv, CountInv, single
  <2> QED BY <2>3, <2>4 DEF Parts
<1>4. CASE Reset
  <2> SUFFICES ASSUME Sound' PROVE Parts'
    OBVIOUS
  <2>1. Goes("main", "reset", "exit") /\ ~HasThread(destroying)
    BY <1>4 DEF Reset, Goes, Sound, LifeTypeOK, Logger
  <2>2. /\ pc["main"] = "reset" /\ pc'["main"] = "exit" /\ (Started' <=> Started)
        /\ \A t \in Logger : pc[t] = "register" => pc'[t] = "register"
    BY <2>1, MainGoes
  <2>3. /\ instance' = instance \ {destroying} /\ destroying' = "none"
        /\ UNCHANGED <<vars, handlers, created, log>>
    BY <1>4 DEF Reset, ResetInstance
  <2>4. destroying \in {"Socket", "Log"} /\ (destroying = "Socket" => ~Started)
    BY <1>0, <2>1, <2>2 DEF Parts, PlaceInv, HasThread
  <2>5. PlaceInv'
    BY <2>2, <2>3 DEF PlaceInv
  <2>6. InstanceInv'
    BY <1>0, <1>1, <2>2, <2>3, <2>4 DEF Parts, InstanceInv
  <2>7. ~Started' => OpenInv' /\ CountInv'
    BY <2>2, <2>3, <2>4 DEF Parts, PlaceInv, OpenInv, CountInv, vars
  <2> QED BY <2>5, <2>6, <2>7 DEF Parts
<1> QED BY <1>2, <1>3, <1>4

(* The writer works, and a thread comes to log a line.                     *)
LEMMA OtherParts ==
  ASSUME LifeTypeOK, Parts, Sound,
         \/ Alive /\ (WriterFunction \/ SpuriousWakeup) /\ UNCHANGED <<single, threads>>
         \/ \E w \in Worker : WorkerLogs(w)
         \/ UNCHANGED life
  PROVE  Parts'
<1>1. UNCHANGED <<instance, handlers, destroying, created, log>>
  BY DEF WorkerLogs, single, threads, life
<1>2. /\ pc'["main"] = pc["main"] /\ (Started' <=> Started)
      /\ \A t \in Logger : pc[t] = "register" => pc'[t] = "register"
  <2>1. ASSUME NEW w \in Worker, WorkerLogs(w)
        PROVE  /\ pc'["main"] = pc["main"] /\ (Started' <=> Started)
               /\ \A t \in Logger : pc[t] = "register" => pc'[t] = "register"
    <3>1. w \in Logger /\ w # "main" /\ pc \in [Logger -> PcLabel]
      BY WorkerAssumption DEF Logger, LifeTypeOK
    <3>2. Goes(w, "idle", "get")
      BY <2>1 DEF WorkerLogs
    <3> QED BY <3>1, <3>2, StartedStays DEF Goes
  <2>2. UNCHANGED pc => Started' = Started
    BY DEF Started
  <2> QED BY <2>1, <2>2 DEF threads, life
<1>3. /\ UNCHANGED <<exit, running>> /\ (exit = "closed" \/ writer = "unborn" => writer' = writer)
      /\ (writer' = "unborn" => writer = "unborn")
  BY DEF Alive, WriterFunction, SpuriousWakeup, WriterTest, WriterLock, WriterPredicate,
     WriterBlocks, WriterWrites, WriterFlushes, NextLoop, WriterGoes, WorkerLogs, life, vars
<1>4. \A s \in Singleton : Registered(s)' <=> Registered(s)
  BY <1>1 DEF Registered
<1>5. PlaceInv' /\ InstanceInv'
  BY <1>1, <1>2, <1>4 DEF Parts, PlaceInv, InstanceInv, Singleton
<1>6. ~Started' => OpenInv' /\ CountInv'
  BY <1>1, <1>2, <1>3 DEF Parts, OpenInv, CountInv
<1> QED BY <1>5, <1>6 DEF Parts

-----------------------------------------------------------------------------
(* The invariant holds when the program starts.                            *)
LEMMA LifeInvInit == LifeInit => LifeInv
<1> SUFFICES ASSUME LifeInit PROVE LifeInv
  OBVIOUS
<1> USE DEF LifeInit, Logger
<1>1. TypeOK
  <2>1. <<>> \in Seq(Message) /\ 0 \in Nat /\ 0 \in 0..Len(<<>>)
    OBVIOUS
  <2> QED BY <2>1 DEF TypeOK, WriterLabel, ExitLabel
<1>2. LogInv
  <2>1. Len(<<>>) = 0
    OBVIOUS
  <2> QED BY <1>1, <2>1 DEF LogInv, WriterOwnsMutex, SleepsOnNothing, WritesWhatItSaw,
                            ClosedAfterWriter
<1>3. LifeTypeOK
  <2>1. pc \in [Logger -> PcLabel]
    BY DEF PcLabel
  <2>2. <<>> \in Seq(Singleton) /\ 0 \in 0..0 /\ 0 \in 0..MaxLines
    BY MaxLinesAssumption
  <2> QED BY <1>1, <2>1, <2>2 DEF LifeTypeOK
<1>4. Parts
  <2>1. pc["main"] = "start" /\ \A w \in Worker : w # "main" /\ pc[w] = "off"
    BY WorkerAssumption
  <2> QED BY <2>1 DEF Parts, PlaceInv, InstanceInv, OpenInv, CountInv, LogLabel, Started
<1> QED BY <1>2, <1>3, <1>4 DEF LifeInv

(* Every step keeps the invariant; one lemma for each kind of them.        *)
LEMMA LifeInvStep == LifeInv /\ [LifeNext]_life => LifeInv'
<1> SUFFICES ASSUME LifeInv, [LifeNext]_life PROVE LifeInv'
  OBVIOUS
<1>1. LogInv' /\ LifeTypeOK'
  BY LogLifeStep, LifeTypeStep DEF LifeInv
<1>2. ASSUME Sound' PROVE Parts'
  <2>1. LifeTypeOK /\ (Sound => Parts)
    BY DEF LifeInv
  <2>2. UNCHANGED life => Sound
    BY <1>2 DEF life, threads, Sound
  <2>3. ~LogFails
    BY <1>2, <2>1 DEF LogFails, Sound, LifeTypeOK, Logger
  <2>4. \A t \in Logger : ~(CreateAgain(t) \/ StartAgain(t) \/ StartNone(t))
    BY <1>2, <2>1 DEF CreateAgain, StartAgain, StartNone, EndsProgram, Sound, LifeTypeOK, Logger
  <2>5. \A t \in Logger : Sound /\ (GetLog(t) \/ AddLine(t) \/ AddLineTooLate(t)) => Parts'
    BY <1>2, <2>1, LogParts
  <2>6. \A t \in Logger : IsRunning /\ (CreateLog(t) \/ RegisterLog(t) \/ StartLog(t)) => Parts'
    <3>1. IsRunning => Sound
      BY DEF IsRunning, Ended, Sound
    <3> QED BY <2>1, <3>1, CreateParts
  <2>7. Sound /\ (GetSocket \/ RunHandler \/ ReturnToSystem \/ DestroySocket) => Parts'
    BY <2>1, ExitParts
  <2>8. Sound /\ (StopLog \/ CloseLog \/ Reset) => Parts'
    BY <1>2, <2>1, DestroyParts
  <2>9. Sound /\ (\/ Alive /\ (WriterFunction \/ SpuriousWakeup) /\ UNCHANGED <<single, threads>>
                  \/ \E w \in Worker : WorkerLogs(w)
                  \/ UNCHANGED life) => Parts'
    BY <2>1, OtherParts
  <2> QED
    BY <2>2, <2>3, <2>4, <2>5, <2>6, <2>7, <2>8, <2>9, LifeCases
<1> QED BY <1>1, <1>2 DEF LifeInv

(* LifeInv holds in every state.                                           *)
THEOREM LifeInvariance == LifeSpec => []LifeInv
BY LifeInvInit, LifeInvStep, PTL DEF LifeSpec

(* The state of the singletons and of the log they create is well typed.   *)
THEOREM LifeTypeCorrect == LifeSpec => []LifeTypeOK
<1>1. LifeInv => LifeTypeOK
  BY DEF LifeInv
<1> QED BY <1>1, LifeInvariance, PTL

(* Without threads no line of main, SocketManager::OnDestroy's included,   *)
(* goes to a log that is half-made, was destroyed or has been told to      *)
(* stop.                                                                   *)
THEOREM LinesGoToOpenLog == LifeSpec => []AddsToOpenLog
<1>1. LifeInv => AddsToOpenLog
  <2> SUFFICES ASSUME LifeInv, pc["main"] = "add", ~Started
               PROVE  IsOpen(log["main"]) /\ running /\ Joinable
    BY DEF AddsToOpenLog
  <2>1. PlaceInv /\ OpenInv
    BY DEF LifeInv, Sound, Parts
  <2>2. "Log" \in instance /\ log["main"] = created /\ destroying # "Log"
    BY <2>1 DEF OpenInv, PlaceInv
  <2>3. exit = "none" /\ running /\ writer # "unborn"
    BY <2>1, <2>2 DEF OpenInv
  <2> QED BY <2>2, <2>3 DEF IsOpen, Alive, Joinable
<1> QED BY <1>1, LifeInvariance, PTL

(* exit returns to the system only with both singletons destroyed, every   *)
(* handler run, the writer ended, and never with the two threads left.     *)
THEOREM ProgramEndsClean == LifeSpec => []EndsClean
<1>1. LifeInv => EndsClean
  <2> SUFFICES ASSUME LifeInv, pc["main"] = "done" PROVE EndsClean
    BY DEF EndsClean
  <2>1. PlaceInv /\ InstanceInv /\ (~Started => OpenInv /\ CountInv)
        /\ instance \subseteq Singleton /\ destroying \in Singleton \cup {"none"}
    BY DEF LifeInv, LifeTypeOK, Sound, Parts
  <2>2. destroying = "none" /\ handlers = <<>>
    BY <2>1 DEF PlaceInv, InstanceInv, Singleton, LogLabel
  <2>3. \A s : ~Registered(s)
    BY <2>2 DEF Registered
  <2>4. ~Started
    BY <2>1, <2>2, <2>3 DEF InstanceInv
  <2>5. \A t \in Logger : pc[t] # "register"
    BY <2>4 DEF Started, Logger
  <2>6. instance = {}
    BY <2>1, <2>2, <2>3, <2>5 DEF InstanceInv, Singleton
  <2> QED BY <2>1, <2>2, <2>4, <2>6 DEF OpenInv, CountInv, EndsClean
<1> QED BY <1>1, LifeInvariance, PTL
=============================================================================
