-------------------------- MODULE ChatWindowProofs --------------------------
(***************************************************************************)
(* What ChatWindow's window shows, for any number of lines.                *)
(***************************************************************************)
EXTENDS ChatWindow, SequenceTheorems, TLAPS

HandlerLabel == {"find", "push", "iterate", "set"}

(* A thread that prints owns socket_mutex; main reports nothing but what   *)
(* the user wrote, and does not look for a handler.                        *)
CallInv ==
  /\ \A t \in Reporter : pc[t] \in {"idle"} \cup HandlerLabel
  /\ pc["main"] # "find"
  /\ \A t \in Thread : line[t] = "print" => socket_mutex = t
  /\ line["main"] = "own"

RacedInv == Racing => raced

(* The longest text that was set has all the lines, or a thread is about   *)
(* to set one that has; and the field shows it unless `stale` tells why.   *)
Reaches(t) == pc[t] = "iterate" \/ (pc[t] = "set" /\ snapshot[t] = Len(messages))

ShownInv ==
  /\ ~raced => reported = Len(messages)
  /\ ~raced => newest = Len(messages) \/ \E t \in Thread : Reaches(t)
  /\ stale = "none" => shown = newest

(* Both handlers are there when main has got past the second.              *)
MapInv ==
  /\ pc["main"] \notin {"receive", "crashed"} => "ReceiveMessage" \in MessageActionMap
  /\ pc["main"] \notin {"receive", "print", "crashed"} => "OnPrintMessage" \in MessageActionMap

WindowInv == TypeOK /\ CallInv /\ RacedInv /\ ShownInv /\ MapInv

(* The three threads; recv and heart are those that report.                *)
LEMMA Threads == Thread = {"main", "recv", "heart"} /\ Reporter = {"recv", "heart"}
BY DEF Thread, Reporter

(* What each step does to the lines.                                       *)
LEMMA Appended ==
  ASSUME TypeOK, NEW l \in Line
  PROVE  /\ Append(messages, l) \in Seq(Line)
         /\ Len(Append(messages, l)) = Len(messages) + 1
         /\ Len(messages) \in Nat
         /\ \A i \in 1..Len(messages) : Append(messages, l)[i] = messages[i]
         /\ Append(messages, l)[Len(messages) + 1] = l
BY AppendProperties DEF TypeOK

-----------------------------------------------------------------------------
(* Every step keeps the types.                                             *)
LEMMA TypeStep == TypeOK /\ [Next]_vars => TypeOK'
<1> SUFFICES ASSUME TypeOK, [Next]_vars PROVE TypeOK'
  OBVIOUS
<1> USE Threads DEF TypeOK, Step, calls, start, window, pushed, Label, MainLabel
<1>0. Len(messages) \in Nat
  OBVIOUS
<1>1. raced' \in BOOLEAN
  BY DEF Next, Running, Terminated, vars
<1>2. CASE StartWindow \/ SendMessageData \/ OnWindowClose \/ Crash
  BY <1>1, <1>2 DEF StartWindow, RegisterMessageEvent, Registered, CreateWindow,
     SendMessageData, OnWindowClose, Crash, Event
<1>3. CASE Report
  BY <1>1, <1>3 DEF Report, ReceivedText, ProcessInput, Input, PrintMessage,
     LockSocket, Line
<1>4. ASSUME NEW t \in Thread, TiggerMessageAction(t) PROVE TypeOK'
  BY <1>1, <1>4 DEF TiggerMessageAction, Return, Line
<1>5. ASSUME NEW t \in Thread, PushBack(t) PROVE TypeOK'
  <2>0. line[t] \in Line
    BY <1>5
  <2>1. messages' \in Seq(Line) /\ Len(messages') \in Nat /\ Len(messages) <= Len(messages')
    <3>1. CASE messages' = Append(messages, line[t])
      BY ONLY <2>0, <3>1, Appended, TypeOK
    <3>2. CASE messages' = messages
      BY <1>0, <3>2
    <3> QED BY <1>5, <3>1, <3>2 DEF PushBack
  <2>2. /\ snapshot' \in [Thread -> 0..Len(messages')]
        /\ shown' \in 0..Len(messages') /\ newest' \in 0..Len(messages')
    BY <1>5, <2>1 DEF PushBack
  <2>3. pc' \in [Thread -> Label] /\ reported' \in Nat
    BY <1>5 DEF PushBack, UpdateOutput
  <2> QED BY <1>1, <1>5, <2>1, <2>2, <2>3 DEF PushBack
<1>6. ASSUME NEW t \in Thread, BuildText(t) PROVE TypeOK'
  BY <1>1, <1>6 DEF BuildText
<1>7. ASSUME NEW t \in Thread, SetWindowText(t) PROVE TypeOK'
  <2>1. newest' \in 0..Len(messages) /\ shown' \in 0..Len(messages)
    BY <1>7 DEF SetWindowText
  <2>2. snapshot' \in [Thread -> 0..Len(messages)] /\ stale' \in Stale
    BY <1>0, <1>7 DEF SetWindowText, Stale
  <2> QED BY <1>1, <1>7, <2>1, <2>2 DEF SetWindowText, Return, Line
<1>8. CASE UNCHANGED vars
  BY <1>8 DEF vars
<1> QED
  BY <1>2, <1>3, <1>4, <1>5, <1>6, <1>7, <1>8 DEF Next, Running, Terminated, Handler

(* Every step keeps what is known of the calls in progress.                *)
LEMMA CallStep == TypeOK /\ CallInv /\ [Next]_vars => CallInv'
<1> SUFFICES ASSUME TypeOK, CallInv, [Next]_vars PROVE CallInv'
  OBVIOUS
<1> USE Threads DEF TypeOK, CallInv, HandlerLabel, Step, calls, start, window,
      pushed, NoThread
<1>1. CASE StartWindow \/ SendMessageData \/ OnWindowClose \/ Crash
  BY <1>1 DEF StartWindow, RegisterMessageEvent, CreateWindow, SendMessageData,
     OnWindowClose, Crash
<1>2. CASE Report
  BY <1>2 DEF Report, ReceivedText, ProcessInput, Input, PrintMessage, LockSocket
<1>3. ASSUME NEW t \in Thread, TiggerMessageAction(t) PROVE CallInv'
  BY <1>3 DEF TiggerMessageAction, Return
<1>4. ASSUME NEW t \in Thread, PushBack(t) \/ BuildText(t) PROVE CallInv'
  BY <1>4 DEF PushBack, BuildText, UpdateOutput
<1>5. ASSUME NEW t \in Thread, SetWindowText(t) PROVE CallInv'
  BY <1>5 DEF SetWindowText, Return
<1>6. CASE UNCHANGED vars
  BY <1>6 DEF vars
<1> QED
  BY <1>1, <1>2, <1>3, <1>4, <1>5, <1>6 DEF Next, Running, Terminated, Handler

(* The history of races only grows.                                        *)
LEMMA RacedStep == RacedInv /\ [Next]_vars => RacedInv'
<1>1. CASE Running
  BY <1>1 DEF Running, RacedInv
<1>2. CASE UNCHANGED vars
  BY <1>2 DEF vars, calls, RacedInv, Racing, VectorRace, MapRace
<1> QED BY <1>1, <1>2 DEF Next, Terminated

(* What is hidden stays explained by a race or by a write to come.         *)
LEMMA ShownStep ==
  TypeOK /\ CallInv /\ RacedInv /\ ShownInv /\ [Next]_vars => ShownInv'
<1> SUFFICES ASSUME TypeOK, CallInv, RacedInv, ShownInv, [Next]_vars PROVE ShownInv'
  OBVIOUS
<1> USE Threads DEF TypeOK, CallInv, ShownInv, Reaches, HandlerLabel, Step,
      calls, start, window, pushed
<1>0. Len(messages) \in Nat /\ (~raced' => ~raced)
  BY DEF Next, Running, Terminated, vars
<1>1. CASE StartWindow \/ SendMessageData \/ OnWindowClose \/ Crash
  <2>1. CASE Crash
    BY <1>0, <2>1 DEF Crash, RacedInv
  <2>2. CASE StartWindow \/ SendMessageData \/ OnWindowClose
    <3>1. \A t \in Reporter : pc'[t] = pc[t]
      BY <2>2 DEF StartWindow, RegisterMessageEvent, CreateWindow,
         SendMessageData, OnWindowClose
    <3>2. pc["main"] \notin {"iterate", "set"}
      BY <2>2 DEF StartWindow, RegisterMessageEvent, CreateWindow,
         SendMessageData, OnWindowClose
    <3>3. UNCHANGED <<messages, reported, newest, shown, stale, snapshot>>
      BY <2>2 DEF StartWindow, RegisterMessageEvent, CreateWindow,
         SendMessageData, OnWindowClose
    <3>4. \A t \in Thread : Reaches(t) => Reaches(t)'
      BY <3>1, <3>2, <3>3
    <3> QED BY ONLY <1>0, <3>3, <3>4, ShownInv DEF ShownInv
  <2> QED BY <1>1, <2>1, <2>2
<1>2. CASE Report
  BY <1>0, <1>2 DEF Report, ReceivedText, ProcessInput, PrintMessage
<1>3. ASSUME NEW t \in Thread, TiggerMessageAction(t) PROVE ShownInv'
  BY <1>0, <1>3 DEF TiggerMessageAction, Return
<1>4. ASSUME NEW t \in Thread, PushBack(t) PROVE ShownInv'
  <2>1. pc' = [pc EXCEPT ![t] = "iterate"] /\ UNCHANGED <<shown, newest, stale>>
    BY <1>4 DEF PushBack, UpdateOutput
  <2>2. ~raced' => reported' = Len(messages')
    BY <1>0, <1>4, Appended DEF PushBack
  <2> QED BY <2>1, <2>2
<1>5. ASSUME NEW t \in Thread, BuildText(t) PROVE ShownInv'
  <2>1. ~raced' => snapshot' = [snapshot EXCEPT ![t] = Len(messages)]
    BY <1>0, <1>5 DEF BuildText
  <2>2. pc' = [pc EXCEPT ![t] = "set"]
        /\ UNCHANGED <<shown, newest, stale, messages, reported>>
    BY <1>5 DEF BuildText
  <2> QED BY <1>0, <2>1, <2>2
<1>6. ASSUME NEW t \in Thread, SetWindowText(t) PROVE ShownInv'
  <2>1. /\ newest' = IF snapshot[t] > newest THEN snapshot[t] ELSE newest
        /\ pc[t] = "set" /\ UNCHANGED <<messages, reported>>
        /\ \A u \in Thread : u # t => pc'[u] = pc[u] /\ snapshot'[u] = snapshot[u]
    BY <1>6 DEF SetWindowText, Return
  <2>2. snapshot[t] \in Nat /\ newest \in Nat /\ snapshot[t] <= Len(messages)
        /\ newest <= Len(messages)
    OBVIOUS
  <2>3. stale' = "none" => shown' = newest'
    BY <1>6, <2>2 DEF SetWindowText
  <2>4. ~raced' => newest' = Len(messages') \/ \E u \in Thread : Reaches(u)'
    <3>1. CASE newest = Len(messages) \/ Reaches(t)
      BY <2>1, <2>2, <3>1
    <3>2. ASSUME NEW u \in Thread, u # t, Reaches(u) PROVE Reaches(u)'
      BY <2>1, <3>2
    <3> QED BY <1>0, <3>1, <3>2
  <2> QED BY <1>0, <2>1, <2>3, <2>4
<1>7. CASE UNCHANGED vars
  BY <1>7 DEF vars
<1> QED
  BY <1>1, <1>2, <1>3, <1>4, <1>5, <1>6, <1>7 DEF Next, Running, Terminated, Handler

(* main goes past a handler only by registering it.                        *)
LEMMA MapStep == TypeOK /\ CallInv /\ MapInv /\ [Next]_vars => MapInv'
<1> SUFFICES ASSUME TypeOK, CallInv, MapInv, [Next]_vars PROVE MapInv'
  OBVIOUS
<1> USE Threads DEF TypeOK, CallInv, MapInv, HandlerLabel, Step, calls, start,
      window, pushed
<1>1. CASE StartWindow \/ SendMessageData \/ OnWindowClose \/ Crash
  BY <1>1 DEF StartWindow, RegisterMessageEvent, Registered, CreateWindow,
     SendMessageData, OnWindowClose, Crash
<1>2. CASE Report
  BY <1>2 DEF Report, ReceivedText, ProcessInput, PrintMessage
<1>3. ASSUME NEW t \in Thread, Handler(t) PROVE MapInv'
  BY <1>3 DEF Handler, TiggerMessageAction, PushBack, BuildText, SetWindowText,
     Return, UpdateOutput
<1>4. CASE UNCHANGED vars
  BY <1>4 DEF vars
<1> QED
  BY <1>1, <1>2, <1>3, <1>4 DEF Next, Running, Terminated

-----------------------------------------------------------------------------
(* The invariant holds when wWinMain starts.                               *)
LEMMA WindowInit == Init => WindowInv
<1> SUFFICES ASSUME Init PROVE WindowInv
  OBVIOUS
<1> USE Threads
<1>1. TypeOK
  <2>1. <<>> \in Seq(Line) /\ 0 \in 0..Len(<<>>) /\ 0 \in Nat
    OBVIOUS
  <2> QED BY <2>1 DEF Init, TypeOK, Label, MainLabel, Line, Stale
<1>2. CallInv /\ RacedInv /\ ShownInv /\ MapInv
  <2>1. Len(<<>>) = 0
    OBVIOUS
  <2>2. \A t \in Thread : pc[t] = IF t = "main" THEN "receive" ELSE "idle"
    BY DEF Init
  <2>3. \A t \in Thread : line[t] = "own"
    BY DEF Init
  <2>4. CallInv
    BY <2>2, <2>3 DEF CallInv, HandlerLabel
  <2>5. ShownInv
    BY <2>1 DEF Init, ShownInv
  <2>6. MapInv
    BY <2>2 DEF MapInv
  <2>7. RacedInv
    BY <2>2 DEF RacedInv, Racing, VectorRace, MapRace
  <2> QED BY <2>4, <2>5, <2>6, <2>7
<1> QED BY <1>1, <1>2 DEF WindowInv

(* The invariant of the window: who prints owns socket_mutex, and the      *)
(* longest text that was set, or is about to be, has every line.           *)
THEOREM WindowInvariance == Spec => []WindowInv
<1>1. WindowInv /\ [Next]_vars => WindowInv'
  BY TypeStep, CallStep, RacedStep, ShownStep, MapStep DEF WindowInv
<1> QED BY <1>1, WindowInit, PTL DEF Spec

(* The window's state is well typed: no text that was built or shown has   *)
(* more lines than there are.                                              *)
THEOREM WindowTypeCorrect == Spec => []TypeOK
<1>1. WindowInv => TypeOK
  BY DEF WindowInv
<1> QED BY <1>1, WindowInvariance, PTL

(* A line that stays hidden when all is quiet is hidden by one of four     *)
(* causes, however many lines there are.                                   *)
THEOREM HiddenLinesAreExplained == Spec => []HiddenLinesExplained
<1>1. WindowInv => HiddenLinesExplained
  <2> SUFFICES ASSUME WindowInv, Quiet, ~raced, stale = "none", NEW i \in 1..reported
               PROVE  i <= shown
    BY DEF HiddenLinesExplained, Displayed
  <2>1. \A t \in Thread : ~Reaches(t)
    BY DEF Quiet, Reaches
  <2>2. shown = reported
    BY <2>1 DEF WindowInv, ShownInv
  <2> QED BY <2>2 DEF WindowInv, TypeOK
<1> QED BY <1>1, WindowInvariance, PTL

(* recv and heart never meet at the vector with two printed lines.         *)
THEOREM PrintsNeverMeet == Spec => []PrintsExclusive
<1>1. WindowInv => PrintsExclusive
  BY DEF WindowInv, CallInv, PrintsExclusive, Reporter
<1> QED BY <1>1, WindowInvariance, PTL

(* Once wWinMain has registered both handlers, TiggerMessageAction finds   *)
(* one for every line.                                                     *)
THEOREM DropsEndWithTheHandlers == Spec => DroppedOnlyAtStart
<1> DEFINE Kept ==
      \A t \in Reporter :
        pc[t] = "find" /\ pc'[t] = "idle" => pc["main"] \in {"receive", "print"}
<1>1. WindowInv /\ [Next]_vars => [Kept]_vars
  <2> SUFFICES ASSUME WindowInv, Next, NEW t \in Reporter, pc[t] = "find", pc'[t] = "idle"
               PROVE  pc["main"] \in {"receive", "print"}
    OBVIOUS
  <2> USE Threads DEF WindowInv, TypeOK, CallInv, Step
  <2>1. Running
    BY DEF Next, Terminated, vars, calls
  <2>2. \E u \in Thread : Handler(u)
    BY <2>1 DEF Running, StartWindow, RegisterMessageEvent, CreateWindow, SendMessageData,
       OnWindowClose, Crash, Report, ReceivedText, ProcessInput, PrintMessage
  <2>3. TiggerMessageAction(t)
    BY <2>2 DEF Handler, TiggerMessageAction, PushBack, BuildText, SetWindowText,
       Return, UpdateOutput
  <2>4. EventOf(line[t]) \notin MessageActionMap \/ MapRace(t)
    BY <2>3 DEF TiggerMessageAction
  <2>5. pc["main"] \notin {"exited", "crashed"}
    BY <2>1 DEF Running, Stopped
  <2> QED BY <2>4, <2>5 DEF MapInv, MapRace, EventOf
<1> QED BY <1>1, WindowInvariance, PTL DEF Spec, DroppedOnlyAtStart
=============================================================================
