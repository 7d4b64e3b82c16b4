----------------------------- MODULE ChatWindow -----------------------------
(***************************************************************************)
(* The lines of the chat window (WinMain.cpp): main, recv and heart push   *)
(* to the vector `messages` without a lock, build the window's whole text  *)
(* from it and hand that to the window, which belongs to main.  What makes *)
(* the threads of SocketManager call the handlers is left open here; that  *)
(* OnPrintMessage is called under socket_mutex and OnReceiveMessage is not *)
(* is kept.  A label stands for being in the middle of what it names, so   *)
(* that two accesses without a lock overlap when two threads are at them.  *)
(***************************************************************************)
EXTENDS Naturals, Sequences, FiniteSets

CONSTANT MaxLines  \* bound: lines that are reported

ASSUME MaxLinesAssumption == MaxLines \in Nat

Thread   == {"main", "recv", "heart"}
Reporter == Thread \ {"main"}
NoThread == "nobody"
Event    == {"ReceiveMessage", "OnPrintMessage"}

(* A line: what the user wrote, a text of the server, one of the client    *)
(* itself, or a text with a NUL in it: clients send a trailing one.        *)
Line == {"own", "text", "print", "nul"}

MainLabel == {"receive", "print", "create", "send", "exited", "crashed"}
Label     == {"idle", "find", "push", "iterate", "set"} \cup MainLabel

VARIABLES
  pc,                \* where each thread is
  line,              \* the line it reports, "own" when it reports none
  socket_mutex,
  MessageActionMap,  \* the events that have a handler
  hOutput,           \* the window has its output field
  messages,
  snapshot,          \* per thread: lines in the text it has built, or 0
  shown,             \* lines in the text last given to the field
  reported,          \* history: lines pushed
  newest,            \* history: the longest text given to SetWindowText
  stale,             \* history: why the field may show less than that
  raced              \* history: two threads were at `messages`, or at the
                     \* map, at a time, and one was writing

calls  == <<pc, line, socket_mutex>>
start  == <<MessageActionMap, hOutput>>
window == <<snapshot, shown, newest, stale>>
pushed == <<messages, reported>>
vars   == <<calls, start, window, pushed, raced>>

(* early      SetWindowText came before the field existed                  *)
(* overtaken  the last text was built before one that was set earlier      *)
Stale == {"none", "early", "overtaken"}

TypeOK ==
  /\ pc \in [Thread -> Label]
  /\ line \in [Thread -> Line]
  /\ socket_mutex \in Thread \cup {NoThread}
  /\ MessageActionMap \subseteq Event
  /\ hOutput \in BOOLEAN
  /\ messages \in Seq(Line)
  /\ snapshot \in [Thread -> 0..Len(messages)]
  /\ shown \in 0..Len(messages)
  /\ newest \in 0..Len(messages)
  /\ reported \in Nat
  /\ stale \in Stale
  /\ raced \in BOOLEAN

(* ConnectServer has returned to wWinMain: recv and heart run.             *)
Init ==
  /\ pc = [t \in Thread |-> IF t = "main" THEN "receive" ELSE "idle"]
  /\ line = [t \in Thread |-> "own"]
  /\ socket_mutex = NoThread
  /\ MessageActionMap = {}
  /\ hOutput = FALSE
  /\ messages = <<>>
  /\ snapshot = [t \in Thread |-> 0]
  /\ shown = 0
  /\ reported = 0
  /\ newest = 0
  /\ stale = "none"
  /\ raced = FALSE

Stopped == pc["main"] \in {"exited", "crashed"}

(* The accesses that overlap without a lock.                               *)
VectorRace(t, u) == pc[t] = "push" /\ pc[u] \in {"push", "iterate"}
MapRace(u)       == pc["main"] \in {"receive", "print"} /\ pc[u] = "find"

Racing ==
  \/ \E t, u \in Thread : t # u /\ VectorRace(t, u)
  \/ \E u \in Thread : MapRace(u)

(* A thread reports another line only below the bound.                     *)
InBounds ==
  reported + Cardinality({t \in Thread : pc[t] \in {"find", "push"}}) < MaxLines

Step(t, from, to) == pc[t] = from /\ pc' = [pc EXCEPT ![t] = to]

-----------------------------------------------------------------------------
(* wWinMain: the two handlers, one after the other, and the window.        *)
(* Mutant: a handler takes the place of all that were there.               *)
OnlyLast(e)   == {e}
Registered(e) == MessageActionMap \cup {e}

RegisterMessageEvent(e, from, to) ==
  /\ Step("main", from, to)
  /\ MessageActionMap' = Registered(e)
  /\ UNCHANGED <<line, socket_mutex, hOutput, window, pushed>>

CreateWindow ==
  /\ Step("main", "create", "idle")
  /\ hOutput' = TRUE
  /\ UNCHANGED <<line, socket_mutex, MessageActionMap, window, pushed>>

OnWindowClose ==
  /\ Step("main", "idle", "exited")
  /\ UNCHANGED <<line, socket_mutex, start, window, pushed>>

(* Mutant: an empty input is a line too.                                   *)
EmptyInput == ""
Input      == "own"

ProcessInput ==
  /\ InBounds
  /\ Step("main", "idle", "push")
  /\ line' = [line EXCEPT !["main"] = Input]
  /\ UNCHANGED <<socket_mutex, start, window, pushed>>

(* SendMessageData takes send_mutex, which others hold for a moment.       *)
(* Mutant: it takes socket_mutex.                                          *)
SendsUnderSocketMutex == socket_mutex = NoThread
SendsAtOnce           == TRUE

SendMessageData ==
  /\ SendsAtOnce
  /\ Step("main", "send", "idle")
  /\ UNCHANGED <<line, socket_mutex, start, window, pushed>>

-----------------------------------------------------------------------------
(* The calls of the handlers.                                              *)
ReceivedText ==
  /\ InBounds
  /\ Step("recv", "idle", "find")
  /\ \E l \in {"text", "nul"} : line' = [line EXCEPT !["recv"] = l]
  /\ UNCHANGED <<socket_mutex, start, window, pushed>>

(* ConnectServer and Disconnect hold socket_mutex here.                    *)
(* Mutant: they do not.                                                    *)
NoLock(t)     == UNCHANGED socket_mutex
LockSocket(t) == socket_mutex = NoThread /\ socket_mutex' = t

PrintMessage(t) ==
  /\ InBounds
  /\ Step(t, "idle", "find")
  /\ LockSocket(t)
  /\ line' = [line EXCEPT ![t] = "print"]
  /\ UNCHANGED <<start, window, pushed>>

(* Back from the handler: ProcessInput sends, the others go on.            *)
Return(t) ==
  /\ pc' = [pc EXCEPT ![t] = IF t = "main" THEN "send" ELSE "idle"]
  /\ socket_mutex' = IF socket_mutex = t THEN NoThread ELSE socket_mutex
  /\ line' = [line EXCEPT ![t] = "own"]

EventOf(l) == IF l = "print" THEN "OnPrintMessage" ELSE "ReceiveMessage"

(* Without a handler the line is dropped; what a search of the map finds   *)
(* while main inserts into it is not defined.                              *)
TiggerMessageAction(t) ==
  /\ pc[t] = "find"
  /\ \/ /\ EventOf(line[t]) \in MessageActionMap \/ MapRace(t)
        /\ Step(t, "find", "push")
        /\ UNCHANGED <<line, socket_mutex>>
     \/ (EventOf(line[t]) \notin MessageActionMap \/ MapRace(t)) /\ Return(t)
  /\ UNCHANGED <<start, window, pushed>>

(* Mutant: the window's text is not built anew for a printed line.         *)
KeepText(l)     == IF l = "print" THEN "set" ELSE "iterate"
UpdateOutput(l) == "iterate"

(* A push that overlaps another access may be lost.                        *)
PushBack(t) ==
  /\ Step(t, "push", UpdateOutput(line[t]))
  /\ reported' = reported + 1
  /\ \/ messages' = Append(messages, line[t])
     \/ raced /\ UNCHANGED messages
  /\ UNCHANGED <<line, socket_mutex, start, window>>

(* The text is built from the lines there are, or from what is left of     *)
(* them when they are being moved.                                         *)
BuildText(t) ==
  /\ Step(t, "iterate", "set")
  /\ \E n \in 0..Len(messages) :
       /\ n = Len(messages) \/ raced
       /\ snapshot' = [snapshot EXCEPT ![t] = n]
  /\ UNCHANGED <<line, socket_mutex, start, shown, newest, stale, pushed>>

(* Only main changes its window: for another thread it does so when it is  *)
(* back in its message loop.                                               *)
Answers(t) == t = "main" \/ pc["main"] = "idle"

SetWindowText(t) ==
  /\ pc[t] = "set"
  /\ newest' = IF snapshot[t] > newest THEN snapshot[t] ELSE newest
  /\ IF hOutput
     THEN /\ Answers(t)
          /\ shown' = snapshot[t]
          /\ stale' = IF snapshot[t] < newest THEN "overtaken" ELSE "none"
     ELSE shown' = shown /\ stale' = "early"
  /\ snapshot' = [snapshot EXCEPT ![t] = 0]
  /\ Return(t)
  /\ UNCHANGED <<start, pushed>>

Handler(t) ==
  TiggerMessageAction(t) \/ PushBack(t) \/ BuildText(t) \/ SetWindowText(t)

(* What overlapping accesses to the vector or the map can also do.         *)
Crash ==
  /\ Racing
  /\ pc' = [pc EXCEPT !["main"] = "crashed"]
  /\ UNCHANGED <<line, socket_mutex, start, window, pushed>>

-----------------------------------------------------------------------------
StartWindow ==
  \/ RegisterMessageEvent("ReceiveMessage", "receive", "print")
  \/ RegisterMessageEvent("OnPrintMessage", "print", "create")
  \/ CreateWindow

Report ==
  ReceivedText \/ ProcessInput \/ \E t \in Reporter : PrintMessage(t)

Running ==
  /\ ~Stopped
  /\ \/ StartWindow \/ SendMessageData \/ OnWindowClose \/ Crash
     \/ Report
     \/ \E t \in Thread : Handler(t)
  /\ raced' = (raced \/ Racing')

Terminated == Stopped /\ UNCHANGED vars

Next == Running \/ Terminated

Spec == Init /\ [][Next]_vars

(* A thread that is in a handler, and main, go on; the message loop takes  *)
(* its turn with the user's input.                                         *)
Fairness ==
  /\ WF_vars(Running /\ (StartWindow \/ SendMessageData))
  /\ \A t \in Thread : WF_vars(Running /\ Handler(t))
  /\ \A t \in Thread : SF_vars(Running /\ SetWindowText(t))

FairSpec == Spec /\ Fairness

-----------------------------------------------------------------------------
Quiet == \A t \in Thread : pc[t] = "idle"

(* SetWindowText gets a C string, so the field ends at the first NUL.      *)
BehindNul(i) == \E k \in 1..i - 1 : messages[k] = "nul"
Displayed(i) == i <= shown /\ ~BehindNul(i)

(* When nobody is in a handler, the window shows every line that was       *)
(* pushed, unless two threads met at the vector, the field did not exist   *)
(* yet, an older text overtook a newer one, or an earlier line has a NUL   *)
(* in it; there is no fifth way to miss a line.                            *)
HiddenLinesExplained ==
  Quiet /\ ~raced /\ stale = "none" =>
    \A i \in 1..reported : Displayed(i) \/ BehindNul(i)

(* Two threads that meet at the vector are main and another one, or recv   *)
(* with a text of the server: the lines the client itself prints never     *)
(* meet, although recv and heart both print them.                          *)
PrintsExclusive ==
  \A t, u \in Reporter :
    t # u /\ VectorRace(t, u) => "print" # line[t] \/ "print" # line[u]

(* recv and heart run before wWinMain has registered the handlers, and     *)
(* what they report then may be dropped; from the second handler on no     *)
(* line is dropped any more.                                               *)
DroppedOnlyAtStart ==
  [][\A t \in Reporter :
       pc[t] = "find" /\ pc'[t] = "idle" => pc["main"] \in {"receive", "print"}]_vars

(* recv and heart come back from their handlers although these wait for    *)
(* main's message loop, and heart holds socket_mutex while it does.        *)
HandlersReturn ==
  \A t \in Reporter : pc[t] = "set" ~> (pc[t] = "idle" \/ Stopped)
=============================================================================
