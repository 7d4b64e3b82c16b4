--------------------------- MODULE SocketManager ---------------------------
(***************************************************************************)
(* The connection manager of the chat client (SocketManager.cpp), run by   *)
(* the three threads of the program:                                       *)
(*   main    wWinMain: the first ConnectServer, the two handlers, then the *)
(*           window's message loop and what the user sends;                *)
(*   recv    ReceiveMessage: select and recv, and every Reconnect;         *)
(*   heart   SendHeartThread: PING, and Disconnect when PONG is overdue.   *)
(* A step is what a thread does between two points where another thread    *)
(* can see the difference; what the code reads without a lock is read      *)
(* without one here.  The chat server, TCP and Winsock are external.       *)
(***************************************************************************)
EXTENDS Naturals, Sequences

CONSTANTS
  Handle,         \* socket handles the system hands out, and reuses
  INVALID_SOCKET, \* sock_cache without a socket
  HEART_SECOND,   \* heartbeat period, in ticks of the model's clock
  MaxInbox,       \* bound: unread texts up to which the server sends more
  MaxPings        \* bound: PINGs counted that the server has not answered

ASSUME ConstantAssumption ==
  /\ INVALID_SOCKET \notin Handle
  /\ HEART_SECOND \in Nat \ {0}
  /\ MaxInbox \in Nat
  /\ MaxPings \in Nat \ {0}

Thread   == {"main", "recv", "heart"}
NoThread == "nobody"
Event    == {"ReceiveMessage", "OnPrintMessage"}  \* keys of MessageActionMap
Sent     == {"xyc", "PING", "chat"}               \* what the client sends
Piece    == {"PO", "NG", "chat"}                  \* what the server sends, as recv
Pong     == <<"PO", "NG">>                        \* may cut it

(* What becomes of a connected handle: alive, half-closed or reset by the  *)
(* peer, or left open by a peer that vanished.                             *)
Connected == {"up", "fin", "reset", "vanished"}
ConnState == {"free", "created"} \cup Connected

ConnectLabel    == {"c_lock", "c_open", "c_connect", "c_threads", "c_stamp",
                    "c_flag", "c_print"}
SendLabel       == {"s_check", "s_lock", "s_send"}
DisconnectLabel == {"d_lock", "d_close", "d_print"}
MainLabel  == {"m_receive", "m_print", "m_window", "m_idle"}
RecvLabel  == {"r_loop", "r_select", "r_isset", "r_recv", "r_deliver"}
HeartLabel == {"h_init", "h_check", "h_time", "h_flag", "h_stamp", "h_unack",
               "h_sleep"}
StopLabel  == {"exited", "aborted"}
Label == ConnectLabel \cup SendLabel \cup DisconnectLabel \cup MainLabel
         \cup RecvLabel \cup HeartLabel \cup StopLabel \cup {"off"}

VARIABLES
  pc,                \* where each thread is
  ret,               \* where its Disconnect returns to, "off" outside it
  msg,               \* the buffer it passes to SendMessageData
  socket_mutex,      \* the owner, or NoThread
  send_mutex,
  sock_cache,
  server_connected,
  server_connecting,
  heart_received,
  sendAge,           \* ticks since last_send_time, up to HEART_SECOND
  nowAge,            \* ticks since heart read `now`, 0 when not in use
  readfds,           \* the handle in recv's fd_set
  MessageActionMap,  \* the events that have a handler
  conn,              \* per handle: its ConnState
  inbox,             \* per handle: pieces of texts to be read
  pings,             \* per handle: PINGs the server has to answer
  authorized,        \* per handle: times "xyc" was sent, up to 2
  wsa                \* Winsock's count of WSAStartup calls

guarded == <<socket_mutex, server_connecting>>
sock    == <<sock_cache, wsa>>
manager == <<guarded, send_mutex, sock, server_connected>>
beat    == <<heart_received, sendAge, nowAge>>
net     == <<conn, inbox, pings, authorized>>
rest    == <<readfds, MessageActionMap>>
shared  == <<manager, beat, net, rest>>
vars    == <<pc, ret, msg, shared>>

ThreadTypeOK ==
  /\ pc \in [Thread -> Label]
  /\ ret \in [Thread -> Label]
  /\ msg \in [Thread -> Sent]

ManagerTypeOK ==
  /\ socket_mutex \in Thread \cup {NoThread}
  /\ send_mutex \in Thread \cup {NoThread}
  /\ sock_cache \in Handle \cup {INVALID_SOCKET}
  /\ server_connected \in BOOLEAN
  /\ server_connecting \in BOOLEAN
  /\ heart_received \in BOOLEAN
  /\ readfds \in Handle \cup {INVALID_SOCKET}
  /\ MessageActionMap \subseteq Event

ClockTypeOK == sendAge \in 0..HEART_SECOND /\ nowAge \in 0..HEART_SECOND

NetTypeOK ==
  /\ conn \in [Handle -> ConnState]
  /\ inbox \in [Handle -> Seq(Piece)]
  /\ pings \in [Handle -> 0..MaxPings]
  /\ authorized \in [Handle -> 0..2]
  /\ wsa \in Nat

TypeOK == ThreadTypeOK /\ ManagerTypeOK /\ ClockTypeOK /\ NetTypeOK

(* wWinMain enters ConnectServer; the two other threads do not exist yet.  *)
Init ==
  /\ pc = [t \in Thread |-> IF t = "main" THEN "c_lock" ELSE "off"]
  /\ ret = [t \in Thread |-> "off"]
  /\ msg = [t \in Thread |-> IF t = "heart" THEN "PING" ELSE "xyc"]
  /\ socket_mutex = NoThread
  /\ send_mutex = NoThread
  /\ sock_cache = INVALID_SOCKET
  /\ server_connected = FALSE
  /\ server_connecting = FALSE
  /\ heart_received = TRUE
  /\ sendAge = 0
  /\ nowAge = 0
  /\ readfds = INVALID_SOCKET
  /\ MessageActionMap = {}
  /\ conn = [h \in Handle |-> "free"]
  /\ inbox = [h \in Handle |-> <<>>]
  /\ pings = [h \in Handle |-> 0]
  /\ authorized = [h \in Handle |-> 0]
  /\ wsa = 0

HasSocket == sock_cache # INVALID_SOCKET
AtMost(n, bound) == IF n > bound THEN bound ELSE n

Goto(t, l) == pc' = [pc EXCEPT ![t] = l] /\ UNCHANGED <<ret, msg>>

Step(t, from, to) == pc[t] = from /\ Goto(t, to)
Quiet(t, from, to) == Step(t, from, to) /\ UNCHANGED shared

CallSend(t, m) ==
  /\ pc' = [pc EXCEPT ![t] = "s_check"]
  /\ msg' = [msg EXCEPT ![t] = m]
  /\ UNCHANGED ret

CallDisconnect(t, l) ==
  /\ pc' = [pc EXCEPT ![t] = "d_lock"]
  /\ ret' = [ret EXCEPT ![t] = l]
  /\ UNCHANGED msg

(* TiggerMessageAction: both handlers end in SetWindowText on a window of  *)
(* main.  From another thread it returns only once main is back in its     *)
(* message loop; before the window exists it returns at once.              *)
WindowUp ==
  \/ pc["main"] = "m_idle"
  \/ pc["main"] \in SendLabel /\ msg["main"] = "chat"

WaitsForWindow(t, e) ==
  /\ e \in MessageActionMap
  /\ t # "main"
  /\ WindowUp
  /\ pc["main"] # "m_idle"

-----------------------------------------------------------------------------
(* SendMessageData: the socket is checked before send_mutex is taken and   *)
(* read again by send.  Every caller ignores the result.                   *)
AfterSend(m) ==
  CASE m = "xyc"  -> "c_threads"
    [] m = "PING" -> "h_stamp"
    [] m = "chat" -> "m_idle"

SendCheck(t) ==
  /\ pc[t] = "s_check"
  /\ Goto(t, IF HasSocket THEN "s_lock" ELSE AfterSend(msg[t]))
  /\ UNCHANGED shared

SendLock(t) ==
  /\ Step(t, "s_lock", "s_send")
  /\ send_mutex = NoThread /\ send_mutex' = t
  /\ UNCHANGED <<guarded, sock, server_connected, beat, net, rest>>

Sendable == HasSocket /\ conn[sock_cache] \in {"up", "fin", "vanished"}

Transmit(h, m) ==
  /\ authorized' = IF m = "xyc"
       THEN [authorized EXCEPT ![h] = AtMost(@ + 1, 2)] ELSE authorized
  /\ pings' = IF m = "PING" /\ conn[h] = "up"
       THEN [pings EXCEPT ![h] = AtMost(@ + 1, MaxPings)] ELSE pings

(* The lock goes out of scope.                                             *)
(* Mutant: it is unlocked by hand, and not when send fails.                *)
UnlockIfSent == send_mutex' = IF Sendable THEN NoThread ELSE send_mutex
UnlockSend   == send_mutex' = NoThread

SendNow(t) ==
  /\ Step(t, "s_send", AfterSend(msg[t]))
  /\ IF Sendable THEN Transmit(sock_cache, msg[t])
                 ELSE UNCHANGED <<authorized, pings>>
  /\ UnlockSend
  /\ UNCHANGED <<guarded, sock, server_connected, beat, conn, inbox, rest>>

(* Mutant: the connection is not authorized.                               *)
SendNothing(t)          == Goto(t, "c_threads")
SendAuthorizeMessage(t) == CallSend(t, "xyc")

-----------------------------------------------------------------------------
(* ConnectServer holds socket_mutex from its first line to its return.     *)
(* Mutant: the mutex is not taken.                                         *)
NoLock(t)     == UNCHANGED socket_mutex
LockSocket(t) == socket_mutex = NoThread /\ socket_mutex' = t

ConnectLock(t) ==
  /\ Step(t, "c_lock", "c_open")
  /\ LockSocket(t)
  /\ server_connecting' = TRUE
  /\ UNCHANGED <<send_mutex, sock, server_connected, beat, net, rest>>

(* Mutant: server_connecting = false is forgotten.                         *)
UnlockOnly == socket_mutex' = NoThread /\ UNCHANGED server_connecting
Unlock     == socket_mutex' = NoThread /\ server_connecting' = FALSE

(* return true: main goes on to register its handlers, Reconnect returns   *)
(* to the loop of ReceiveMessage.                                          *)
ReturnConnected(t) ==
  /\ Unlock
  /\ Goto(t, IF t = "main" THEN "m_receive" ELSE "r_loop")

(* return false: main exits, which runs OnDestroy, and Reconnect goes on:  *)
(* both call Disconnect.                                                   *)
ReturnFailed(t) ==
  /\ Unlock
  /\ CallDisconnect(t, IF t = "main" THEN "exited" ELSE "r_loop")

NewSocket(t, h) ==
  /\ conn[h] = "free"
  /\ conn' = [conn EXCEPT ![h] = "created"]
  /\ sock_cache' = h
  /\ wsa' = wsa + 1
  /\ Goto(t, "c_connect")
  /\ UNCHANGED <<guarded, inbox, pings, authorized>>

(* WSAStartup and socket; when socket fails WSACleanup undoes WSAStartup.  *)
OpenSocket(t) ==
  /\ pc[t] = "c_open"
  /\ IF HasSocket
     THEN ReturnConnected(t) /\ UNCHANGED <<sock, net>>
     ELSE \/ \E h \in Handle : NewSocket(t, h)
          \/ ReturnFailed(t) /\ UNCHANGED <<sock, net>>
  /\ UNCHANGED <<send_mutex, server_connected, beat, rest>>

Connect(t) ==
  /\ pc[t] = "c_connect"
  /\ conn' = [conn EXCEPT ![sock_cache] = "up"]
  /\ server_connected' = TRUE
  /\ SendAuthorizeMessage(t)
  /\ UNCHANGED <<guarded, send_mutex, sock, beat, inbox, pings, authorized,
                 rest>>

(* ioctlsocket or connect fails: the socket stays open.                    *)
ConnectFails(t) ==
  /\ pc[t] = "c_connect"
  /\ ReturnFailed(t)
  /\ UNCHANGED <<send_mutex, sock, server_connected, beat, net, rest>>

StartThreads(t) ==
  /\ pc[t] = "c_threads"
  /\ pc' = [u \in Thread |-> IF u = t THEN "c_stamp"
                             ELSE IF pc[u] # "off" THEN pc[u]
                             ELSE IF u = "recv" THEN "r_loop" ELSE "h_init"]
  /\ UNCHANGED <<ret, msg, shared>>

ConnectStamp(t) ==
  /\ Step(t, "c_stamp", "c_flag")
  /\ sendAge' = 0
  /\ UNCHANGED <<manager, heart_received, nowAge, net, rest>>

(* Mutant: a new connection inherits heart_received.                       *)
InheritFlag == UNCHANGED heart_received
TrustPeer   == heart_received' = TRUE

ConnectFlag(t) ==
  /\ Step(t, "c_flag", "c_print")
  /\ TrustPeer
  /\ UNCHANGED <<manager, sendAge, nowAge, net, rest>>

ConnectPrint(t) ==
  /\ pc[t] = "c_print"
  /\ ~WaitsForWindow(t, "OnPrintMessage")
  /\ ReturnConnected(t)
  /\ UNCHANGED <<send_mutex, sock, server_connected, beat, net, rest>>

-----------------------------------------------------------------------------
(* Disconnect, under socket_mutex.                                         *)
(* Mutant: server_connected stays TRUE.                                    *)
KeepConnected    == UNCHANGED server_connected
MarkDisconnected == server_connected' = FALSE

DisconnectLock(t) ==
  /\ Step(t, "d_lock", "d_close")
  /\ LockSocket(t)
  /\ MarkDisconnected
  /\ UNCHANGED <<server_connecting, send_mutex, sock, beat, net, rest>>

(* Mutant: the handle is forgotten and not closed.                         *)
ForgetSocket(h) == UNCHANGED net

CloseSocket(h) ==
  /\ conn' = [conn EXCEPT ![h] = "free"]
  /\ inbox' = [inbox EXCEPT ![h] = <<>>]
  /\ pings' = [pings EXCEPT ![h] = 0]
  /\ authorized' = [authorized EXCEPT ![h] = 0]

(* Called with or without a socket; at 0 it fails.                         *)
(* Mutant: only a Disconnect that finds no socket calls it.                *)
WSACleanupLate == wsa' = IF HasSocket \/ wsa = 0 THEN wsa ELSE wsa - 1
WSACleanup     == wsa' = IF wsa = 0 THEN 0 ELSE wsa - 1

DisconnectClose(t) ==
  /\ Step(t, "d_close", "d_print")
  /\ IF HasSocket THEN CloseSocket(sock_cache) ELSE UNCHANGED net
  /\ sock_cache' = INVALID_SOCKET
  /\ WSACleanup
  /\ UNCHANGED <<guarded, send_mutex, server_connected, beat, rest>>

DisconnectPrint(t) ==
  /\ pc[t] = "d_print"
  /\ ~WaitsForWindow(t, "OnPrintMessage")
  /\ socket_mutex' = NoThread
  /\ pc' = [pc EXCEPT ![t] = ret[t]]
  /\ ret' = [ret EXCEPT ![t] = "off"]
  /\ UNCHANGED msg
  /\ UNCHANGED <<server_connecting, send_mutex, sock, server_connected, beat,
                 net, rest>>

-----------------------------------------------------------------------------
(* main: wWinMain and its window.                                          *)
RegisterMessageEvent(e, from, to) ==
  /\ Step("main", from, to)
  /\ MessageActionMap' = MessageActionMap \cup {e}
  /\ UNCHANGED <<manager, beat, net, readfds>>

WindowCreated == Quiet("main", "m_window", "m_idle")

(* CreateWindowEx fails: wWinMain returns, OnDestroy calls Disconnect, and *)
(* destroying two threads that were never joined aborts the program.       *)
WindowFails ==
  /\ pc["main"] = "m_window"
  /\ CallDisconnect("main", "aborted")
  /\ UNCHANGED shared

(* Mutant: an empty input is sent too.                                     *)
EmptyInput == ""
InputText  == "chat"

(* The user presses Return on a text.                                      *)
ProcessInput ==
  /\ pc["main"] = "m_idle"
  /\ CallSend("main", InputText)
  /\ UNCHANGED shared

(* ExitProcess: the other threads stop where they are.                     *)
OnWindowClose == Quiet("main", "m_idle", "exited")

StartWindow ==
  \/ RegisterMessageEvent("ReceiveMessage", "m_receive", "m_print")
  \/ RegisterMessageEvent("OnPrintMessage", "m_print", "m_window")
  \/ WindowCreated

WWinMain == StartWindow \/ WindowFails \/ ProcessInput \/ OnWindowClose

-----------------------------------------------------------------------------
(* recv: ReceiveMessage and Reconnect.  A turn of the loop that finds      *)
(* server_connecting TRUE changes nothing and is left out.                 *)
(* Mutant: only recv's own errors lead to Reconnect.                       *)
NextTurnWaits == IF HasSocket THEN "r_select" ELSE "r_loop"
NextTurn      == IF HasSocket THEN "r_select" ELSE "c_lock"

ReceiveTurn ==
  /\ Step("recv", "r_loop", NextTurn)
  /\ ~server_connecting
  /\ readfds' = sock_cache
  /\ UNCHANGED <<manager, beat, net, MessageActionMap>>

Readable(h) == inbox[h] # <<>> \/ conn[h] \in {"fin", "reset"}

(* select: readable, or else a timeout or the error of a closed handle.    *)
Select ==
  Quiet("recv", "r_select", IF Readable(readfds) THEN "r_isset" ELSE "r_loop")

IsSet ==
  Quiet("recv", "r_isset", IF sock_cache = readfds /\ server_connected
                           THEN "r_recv" ELSE "r_loop")

(* recv returns any prefix of what has arrived: TCP keeps the order and no *)
(* boundaries, so a read may end inside PONG.  Only a whole PONG by itself *)
(* is a heartbeat.                                                         *)
ReceiveText ==
  /\ pc["recv"] = "r_recv"
  /\ HasSocket
  /\ \E n \in 1..Len(inbox[sock_cache]) :
       LET text == inbox[sock_cache]
           str  == SubSeq(text, 1, n)
       IN  /\ inbox' = [inbox EXCEPT ![sock_cache] = SubSeq(text, n + 1, Len(text))]
           /\ heart_received' = (heart_received \/ str = Pong)
           /\ Goto("recv", IF str = Pong THEN "r_loop" ELSE "r_deliver")
  /\ UNCHANGED <<manager, sendAge, nowAge, conn, pings, authorized, rest>>

(* recv returns 0 or fails: Disconnect, then Reconnect.                    *)
(* Mutant: Reconnect without the Disconnect.                               *)
ReconnectNow == Goto("recv", "c_lock")
StartOver    == CallDisconnect("recv", "c_lock")

ReceiveEnds ==
  /\ pc["recv"] = "r_recv"
  /\ HasSocket => inbox[sock_cache] = <<>> /\ Readable(sock_cache)
  /\ StartOver
  /\ UNCHANGED shared

DeliverText ==
  /\ ~WaitsForWindow("recv", "ReceiveMessage")
  /\ Quiet("recv", "r_deliver", "r_loop")

ReceiveMessage ==
  ReceiveTurn \/ Select \/ IsSet \/ ReceiveText \/ ReceiveEnds \/ DeliverText

-----------------------------------------------------------------------------
(* heart: SendHeartThread.                                                 *)
HeartReset == sendAge' = 0 /\ heart_received' = TRUE

HeartInit ==
  /\ Step("heart", "h_init", "h_check")
  /\ HeartReset
  /\ UNCHANGED <<manager, nowAge, net, rest>>

HeartCheck ==
  /\ IF ~HasSocket \/ ~server_connected \/ server_connecting
     THEN Step("heart", "h_check", "h_check") /\ HeartReset
     ELSE Step("heart", "h_check", "h_time") /\ UNCHANGED <<sendAge, heart_received>>
  /\ UNCHANGED <<manager, nowAge, net, rest>>

HeartTime ==
  Quiet("heart", "h_time", IF sendAge >= HEART_SECOND THEN "h_flag" ELSE "h_sleep")

HeartPing ==
  /\ pc["heart"] = "h_flag"
  /\ heart_received
  /\ CallSend("heart", "PING")
  /\ UNCHANGED shared

(* Mutant: heart reconnects by itself.                                     *)
HeartReopens == CallDisconnect("heart", "c_lock")
HeartCloses  == CallDisconnect("heart", "h_check")

HeartTimesOut ==
  /\ pc["heart"] = "h_flag"
  /\ ~heart_received
  /\ nowAge' = 0
  /\ HeartCloses
  /\ UNCHANGED <<manager, heart_received, sendAge, net, rest>>

(* last_send_time = now, the time that was read before the PING was sent.  *)
HeartStamp ==
  /\ Step("heart", "h_stamp", "h_unack")
  /\ sendAge' = nowAge
  /\ nowAge' = 0
  /\ UNCHANGED <<manager, heart_received, net, rest>>

(* Mutant: the answer to a PING is not waited for.                         *)
NoWait    == UNCHANGED heart_received
AwaitPong == heart_received' = FALSE

HeartUnack ==
  /\ Step("heart", "h_unack", "h_sleep")
  /\ AwaitPong
  /\ UNCHANGED <<manager, sendAge, nowAge, net, rest>>

HeartWakes == Quiet("heart", "h_sleep", "h_check")

SendHeartThread ==
  \/ HeartInit \/ HeartCheck \/ HeartTime \/ HeartPing \/ HeartTimesOut
  \/ HeartStamp \/ HeartUnack \/ HeartWakes

(* The clock.  heart's `now` is in use until last_send_time is set to it.  *)
NowInUse == pc["heart"] \in {"h_flag", "h_stamp"} \cup SendLabel

Tick ==
  /\ sendAge' = AtMost(sendAge + 1, HEART_SECOND)
  /\ nowAge' = IF NowInUse THEN AtMost(nowAge + 1, HEART_SECOND) ELSE nowAge
  /\ UNCHANGED <<pc, ret, msg, manager, heart_received, net, rest>>

-----------------------------------------------------------------------------
(* The chat server and the network (external).                             *)
ServerText(h) ==
  /\ conn[h] = "up"
  /\ Len(inbox[h]) < MaxInbox
  /\ inbox' = [inbox EXCEPT ![h] = Append(@, "chat")]
  /\ UNCHANGED <<conn, pings>>

ServerPong(h) ==
  /\ conn[h] = "up"
  /\ pings[h] > 0
  /\ inbox' = [inbox EXCEPT ![h] = @ \o Pong]
  /\ pings' = [pings EXCEPT ![h] = @ - 1]
  /\ UNCHANGED conn

(* A reset discards what was not read yet.                                 *)
PeerFails(h, state) ==
  /\ conn[h] = "up"
  /\ conn' = [conn EXCEPT ![h] = state]
  /\ inbox' = IF state = "reset" THEN [inbox EXCEPT ![h] = <<>>] ELSE inbox
  /\ pings' = [pings EXCEPT ![h] = 0]

Server ==
  /\ \E h \in Handle :
       \/ ServerText(h)
       \/ ServerPong(h)
       \/ \E state \in {"fin", "reset", "vanished"} : PeerFails(h, state)
  /\ UNCHANGED <<pc, ret, msg, manager, beat, authorized, rest>>

-----------------------------------------------------------------------------
ConnectServer(t) ==
  \/ ConnectLock(t) \/ OpenSocket(t) \/ Connect(t) \/ ConnectFails(t)
  \/ StartThreads(t) \/ ConnectStamp(t) \/ ConnectFlag(t) \/ ConnectPrint(t)

SendMessageData(t) == SendCheck(t) \/ SendLock(t) \/ SendNow(t)

Disconnect(t) == DisconnectLock(t) \/ DisconnectClose(t) \/ DisconnectPrint(t)

Stopped == pc["main"] \in StopLabel

(* The process is gone and takes no step any more.                         *)
Terminated == Stopped /\ UNCHANGED vars

Running ==
  /\ ~Stopped
  /\ \/ \E t \in Thread : ConnectServer(t) \/ SendMessageData(t) \/ Disconnect(t)
     \/ WWinMain
     \/ ReceiveMessage
     \/ SendHeartThread
     \/ Tick
     \/ Server

Next == Running \/ Terminated

Spec == Init /\ [][Next]_vars

(* What a thread does by itself; the user's actions are not among it.      *)
StepOf(t) ==
  \/ ConnectServer(t) \/ SendMessageData(t) \/ Disconnect(t)
  \/ t = "main" /\ (StartWindow \/ WindowFails)
  \/ t = "recv" /\ ReceiveMessage
  \/ t = "heart" /\ SendHeartThread

(* The steps other threads keep disabling: what send_mutex or main's       *)
(* message loop has to let through.                                        *)
TakesTurn(t) ==
  \/ SendLock(t) \/ ConnectPrint(t) \/ DisconnectPrint(t)
  \/ t = "recv" /\ DeliverText

(* Threads are scheduled and the clock runs; send_mutex and the message    *)
(* loop starve nobody; and socket and connect do not fail forever.         *)
Fairness ==
  /\ \A t \in Thread : WF_vars(~Stopped /\ StepOf(t))
  /\ \A t \in Thread : SF_vars(~Stopped /\ TakesTurn(t))
  /\ WF_vars(~Stopped /\ Tick)
  /\ SF_vars(~Stopped /\ OpenSocket("recv") /\ HasSocket')
  /\ SF_vars(~Stopped /\ Connect("recv"))

FairSpec == Spec /\ Fairness

-----------------------------------------------------------------------------
(* Safety.                                                                 *)

(* Winsock is initialised exactly while the client has a socket, although  *)
(* recv and heart may both call Disconnect for one connection and          *)
(* Reconnect calls it after every kind of failed ConnectServer: the count  *)
(* never stays up and never drops under a socket in use.                   *)
WinsockBalance == wsa = IF HasSocket THEN 1 ELSE 0

(* Every handle the system has open is the one in sock_cache: no failed    *)
(* connect and no reconnect leaves a socket behind.                        *)
NoSocketLeak == \A h \in Handle : conn[h] # "free" => sock_cache = h

(* server_connected is never seen TRUE without a socket, or with one that  *)
(* was never connected, by a thread that reads both without the lock.      *)
ConnectedHasSocket ==
  server_connected => HasSocket /\ conn[sock_cache] \in Connected

(* ConnectServer's early "sock_cache valid" return is never taken: whoever *)
(* gets the lock for it finds no socket, so that a reconnect never takes a *)
(* dead or half-made socket for a connection.                              *)
FreshSocketOnConnect == \A t \in Thread : pc[t] = "c_open" => ~HasSocket

(* ReceiveMessage calls the blocking recv with a valid handle only if it   *)
(* is the one select reported and there is still something to read: the    *)
(* thread never hangs in recv, although heart may close sock_cache between *)
(* select, FD_ISSET and recv.                                              *)
NeverBlocksInRecv ==
  pc["recv"] = "r_recv" /\ HasSocket =>
    sock_cache = readfds /\ Readable(sock_cache)

(* A connection is authorized at most once; and outside ConnectServer a    *)
(* connection in use has been, unless the peer reset it.                   *)
AuthorizedOnce ==
  /\ \A h \in Handle : authorized[h] <= 1
  /\ server_connected /\ socket_mutex = NoThread =>
       authorized[sock_cache] = 1 \/ conn[sock_cache] = "reset"

(* t cannot go on before u does: u owns the mutex t wants, or u is main    *)
(* and t runs a handler that waits for main's message loop.                *)
Waits(t, u) ==
  \/ pc[t] = "s_lock" /\ send_mutex = u
  \/ pc[t] \in {"c_lock", "d_lock"} /\ socket_mutex = u
  \/ /\ u = "main"
     /\ \/ pc[t] \in {"c_print", "d_print"} /\ WaitsForWindow(t, "OnPrintMessage")
        \/ pc[t] = "r_deliver" /\ WaitsForWindow(t, "ReceiveMessage")

(* No set of threads waits only for its own members: socket_mutex, held    *)
(* while ConnectServer takes send_mutex and while a handler waits for the  *)
(* window, and send_mutex, which main takes, never deadlock.               *)
NoWaitCycle ==
  \A T \in SUBSET Thread :
    T # {} => \E t \in T : \A u \in T : ~Waits(t, u)

-----------------------------------------------------------------------------
(* Liveness, under FairSpec.                                               *)

(* Without a socket, whichever thread closed it and wherever the others    *)
(* were, the client is connected again.                                    *)
Reconnects == ~HasSocket ~> (server_connected \/ Stopped)

(* A connection whose peer vanished without a word does not stay open:     *)
(* PING and the missing PONG find it out.                                  *)
SilentPeerDropped ==
  \A h \in Handle : conn[h] = "vanished" ~> (conn[h] # "vanished" \/ Stopped)

(* After Return on a text the window answers again: ProcessInput comes     *)
(* back although PING and "xyc" use send_mutex too.                        *)
InputReturns ==
  (pc["main"] \in SendLabel /\ msg["main"] = "chat") ~> pc["main"] = "m_idle"

-----------------------------------------------------------------------------
(* The manager implements Session.                                         *)
phase ==
  IF ~HasSocket THEN "down"
  ELSE IF server_connected THEN "usable"
  ELSE IF server_connecting THEN "opening"
  ELSE "closing"

greeted == IF HasSocket THEN authorized[sock_cache] ELSE 0

S == INSTANCE Session WITH phase <- phase, greeted <- greeted

(* Three threads that connect, send, close and reconnect with two mutexes  *)
(* and unlocked flags behave like one session after the other: never two   *)
(* at a time, never a second "xyc", never usable before it is connected,   *)
(* never opened again before it is closed.                                 *)
OneSession == S!Spec
=============================================================================
