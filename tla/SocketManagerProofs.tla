------------------------ MODULE SocketManagerProofs ------------------------
(***************************************************************************)
(* Theorems about SocketManager, for any handles and any bounds.           *)
(***************************************************************************)
EXTENDS SocketManager, SequenceTheorems, TLAPS

USE DEF guarded, sock, manager, beat, net, rest, shared,
        Step, Quiet, SendAuthorizeMessage, LockSocket, UnlockSend,
        MarkDisconnected, WSACleanup, TrustPeer, NextTurn, StartOver,
        HeartCloses, AwaitPong, InputText

(* The steps of Next, one by one.                                          *)
LEMMA NextCases ==
  ASSUME Next
  PROVE  \/ \E t \in Thread : ConnectServer(t) \/ SendMessageData(t) \/ Disconnect(t)
         \/ WWinMain
         \/ ReceiveMessage
         \/ SendHeartThread
         \/ Tick
         \/ Server
         \/ UNCHANGED vars
  BY DEF Next, Running, Terminated

(* The labels that threads go to are labels.                               *)
LEMMA Labels ==
  /\ {"s_check", "s_lock", "s_send", "d_lock", "d_close", "d_print", "off"} \subseteq Label
  /\ {"c_lock", "c_open", "c_connect", "c_threads", "c_stamp", "c_flag",
      "c_print"} \subseteq Label
  /\ {"m_receive", "m_print", "m_window", "m_idle", "exited", "aborted"} \subseteq Label
  /\ {"r_loop", "r_select", "r_isset", "r_recv", "r_deliver"} \subseteq Label
  /\ {"h_init", "h_check", "h_time", "h_flag", "h_stamp", "h_unack",
      "h_sleep"} \subseteq Label
  BY DEF Label, ConnectLabel, StopLabel, MainLabel, RecvLabel, HeartLabel,
     SendLabel, DisconnectLabel

(* The three threads.                                                      *)
LEMMA Threads == Thread = {"main", "recv", "heart"}
  BY DEF Thread

-----------------------------------------------------------------------------
(* Type correctness: one lemma for each part of the state.                 *)

(* The initial state is typed.                                             *)
LEMMA TypeInit == Init => TypeOK
<1> SUFFICES ASSUME Init PROVE TypeOK
  OBVIOUS
<1>1. ThreadTypeOK
  BY Labels DEF Init, ThreadTypeOK, Sent
<1>2. ManagerTypeOK
  BY ConstantAssumption DEF Init, ManagerTypeOK
<1>3. ClockTypeOK
  BY ConstantAssumption DEF Init, ClockTypeOK
<1>4. NetTypeOK
  BY ConstantAssumption DEF Init, NetTypeOK, ConnState
<1> QED
  BY <1>1, <1>2, <1>3, <1>4 DEF TypeOK

(* Each thread stays at a label, whatever moves it.                        *)
LEMMA ThreadTypeStep ==
  ASSUME ThreadTypeOK, [Next]_vars
  PROVE  ThreadTypeOK'
<1> USE Labels, Threads DEF ThreadTypeOK, Goto, CallSend, CallDisconnect, Sent
<1>1. ASSUME NEW t \in Thread, SendMessageData(t)
      PROVE  ThreadTypeOK'
  BY <1>1 DEF SendMessageData, SendCheck, SendLock, SendNow, AfterSend
<1>2. ASSUME NEW t \in Thread, ConnectServer(t)
      PROVE  ThreadTypeOK'
  <2> USE DEF ReturnConnected, ReturnFailed
  <2>1. CASE ConnectLock(t) \/ Connect(t) \/ ConnectFails(t)
    BY <2>1 DEF ConnectLock, Connect, ConnectFails
  <2>2. CASE OpenSocket(t)
    <3>1. CASE ReturnConnected(t) \/ ReturnFailed(t)
      BY <3>1
    <3>2. CASE \E h \in Handle : NewSocket(t, h)
      BY <3>2 DEF NewSocket
    <3> QED
      BY <2>2, <3>1, <3>2 DEF OpenSocket
  <2>3. CASE StartThreads(t)
    BY <2>3 DEF StartThreads
  <2>4. CASE ConnectStamp(t) \/ ConnectFlag(t) \/ ConnectPrint(t)
    BY <2>4 DEF ConnectStamp, ConnectFlag, ConnectPrint
  <2> QED
    BY <1>2, <2>1, <2>2, <2>3, <2>4 DEF ConnectServer
<1>3. ASSUME NEW t \in Thread, Disconnect(t)
      PROVE  ThreadTypeOK'
  BY <1>3 DEF Disconnect, DisconnectLock, DisconnectClose, DisconnectPrint
<1>4. CASE WWinMain
  <2>1. CASE StartWindow
    <3>1. pc' = [pc EXCEPT !["main"] = "m_print"]
          \/ pc' = [pc EXCEPT !["main"] = "m_window"]
          \/ pc' = [pc EXCEPT !["main"] = "m_idle"]
      BY <2>1 DEF StartWindow, RegisterMessageEvent, WindowCreated
    <3>2. UNCHANGED <<ret, msg>>
      BY <2>1 DEF StartWindow, RegisterMessageEvent, WindowCreated
    <3> QED
      BY <3>1, <3>2
  <2>2. CASE WindowFails \/ ProcessInput \/ OnWindowClose
    BY <2>2 DEF WindowFails, ProcessInput, OnWindowClose
  <2> QED
    BY <1>4, <2>1, <2>2 DEF WWinMain
<1>5. CASE ReceiveMessage
  BY <1>5 DEF ReceiveMessage, ReceiveTurn, Select, IsSet, ReceiveText,
     ReceiveEnds, DeliverText
<1>6. CASE SendHeartThread
  BY <1>6 DEF SendHeartThread, HeartInit, HeartCheck, HeartTime, HeartPing,
     HeartTimesOut, HeartStamp, HeartUnack, HeartWakes
<1>7. CASE Tick \/ Server
  BY <1>7 DEF Tick, Server
<1>8. CASE UNCHANGED vars
  BY <1>8 DEF vars
<1> QED
  BY <1>1, <1>2, <1>3, <1>4, <1>5, <1>6, <1>7, <1>8, NextCases

(* So do the manager's own fields.                                         *)
LEMMA ManagerTypeStep ==
  ASSUME ManagerTypeOK, [Next]_vars
  PROVE  ManagerTypeOK'
<1> USE DEF ManagerTypeOK
<1>1. ASSUME NEW t \in Thread, SendMessageData(t)
      PROVE  ManagerTypeOK'
  BY <1>1 DEF SendMessageData, SendCheck, SendLock, SendNow
<1>2. ASSUME NEW t \in Thread, ConnectServer(t)
      PROVE  ManagerTypeOK'
  <2> USE DEF ReturnConnected, ReturnFailed, Unlock
  <2>1. CASE ConnectLock(t) \/ Connect(t) \/ ConnectFails(t)
    BY <2>1 DEF ConnectLock, Connect, ConnectFails
  <2>2. CASE OpenSocket(t)
    BY <2>2 DEF OpenSocket, NewSocket
  <2>3. CASE StartThreads(t)
    BY <2>3 DEF StartThreads
  <2>4. CASE ConnectStamp(t) \/ ConnectFlag(t) \/ ConnectPrint(t)
    BY <2>4 DEF ConnectStamp, ConnectFlag, ConnectPrint
  <2> QED
    BY <1>2, <2>1, <2>2, <2>3, <2>4 DEF ConnectServer
<1>3. ASSUME NEW t \in Thread, Disconnect(t)
      PROVE  ManagerTypeOK'
  BY <1>3 DEF Disconnect, DisconnectLock, DisconnectClose, CloseSocket,
     DisconnectPrint
<1>4. CASE WWinMain
  BY <1>4 DEF WWinMain, StartWindow, RegisterMessageEvent, WindowCreated,
     WindowFails, ProcessInput, OnWindowClose, Event
<1>5. CASE ReceiveMessage
  <2>1. CASE ReceiveText
    BY <2>1 DEF ReceiveText
  <2>2. CASE ReceiveTurn \/ Select \/ IsSet \/ ReceiveEnds \/ DeliverText
    BY <2>2 DEF ReceiveTurn, Select, IsSet, ReceiveEnds, DeliverText
  <2> QED
    BY <1>5, <2>1, <2>2 DEF ReceiveMessage
<1>6. CASE SendHeartThread
  <2>1. CASE HeartInit \/ HeartTime \/ HeartPing \/ HeartTimesOut
    BY <2>1 DEF HeartInit, HeartReset, HeartTime, HeartPing, HeartTimesOut
  <2>2. CASE HeartCheck
    BY <2>2 DEF HeartCheck, HeartReset
  <2>3. CASE HeartStamp \/ HeartUnack \/ HeartWakes
    BY <2>3 DEF HeartStamp, HeartUnack, HeartWakes
  <2> QED
    BY <1>6, <2>1, <2>2, <2>3 DEF SendHeartThread
<1>7. CASE Tick
  BY <1>7 DEF Tick
<1>8. CASE Server
  BY <1>8 DEF Server
<1>9. CASE UNCHANGED vars
  BY <1>9 DEF vars
<1> QED
  BY <1>1, <1>2, <1>3, <1>4, <1>5, <1>6, <1>7, <1>8, <1>9, NextCases

(* The ages stop at the period.                                            *)
LEMMA ClockTypeStep ==
  ASSUME ClockTypeOK, [Next]_vars
  PROVE  ClockTypeOK'
<1> USE ConstantAssumption DEF ClockTypeOK
<1>1. ASSUME NEW t \in Thread, ConnectServer(t) \/ SendMessageData(t) \/ Disconnect(t)
      PROVE  ClockTypeOK'
  <2>1. CASE ConnectServer(t)
    BY <2>1 DEF ConnectServer, ConnectLock, OpenSocket, Connect, ConnectFails,
       StartThreads, ConnectStamp, ConnectFlag, ConnectPrint
  <2>2. CASE SendMessageData(t) \/ Disconnect(t)
    BY <2>2 DEF SendMessageData, SendCheck, SendLock, SendNow, Disconnect,
       DisconnectLock, DisconnectClose, DisconnectPrint
  <2> QED
    BY <1>1, <2>1, <2>2
<1>2. CASE WWinMain
  BY <1>2 DEF WWinMain, StartWindow, RegisterMessageEvent, WindowCreated,
     WindowFails, ProcessInput, OnWindowClose
<1>3. CASE ReceiveMessage
  BY <1>3 DEF ReceiveMessage, ReceiveTurn, Select, IsSet, ReceiveText,
     ReceiveEnds, DeliverText
<1>4. CASE SendHeartThread
  BY <1>4 DEF SendHeartThread, HeartInit, HeartCheck, HeartReset, HeartTime,
     HeartPing, HeartTimesOut, HeartStamp, HeartUnack, HeartWakes
<1>5. CASE Tick \/ Server \/ UNCHANGED vars
  BY <1>5 DEF vars, Tick, AtMost, Server
<1> QED
  BY <1>1, <1>2, <1>3, <1>4, <1>5, NextCases

(* And the network's: recv and the server keep unread texts a sequence.    *)
LEMMA NetTypeStep ==
  ASSUME ThreadTypeOK, ManagerTypeOK, NetTypeOK, [Next]_vars
  PROVE  NetTypeOK'
<1> USE ConstantAssumption DEF NetTypeOK
<1>1. ASSUME NEW t \in Thread, SendMessageData(t)
      PROVE  NetTypeOK'
  <2>1. ASSUME NEW h \in Handle, Transmit(h, msg[t])
        PROVE  authorized' \in [Handle -> 0..2] /\ pings' \in [Handle -> 0..MaxPings]
    <3>1. AtMost(authorized[h] + 1, 2) \in 0..2 /\ AtMost(pings[h] + 1, MaxPings) \in 0..MaxPings
      BY DEF AtMost
    <3>2. authorized' \in [Handle -> 0..2]
      BY <2>1, <3>1 DEF Transmit
    <3>3. pings' \in [Handle -> 0..MaxPings]
      BY <2>1, <3>1 DEF Transmit
    <3> QED
      BY <3>2, <3>3
  <2>2. CASE SendNow(t)
    BY <2>1, <2>2 DEF SendNow, Sendable, HasSocket, ManagerTypeOK
  <2>3. CASE SendCheck(t) \/ SendLock(t)
    BY <2>3 DEF SendCheck, SendLock
  <2> QED
    BY <1>1, <2>2, <2>3 DEF SendMessageData
<1>2. ASSUME NEW t \in Thread, ConnectServer(t)
      PROVE  NetTypeOK'
  <2>1. CASE Connect(t)
    BY <2>1 DEF Connect, ConnState, Connected
  <2>2. CASE OpenSocket(t)
    <3>1. CASE \E h \in Handle : NewSocket(t, h)
      BY <3>1 DEF NewSocket, ConnState
    <3>2. CASE UNCHANGED <<sock, net>>
      BY <3>2
    <3> QED
      BY <2>2, <3>1, <3>2 DEF OpenSocket
  <2>3. CASE ConnectLock(t) \/ ConnectFails(t) \/ StartThreads(t) \/ ConnectStamp(t)
             \/ ConnectFlag(t) \/ ConnectPrint(t)
    BY <2>3 DEF ConnectLock, ConnectFails, StartThreads, ConnectStamp,
       ConnectFlag, ConnectPrint
  <2> QED
    BY <1>2, <2>1, <2>2, <2>3 DEF ConnectServer
<1>3. ASSUME NEW t \in Thread, Disconnect(t)
      PROVE  NetTypeOK'
  <2>1. CASE DisconnectClose(t)
    <3>1. wsa' \in Nat
      BY <2>1 DEF DisconnectClose
    <3>2. ASSUME NEW h \in Handle, CloseSocket(h)
          PROVE  NetTypeOK'
      <4>1. conn' \in [Handle -> ConnState] /\ inbox' \in [Handle -> Seq(Piece)]
        BY <3>2 DEF CloseSocket, ConnState
      <4>2. pings' \in [Handle -> 0..MaxPings] /\ authorized' \in [Handle -> 0..2]
        BY <3>2 DEF CloseSocket
      <4> QED
        BY <3>1, <4>1, <4>2
    <3>3. CASE UNCHANGED net
      BY <3>1, <3>3
    <3> QED
      BY <2>1, <3>2, <3>3 DEF DisconnectClose, HasSocket, ManagerTypeOK
  <2>2. CASE DisconnectLock(t) \/ DisconnectPrint(t)
    BY <2>2 DEF DisconnectLock, DisconnectPrint
  <2> QED
    BY <1>3, <2>1, <2>2 DEF Disconnect
<1>4. CASE WWinMain
  BY <1>4 DEF WWinMain, StartWindow, RegisterMessageEvent, WindowCreated,
     WindowFails, ProcessInput, OnWindowClose
<1>5. CASE ReceiveMessage
  <2>1. CASE ReceiveText
    <3>1. PICK n \in 1..Len(inbox[sock_cache]) :
            inbox' = [inbox EXCEPT ![sock_cache] =
                        SubSeq(inbox[sock_cache], n + 1, Len(inbox[sock_cache]))]
      BY <2>1 DEF ReceiveText
    <3>2. inbox[sock_cache] \in Seq(Piece)
      BY <2>1 DEF ReceiveText, HasSocket, ManagerTypeOK
    <3>3. SubSeq(inbox[sock_cache], n + 1, Len(inbox[sock_cache])) \in Seq(Piece)
      BY <3>2, SubSeqProperties
    <3>4. inbox' \in [Handle -> Seq(Piece)]
      BY <3>1, <3>3
    <3> QED
      BY <2>1, <3>4 DEF ReceiveText
  <2>2. CASE ReceiveTurn \/ Select \/ IsSet \/ ReceiveEnds \/ DeliverText
    BY <2>2 DEF ReceiveTurn, Select, IsSet, ReceiveEnds, DeliverText
  <2> QED
    BY <1>5, <2>1, <2>2 DEF ReceiveMessage
<1>6. CASE SendHeartThread
  BY <1>6 DEF SendHeartThread, HeartInit, HeartCheck, HeartTime, HeartPing,
     HeartTimesOut, HeartStamp, HeartUnack, HeartWakes
<1>7. CASE Server
  <2>1. PICK h \in Handle :
          \/ ServerText(h)
          \/ ServerPong(h)
          \/ \E state \in {"fin", "reset", "vanished"} : PeerFails(h, state)
    BY <1>7 DEF Server
  <2>2. CASE ServerText(h)
    BY <1>7, <2>2 DEF ServerText, Server, Piece
  <2>3. CASE ServerPong(h)
    BY <1>7, <2>3 DEF ServerPong, Server, Piece, Pong
  <2>4. ASSUME NEW state \in {"fin", "reset", "vanished"}, PeerFails(h, state)
        PROVE  NetTypeOK'
    BY <1>7, <2>4 DEF PeerFails, Server, ConnState, Connected
  <2> QED
    BY <2>1, <2>2, <2>3, <2>4
<1>8. CASE Tick \/ UNCHANGED vars
  BY <1>8 DEF vars, Tick
<1> QED
  BY <1>1, <1>2, <1>3, <1>4, <1>5, <1>6, <1>7, <1>8, NextCases

(* Every state of the manager is typed, whatever the handles and bounds.   *)
THEOREM TypeCorrect == Spec => []TypeOK
<1>1. TypeOK /\ [Next]_vars => TypeOK'
  BY ThreadTypeStep, ManagerTypeStep, ClockTypeStep, NetTypeStep DEF TypeOK
<1> QED
  BY <1>1, TypeInit, PTL DEF Spec
=============================================================================
