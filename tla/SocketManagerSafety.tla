------------------------- MODULE SocketManagerSafety -------------------------
(***************************************************************************)
(* IInv is inductive, so the safety properties of SocketManager hold for   *)
(* any handles and any bounds.  One lemma for each part of IInv, one step  *)
(* for each function of the program.  From it, too, that no set of threads *)
(* blocks itself, and that the manager implements Session.                 *)
(***************************************************************************)
EXTENDS SocketManagerInv, SocketManagerProofs

USE DEF guarded, sock, manager, beat, net, rest, shared,
        Goto, CallSend, CallDisconnect, Greeting, Connecting, OwnsSocket,
        Step, Quiet, SendAuthorizeMessage, LockSocket, UnlockSend,
        MarkDisconnected, WSACleanup, TrustPeer, NextTurn, StartOver,
        HeartCloses, AwaitPong, InputText, Sendable

-----------------------------------------------------------------------------
(* Every function leaves the other threads where they are and each thread  *)
(* in its own functions; StartThreads ends the time of main alone.         *)
LEMMA ThreadStep ==
  ASSUME ThreadTypeOK, ThreadInv, [Next]_vars
  PROVE  ThreadInv'
<1> USE Threads DEF ThreadTypeOK, ThreadInv, MainStarting, ConnectLabel,
      SendLabel, DisconnectLabel, MainLabel, RecvLabel, HeartLabel, StopLabel
<1>1. ASSUME NEW t \in Thread, SendMessageData(t)
      PROVE  ThreadInv'
  BY <1>1 DEF SendMessageData, SendCheck, SendLock, SendNow, AfterSend
<1>2. ASSUME NEW t \in Thread, ConnectServer(t)
      PROVE  ThreadInv'
  <2>1. CASE ConnectLock(t) \/ Connect(t) \/ ConnectFails(t)
    BY <2>1 DEF ConnectLock, Connect, ConnectFails, ReturnFailed
  <2>2. CASE OpenSocket(t)
    BY <2>2 DEF OpenSocket, NewSocket, ReturnConnected, ReturnFailed
  <2>3. CASE StartThreads(t)
    BY <2>3 DEF StartThreads
  <2>4. CASE ConnectStamp(t) \/ ConnectFlag(t) \/ ConnectPrint(t)
    BY <2>4 DEF ConnectStamp, ConnectFlag, ConnectPrint, ReturnConnected
  <2> QED
    BY <1>2, <2>1, <2>2, <2>3, <2>4 DEF ConnectServer
<1>3. ASSUME NEW t \in Thread, Disconnect(t)
      PROVE  ThreadInv'
  BY <1>3 DEF Disconnect, DisconnectLock, DisconnectClose, DisconnectPrint
<1>4. CASE WWinMain
  BY <1>4 DEF WWinMain, StartWindow, RegisterMessageEvent, WindowCreated,
     WindowFails, ProcessInput, OnWindowClose
<1>5. CASE ReceiveMessage
  BY <1>5 DEF ReceiveMessage, ReceiveTurn, Select, IsSet, ReceiveText,
     ReceiveEnds, DeliverText
<1>6. CASE SendHeartThread
  BY <1>6 DEF SendHeartThread, HeartInit, HeartCheck, HeartTime, HeartPing,
     HeartTimesOut, HeartStamp, HeartUnack, HeartWakes
<1>7. CASE Tick \/ Server \/ UNCHANGED vars
  BY <1>7 DEF vars, Tick, Server
<1> QED
  BY <1>1, <1>2, <1>3, <1>4, <1>5, <1>6, <1>7, NextCases

(* A mutex is taken only when it is free and given back by its owner.      *)
LEMMA MutexStep ==
  ASSUME ThreadTypeOK, ThreadInv, MutexInv, [Next]_vars
  PROVE  MutexInv'
<1> USE Threads DEF ThreadTypeOK, ThreadInv, MutexInv, NoThread, ConnectLabel,
      SendLabel, DisconnectLabel, MainLabel, RecvLabel, HeartLabel, StopLabel
<1>1. ASSUME NEW t \in Thread, SendMessageData(t)
      PROVE  MutexInv'
  <2>1. CASE SendCheck(t)
    BY <2>1 DEF SendCheck, AfterSend
  <2>2. CASE SendLock(t)
    BY <2>2 DEF SendLock
  <2>3. CASE SendNow(t)
    BY <2>3 DEF SendNow, AfterSend
  <2> QED
    BY <1>1, <2>1, <2>2, <2>3 DEF SendMessageData
<1>2. ASSUME NEW t \in Thread, ConnectServer(t)
      PROVE  MutexInv'
  <2> USE DEF Unlock, ReturnConnected, ReturnFailed
  <2>1. CASE ConnectLock(t)
    BY <2>1 DEF ConnectLock
  <2>2. CASE OpenSocket(t)
    BY <2>2 DEF OpenSocket, NewSocket
  <2>3. CASE Connect(t)
    BY <2>3 DEF Connect
  <2>4. CASE ConnectFails(t)
    BY <2>4 DEF ConnectFails
  <2>5. CASE StartThreads(t)
    BY <2>5 DEF StartThreads
  <2>6. CASE ConnectStamp(t) \/ ConnectFlag(t)
    BY <2>6 DEF ConnectStamp, ConnectFlag
  <2>7. CASE ConnectPrint(t)
    BY <2>7 DEF ConnectPrint
  <2> QED
    BY <1>2, <2>1, <2>2, <2>3, <2>4, <2>5, <2>6, <2>7 DEF ConnectServer
<1>3. ASSUME NEW t \in Thread, Disconnect(t)
      PROVE  MutexInv'
  <2>1. CASE DisconnectLock(t)
    BY <2>1 DEF DisconnectLock
  <2>2. CASE DisconnectClose(t)
    BY <2>2 DEF DisconnectClose
  <2>3. CASE DisconnectPrint(t)
    BY <2>3 DEF DisconnectPrint
  <2> QED
    BY <1>3, <2>1, <2>2, <2>3 DEF Disconnect
<1>4. CASE WWinMain
  BY <1>4 DEF WWinMain, StartWindow, RegisterMessageEvent, WindowCreated,
     WindowFails, ProcessInput, OnWindowClose
<1>5. CASE ReceiveMessage
  BY <1>5 DEF ReceiveMessage, ReceiveTurn, Select, IsSet, ReceiveText,
     ReceiveEnds, DeliverText
<1>6. CASE SendHeartThread
  BY <1>6 DEF SendHeartThread, HeartInit, HeartCheck, HeartTime, HeartPing,
     HeartTimesOut, HeartStamp, HeartUnack, HeartWakes
<1>7. CASE Tick \/ Server \/ UNCHANGED vars
  BY <1>7 DEF vars, Tick, Server
<1> QED
  BY <1>1, <1>2, <1>3, <1>4, <1>5, <1>6, <1>7, NextCases

-----------------------------------------------------------------------------

(* Only the owner of socket_mutex opens, connects or closes the socket, so  *)
(* what it found stays so until it is done.                                *)
LEMMA OwnerStep ==
  ASSUME TypeOK, ThreadInv, MutexInv, OwnerInv, SocketInv, [Next]_vars
  PROVE  OwnerInv'
<1> USE Threads, ConstantAssumption DEF TypeOK, ThreadTypeOK, ManagerTypeOK, NetTypeOK,
      ThreadInv, MutexInv, OwnerInv, SocketInv, WinsockBalance,
      ConnectedHasSocket, HasSocket, Connected, NoThread, MainStarting,
      ConnectLabel, SendLabel, DisconnectLabel, MainLabel, RecvLabel,
      HeartLabel, StopLabel
<1>1. ASSUME NEW t \in Thread, SendMessageData(t)
      PROVE  OwnerInv'
  BY <1>1 DEF SendMessageData, SendCheck, SendLock, SendNow, Transmit, AfterSend
<1>2. ASSUME NEW t \in Thread, ConnectServer(t)
      PROVE  OwnerInv'
  <2> USE DEF Unlock, ReturnConnected, ReturnFailed
  <2>1. CASE ConnectLock(t)
    BY <2>1 DEF ConnectLock
  <2>2. CASE OpenSocket(t)
    BY <2>2 DEF OpenSocket, NewSocket
  <2>3. CASE Connect(t)
    BY <2>3 DEF Connect
  <2>4. CASE ConnectFails(t)
    BY <2>4 DEF ConnectFails
  <2>5. CASE StartThreads(t)
    BY <2>5 DEF StartThreads
  <2>6. CASE ConnectStamp(t) \/ ConnectFlag(t) \/ ConnectPrint(t)
    BY <2>6 DEF ConnectStamp, ConnectFlag, ConnectPrint
  <2> QED
    BY <1>2, <2>1, <2>2, <2>3, <2>4, <2>5, <2>6 DEF ConnectServer
<1>3. ASSUME NEW t \in Thread, Disconnect(t)
      PROVE  OwnerInv'
  <2>1. CASE DisconnectLock(t)
    BY <2>1 DEF DisconnectLock
  <2>2. CASE DisconnectClose(t)
    BY <2>2 DEF DisconnectClose, CloseSocket
  <2>3. CASE DisconnectPrint(t)
    BY <2>3 DEF DisconnectPrint
  <2> QED
    BY <1>3, <2>1, <2>2, <2>3 DEF Disconnect
<1>4. CASE WWinMain
  BY <1>4 DEF WWinMain, StartWindow, RegisterMessageEvent, WindowCreated,
     WindowFails, ProcessInput, OnWindowClose
<1>5. CASE ReceiveMessage
  BY <1>5 DEF ReceiveMessage, ReceiveTurn, Select, IsSet, ReceiveText,
     ReceiveEnds, DeliverText
<1>6. CASE SendHeartThread
  BY <1>6 DEF SendHeartThread, HeartInit, HeartCheck, HeartTime, HeartPing,
     HeartTimesOut, HeartStamp, HeartUnack, HeartWakes
<1>7. CASE Server
  BY <1>7 DEF Server, ServerText, ServerPong, PeerFails
<1>8. CASE Tick \/ UNCHANGED vars
  BY <1>8 DEF vars, Tick
<1> QED
  BY <1>1, <1>2, <1>3, <1>4, <1>5, <1>6, <1>7, <1>8, NextCases

(* WSAStartup comes with a new socket and WSACleanup with a close.         *)
LEMMA SocketStep ==
  ASSUME TypeOK, ThreadInv, MutexInv, OwnerInv, SocketInv, [Next]_vars
  PROVE  SocketInv'
<1> USE Threads, ConstantAssumption DEF TypeOK, ThreadTypeOK, ManagerTypeOK, NetTypeOK,
      ThreadInv, MutexInv, OwnerInv, SocketInv, WinsockBalance,
      ConnectedHasSocket, HasSocket, Connected, NoThread, MainStarting,
      ConnectLabel, SendLabel, DisconnectLabel, MainLabel, RecvLabel,
      HeartLabel, StopLabel
<1>1. ASSUME NEW t \in Thread, SendMessageData(t)
      PROVE  SocketInv'
  BY <1>1 DEF SendMessageData, SendCheck, SendLock, SendNow, Transmit, AfterSend
<1>2. ASSUME NEW t \in Thread, ConnectServer(t)
      PROVE  SocketInv'
  <2> USE DEF Unlock, ReturnConnected, ReturnFailed
  <2>1. CASE ConnectLock(t)
    BY <2>1 DEF ConnectLock
  <2>2. CASE OpenSocket(t)
    BY <2>2 DEF OpenSocket, NewSocket
  <2>3. CASE Connect(t)
    BY <2>3 DEF Connect
  <2>4. CASE ConnectFails(t)
    BY <2>4 DEF ConnectFails
  <2>5. CASE StartThreads(t)
    BY <2>5 DEF StartThreads
  <2>6. CASE ConnectStamp(t) \/ ConnectFlag(t) \/ ConnectPrint(t)
    BY <2>6 DEF ConnectStamp, ConnectFlag, ConnectPrint
  <2> QED
    BY <1>2, <2>1, <2>2, <2>3, <2>4, <2>5, <2>6 DEF ConnectServer
<1>3. ASSUME NEW t \in Thread, Disconnect(t)
      PROVE  SocketInv'
  <2>1. CASE DisconnectLock(t)
    BY <2>1 DEF DisconnectLock
  <2>2. CASE DisconnectClose(t)
    <3>1. sock_cache' = INVALID_SOCKET /\ wsa' = 0 /\ ~server_connected'
      BY <2>2 DEF DisconnectClose
    <3>2. \A h \in Handle : conn'[h] = "free"
      <4>1. CASE HasSocket
        <5>1. conn' = [conn EXCEPT ![sock_cache] = "free"]
          BY <2>2, <4>1 DEF DisconnectClose, CloseSocket
        <5> QED
          BY <5>1
      <4>2. CASE ~HasSocket
        BY <2>2, <4>2 DEF DisconnectClose
      <4> QED
        BY <4>1, <4>2
    <3> QED
      BY <3>1, <3>2
  <2>3. CASE DisconnectPrint(t)
    BY <2>3 DEF DisconnectPrint
  <2> QED
    BY <1>3, <2>1, <2>2, <2>3 DEF Disconnect
<1>4. CASE WWinMain
  BY <1>4 DEF WWinMain, StartWindow, RegisterMessageEvent, WindowCreated,
     WindowFails, ProcessInput, OnWindowClose
<1>5. CASE ReceiveMessage
  BY <1>5 DEF ReceiveMessage, ReceiveTurn, Select, IsSet, ReceiveText,
     ReceiveEnds, DeliverText
<1>6. CASE SendHeartThread
  BY <1>6 DEF SendHeartThread, HeartInit, HeartCheck, HeartTime, HeartPing,
     HeartTimesOut, HeartStamp, HeartUnack, HeartWakes
<1>7. CASE Server
  BY <1>7 DEF Server, ServerText, ServerPong, PeerFails
<1>8. CASE Tick \/ UNCHANGED vars
  BY <1>8 DEF vars, Tick
<1> QED
  BY <1>1, <1>2, <1>3, <1>4, <1>5, <1>6, <1>7, <1>8, NextCases

(* Unread texts and the end of a connection do not go away before recv     *)
(* reads, and no other thread replaces the socket.                         *)
LEMMA ReadStep ==
  ASSUME TypeOK, ThreadInv, OwnerInv, SocketInv, ReadInv, [Next]_vars
  PROVE  ReadInv'
<1> USE Threads, ConstantAssumption DEF TypeOK, ReadInv, Readable, ThreadTypeOK, ManagerTypeOK, NetTypeOK,
      ThreadInv, MutexInv, OwnerInv, SocketInv, WinsockBalance,
      ConnectedHasSocket, HasSocket, Connected, NoThread, MainStarting,
      ConnectLabel, SendLabel, DisconnectLabel, MainLabel, RecvLabel,
      HeartLabel, StopLabel
<1>1. ASSUME NEW t \in Thread, SendMessageData(t)
      PROVE  ReadInv'
  BY <1>1 DEF SendMessageData, SendCheck, SendLock, SendNow, Transmit, AfterSend
<1>2. ASSUME NEW t \in Thread, ConnectServer(t)
      PROVE  ReadInv'
  <2> USE DEF Unlock, ReturnConnected, ReturnFailed
  <2>1. CASE ConnectLock(t)
    BY <2>1 DEF ConnectLock
  <2>2. CASE OpenSocket(t)
    BY <2>2 DEF OpenSocket, NewSocket
  <2>3. CASE Connect(t)
    BY <2>3 DEF Connect
  <2>4. CASE ConnectFails(t)
    BY <2>4 DEF ConnectFails
  <2>5. CASE StartThreads(t)
    BY <2>5 DEF StartThreads
  <2>6. CASE ConnectStamp(t) \/ ConnectFlag(t) \/ ConnectPrint(t)
    BY <2>6 DEF ConnectStamp, ConnectFlag, ConnectPrint
  <2> QED
    BY <1>2, <2>1, <2>2, <2>3, <2>4, <2>5, <2>6 DEF ConnectServer
<1>3. ASSUME NEW t \in Thread, Disconnect(t)
      PROVE  ReadInv'
  <2>1. CASE DisconnectLock(t)
    BY <2>1 DEF DisconnectLock
  <2>2. CASE DisconnectClose(t)
    BY <2>2 DEF DisconnectClose, CloseSocket
  <2>3. CASE DisconnectPrint(t)
    BY <2>3 DEF DisconnectPrint
  <2> QED
    BY <1>3, <2>1, <2>2, <2>3 DEF Disconnect
<1>4. CASE WWinMain
  BY <1>4 DEF WWinMain, StartWindow, RegisterMessageEvent, WindowCreated,
     WindowFails, ProcessInput, OnWindowClose
<1>5. CASE ReceiveMessage
  BY <1>5 DEF ReceiveMessage, ReceiveTurn, Select, IsSet, ReceiveText,
     ReceiveEnds, DeliverText
<1>6. CASE SendHeartThread
  BY <1>6 DEF SendHeartThread, HeartInit, HeartCheck, HeartTime, HeartPing,
     HeartTimesOut, HeartStamp, HeartUnack, HeartWakes
<1>7. CASE Server
  BY <1>7 DEF Server, ServerText, ServerPong, PeerFails
<1>8. CASE Tick \/ UNCHANGED vars
  BY <1>8 DEF vars, Tick
<1> QED
  BY <1>1, <1>2, <1>3, <1>4, <1>5, <1>6, <1>7, <1>8, NextCases

(* "xyc" goes out once, to the socket its sender has just connected, and   *)
(* closing the socket forgets it.                                          *)
LEMMA GreetStep ==
  ASSUME TypeOK, ThreadInv, MutexInv, OwnerInv, SocketInv, GreetInv, [Next]_vars
  PROVE  GreetInv'
<1> USE Threads, ConstantAssumption DEF TypeOK, ThreadTypeOK, ManagerTypeOK,
      NetTypeOK, ThreadInv, MutexInv, OwnerInv, SocketInv, GreetInv,
      WinsockBalance, ConnectedHasSocket, HasSocket, Connected, NoThread,
      MainStarting, ConnectLabel, SendLabel, DisconnectLabel, MainLabel,
      RecvLabel, HeartLabel, StopLabel
<1>1. ASSUME NEW t \in Thread, SendMessageData(t)
      PROVE  GreetInv'
  <2>1. CASE SendCheck(t)
    BY <2>1 DEF SendCheck, AfterSend
  <2>2. CASE SendLock(t)
    BY <2>2 DEF SendLock
  <2>3. CASE SendNow(t) /\ msg[t] = "xyc"
    <3>1. sock_cache \in Handle /\ authorized[sock_cache] = 0 /\ conn[sock_cache] \in Connected
      BY <2>3 DEF SendNow
    <3>2. \A u \in Thread : u # t => ~Greeting(u) /\ ~Greeting(u)'
      BY <2>3 DEF SendNow
    <3>3. CASE conn[sock_cache] \in {"up", "fin", "vanished"}
      <4>1. authorized' = [authorized EXCEPT ![sock_cache] = 1]
        BY <2>3, <3>1, <3>3 DEF SendNow, Transmit, AtMost
      <4> QED
        BY <2>3, <3>1, <3>2, <4>1 DEF SendNow, AfterSend
    <3>4. CASE conn[sock_cache] = "reset"
      BY <2>3, <3>1, <3>2, <3>4 DEF SendNow, AfterSend
    <3> QED
      BY <3>1, <3>3, <3>4
  <2>4. CASE SendNow(t) /\ msg[t] # "xyc"
    <3>1. UNCHANGED authorized
      BY <2>4 DEF SendNow, Transmit
    <3> QED
      BY <2>4, <3>1 DEF SendNow, AfterSend
  <2> QED
    BY <1>1, <2>1, <2>2, <2>3, <2>4 DEF SendMessageData
<1>2. ASSUME NEW t \in Thread, ConnectServer(t)
      PROVE  GreetInv'
  <2> USE DEF Unlock, ReturnConnected, ReturnFailed
  <2>1. CASE ConnectLock(t)
    BY <2>1 DEF ConnectLock
  <2>2. CASE OpenSocket(t)
    BY <2>2 DEF OpenSocket, NewSocket
  <2>3. CASE Connect(t)
    BY <2>3 DEF Connect
  <2>4. CASE ConnectFails(t)
    BY <2>4 DEF ConnectFails
  <2>5. CASE StartThreads(t)
    BY <2>5 DEF StartThreads
  <2>6. CASE ConnectStamp(t) \/ ConnectFlag(t) \/ ConnectPrint(t)
    BY <2>6 DEF ConnectStamp, ConnectFlag, ConnectPrint
  <2> QED
    BY <1>2, <2>1, <2>2, <2>3, <2>4, <2>5, <2>6 DEF ConnectServer
<1>3. ASSUME NEW t \in Thread, Disconnect(t)
      PROVE  GreetInv'
  <2>1. CASE DisconnectLock(t)
    BY <2>1 DEF DisconnectLock
  <2>2. CASE DisconnectClose(t)
    <3>1. CASE HasSocket
      <4>1. /\ conn' = [conn EXCEPT ![sock_cache] = "free"]
            /\ authorized' = [authorized EXCEPT ![sock_cache] = 0]
        BY <2>2, <3>1 DEF DisconnectClose, CloseSocket
      <4> QED
        BY <2>2, <3>1, <4>1 DEF DisconnectClose
    <3>2. CASE ~HasSocket
      BY <2>2, <3>2 DEF DisconnectClose
    <3> QED
      BY <3>1, <3>2
  <2>3. CASE DisconnectPrint(t)
    BY <2>3 DEF DisconnectPrint
  <2> QED
    BY <1>3, <2>1, <2>2, <2>3 DEF Disconnect
<1>4. CASE WWinMain
  BY <1>4 DEF WWinMain, StartWindow, RegisterMessageEvent, WindowCreated,
     WindowFails, ProcessInput, OnWindowClose
<1>5. CASE ReceiveMessage
  BY <1>5 DEF ReceiveMessage, ReceiveTurn, Select, IsSet, ReceiveText,
     ReceiveEnds, DeliverText
<1>6. CASE SendHeartThread
  BY <1>6 DEF SendHeartThread, HeartInit, HeartCheck, HeartTime, HeartPing,
     HeartTimesOut, HeartStamp, HeartUnack, HeartWakes
<1>7. CASE Server
  BY <1>7 DEF Server, ServerText, ServerPong, PeerFails
<1>8. CASE Tick \/ UNCHANGED vars
  BY <1>8 DEF vars, Tick
<1> QED
  BY <1>1, <1>2, <1>3, <1>4, <1>5, <1>6, <1>7, <1>8, NextCases

-----------------------------------------------------------------------------
(* The inductive invariant.                                                *)

(* wWinMain's first ConnectServer starts in the invariant.                 *)
LEMMA IInvInit == Init => IInv
<1> SUFFICES ASSUME Init PROVE IInv
  OBVIOUS
<1>1. TypeOK
  BY TypeInit
<1>2. ThreadInv
  BY DEF Init, Thread, ThreadInv, MainLabel, ConnectLabel, DisconnectLabel
<1>3. MutexInv
  BY Threads DEF Init, MutexInv, NoThread, ConnectLabel, SendLabel
<1>4. OwnerInv /\ SocketInv /\ ReadInv
  BY Threads, ConstantAssumption DEF Init, OwnerInv, SocketInv, ReadInv,
     WinsockBalance, ConnectedHasSocket, HasSocket, ConnectLabel, SendLabel
<1>5. GreetInv
  BY Threads DEF Init, GreetInv, SendLabel
<1> QED
  BY <1>1, <1>2, <1>3, <1>4, <1>5 DEF IInv

(* Every step keeps the invariant; one lemma for each part of it.          *)
LEMMA IInvStep == IInv /\ [Next]_vars => IInv'
<1> SUFFICES ASSUME IInv, [Next]_vars PROVE IInv'
  OBVIOUS
<1>1. TypeOK'
  BY ThreadTypeStep, ManagerTypeStep, ClockTypeStep, NetTypeStep DEF IInv, TypeOK
<1>2. ThreadInv' /\ MutexInv'
  BY ThreadStep, MutexStep DEF IInv, TypeOK
<1>3. OwnerInv' /\ SocketInv'
  BY OwnerStep, SocketStep DEF IInv
<1>4. GreetInv' /\ ReadInv'
  BY GreetStep, ReadStep DEF IInv
<1> QED
  BY <1>1, <1>2, <1>3, <1>4 DEF IInv

(* IInv holds in every state of the manager.                               *)
THEOREM Invariance == Spec => []IInv
  BY IInvInit, IInvStep, PTL DEF Spec

-----------------------------------------------------------------------------
(* The safety properties of SocketManager.                                 *)

(* Winsock is initialised exactly while there is a socket, whoever calls   *)
(* Disconnect and however often.                                           *)
THEOREM WinsockBalanced == Spec => []WinsockBalance
<1>1. IInv => WinsockBalance
  BY DEF IInv, SocketInv
<1> QED
  BY <1>1, Invariance, PTL

(* No socket but the one in sock_cache is ever open.                       *)
THEOREM NoSocketLeaks == Spec => []NoSocketLeak
<1>1. IInv => NoSocketLeak
  BY DEF IInv, SocketInv, NoSocketLeak
<1> QED
  BY <1>1, Invariance, PTL

(* server_connected is never TRUE without a connected socket.              *)
THEOREM ConnectedIsTrue == Spec => []ConnectedHasSocket
<1>1. IInv => ConnectedHasSocket
  BY DEF IInv, SocketInv
<1> QED
  BY <1>1, Invariance, PTL

(* A reconnect never finds a socket that somebody left behind.             *)
THEOREM ConnectFindsNoSocket == Spec => []FreshSocketOnConnect
<1>1. IInv => FreshSocketOnConnect
  BY DEF IInv, OwnerInv, FreshSocketOnConnect
<1> QED
  BY <1>1, Invariance, PTL

(* The receiving thread never blocks in recv.                              *)
THEOREM RecvNeverBlocks == Spec => []NeverBlocksInRecv
<1>1. IInv => NeverBlocksInRecv
  BY DEF IInv, ReadInv, NeverBlocksInRecv
<1> QED
  BY <1>1, Invariance, PTL

(* Each connection is authorized at most once, and before ConnectServer    *)
(* returns unless the peer reset it.                                       *)
THEOREM AuthorizedAtMostOnce == Spec => []AuthorizedOnce
<1>1. IInv => AuthorizedOnce
  BY DEF IInv, GreetInv, MutexInv, AuthorizedOnce, NoThread, Thread
<1> QED
  BY <1>1, Invariance, PTL

-----------------------------------------------------------------------------
(* The owner of send_mutex waits for nobody, so main, which only ever      *)
(* waits for it, goes on; so does whoever waits for main, and so does the  *)
(* owner of socket_mutex.                                                  *)
THEOREM NobodyWaitsInACycle == Spec => []NoWaitCycle
<1>1. IInv => NoWaitCycle
  <2> SUFFICES ASSUME IInv, NEW T \in SUBSET Thread, T # {},
                      \A t \in T : \E u \in T : Waits(t, u)
               PROVE  FALSE
    BY DEF NoWaitCycle
  <2>1. \A t \in T : pc[t] \in {"s_lock", "c_lock", "d_lock", "c_print", "d_print", "r_deliver"}
    BY DEF Waits
  <2>2. \A t \in T : pc[t] # "s_lock"
    BY <2>1 DEF Waits, IInv, MutexInv
  <2>3. \A t \in T : pc[t] \notin {"c_print", "d_print", "r_deliver"}
    <3> SUFFICES ASSUME NEW t \in T, pc[t] \in {"c_print", "d_print", "r_deliver"}
                 PROVE  FALSE
      OBVIOUS
    <3>1. "main" \in T /\ \E e \in Event : WaitsForWindow(t, e)
      BY DEF Waits, Event
    <3>2. pc["main"] \in {"s_check", "s_lock", "s_send"}
      BY <3>1 DEF WaitsForWindow, WindowUp, SendLabel
    <3> QED
      BY <2>1, <2>2, <3>1, <3>2
  <2>4. \A t \in T : pc[t] \in {"c_lock", "d_lock"}
    BY <2>1, <2>2, <2>3
  <2>5. \A t \in T : socket_mutex \in T
    BY <2>4 DEF Waits
  <2>6. PICK u \in T : u = socket_mutex /\ u \in Thread
    BY <2>5
  <2>7. OwnsSocket(u)
    BY <2>6 DEF IInv, MutexInv
  <2> QED
    BY <2>4, <2>7 DEF OwnsSocket, Connecting, Greeting, ConnectLabel, SendLabel
<1> QED
  BY <1>1, Invariance, PTL

-----------------------------------------------------------------------------
(* The refinement mapping takes the manager's first state to Session's.    *)
LEMMA SessionInit == Init => S!Init
  BY DEF Init, S!Init, phase, greeted, HasSocket

(* And each step to a step of Session or to none.                          *)
LEMMA SessionStep ==
  ASSUME IInv, IInv', [Next]_vars
  PROVE  [S!Next]_<<phase, greeted>>
<1> USE Threads, ConstantAssumption DEF IInv, TypeOK, ThreadTypeOK,
      ManagerTypeOK, NetTypeOK, MutexInv, OwnerInv, SocketInv, GreetInv,
      ConnectedHasSocket, HasSocket, NoThread, OwnsSocket, Connecting,
      Greeting, ConnectLabel, SendLabel,
      guarded, sock, manager, beat, net, rest, shared, Goto, CallSend, CallDisconnect,
      Step, Quiet, SendAuthorizeMessage, LockSocket, UnlockSend,
      MarkDisconnected, WSACleanup, TrustPeer, NextTurn, StartOver,
      HeartCloses, AwaitPong, InputText, Sendable,
      phase, greeted, S!Next, S!Move
<1>1. ASSUME NEW t \in Thread, SendMessageData(t)
      PROVE  [S!Next]_<<phase, greeted>>
  BY <1>1 DEF SendMessageData, SendCheck, SendLock, SendNow, Transmit, AtMost, S!Greet
<1>2. ASSUME NEW t \in Thread, ConnectServer(t)
      PROVE  [S!Next]_<<phase, greeted>>
  <2>1. CASE OpenSocket(t)
    BY <2>1 DEF OpenSocket, NewSocket, ReturnConnected, ReturnFailed, Unlock, S!Open
  <2>2. CASE Connect(t)
    BY <2>2 DEF Connect, S!Establish
  <2>3. CASE ConnectFails(t)
    BY <2>3 DEF ConnectFails, ReturnFailed, Unlock, S!GiveUp
  <2>4. CASE ConnectLock(t)
    BY <2>4 DEF ConnectLock
  <2>5. CASE StartThreads(t) \/ ConnectStamp(t) \/ ConnectFlag(t) \/ ConnectPrint(t)
    BY <2>5 DEF StartThreads, ConnectStamp, ConnectFlag, ConnectPrint, ReturnConnected, Unlock
  <2> QED
    BY <1>2, <2>1, <2>2, <2>3, <2>4, <2>5 DEF ConnectServer
<1>3. ASSUME NEW t \in Thread, Disconnect(t)
      PROVE  [S!Next]_<<phase, greeted>>
  <2>1. CASE DisconnectLock(t)
    BY <2>1 DEF DisconnectLock, S!Drop
  <2>2. CASE DisconnectClose(t)
    BY <2>2 DEF DisconnectClose, CloseSocket, S!Close
  <2>3. CASE DisconnectPrint(t)
    BY <2>3 DEF DisconnectPrint
  <2> QED
    BY <1>3, <2>1, <2>2, <2>3 DEF Disconnect
<1>4. CASE WWinMain
  BY <1>4 DEF WWinMain, StartWindow, RegisterMessageEvent, WindowCreated,
     WindowFails, ProcessInput, OnWindowClose
<1>5. CASE ReceiveMessage
  BY <1>5 DEF ReceiveMessage, ReceiveTurn, Select, IsSet, ReceiveText,
     ReceiveEnds, DeliverText
<1>6. CASE SendHeartThread
  BY <1>6 DEF SendHeartThread, HeartInit, HeartCheck, HeartTime, HeartPing,
     HeartTimesOut, HeartStamp, HeartUnack, HeartWakes
<1>7. CASE Tick \/ Server \/ UNCHANGED vars
  BY <1>7 DEF vars, Tick, Server
<1> QED
  BY <1>1, <1>2, <1>3, <1>4, <1>5, <1>6, <1>7, NextCases

(* The manager implements Session: one session after the other, each       *)
(* greeted at most once and only while it is usable.                       *)
THEOREM ImplementsSession == Spec => OneSession
<1>1. IInv /\ IInv' /\ [Next]_vars => [S!Next]_<<phase, greeted>>
  BY SessionStep
<1> QED
  BY <1>1, SessionInit, Invariance, PTL DEF Spec, OneSession, S!Spec
=============================================================================
