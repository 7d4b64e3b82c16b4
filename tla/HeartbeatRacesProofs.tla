------------------------ MODULE HeartbeatRacesProofs ------------------------
(***************************************************************************)
(* Why the five races are all there are, for any handles and any bounds.   *)
(***************************************************************************)
EXTENDS HeartbeatRaces, SocketManagerSafety

USE DEF guarded, sock, manager, beat, net, rest, shared,
        Goto, CallSend, CallDisconnect, Greeting, Connecting, OwnsSocket,
        Step, Quiet, SendAuthorizeMessage, LockSocket, UnlockSend,
        MarkDisconnected, WSACleanup, TrustPeer, NextTurn, StartOver,
        HeartCloses, AwaitPong, InputText, Sendable

InConnect == \E t \in Thread : Connecting(t)

(* heart_received = FALSE means that the server still owes a PONG, and so  *)
(* does heart's decision to disconnect that follows from it.  While a      *)
(* thread connects, that is not so yet; but then heart waits, or the       *)
(* socket was opened in the middle of its turn.                            *)
FlagInv ==
  race = "none" /\ HasSocket /\ conn[sock_cache] = "up" /\ ~heart_received /\ ~InConnect =>
    PongDue(sock_cache)

CloseInv ==
  race = "none" /\ HasSocket /\ conn[sock_cache] = "up" /\ pc["heart"] \in {"d_lock", "d_close"} =>
    PongDue(sock_cache)

TurnInv == InConnect /\ HasSocket /\ HeartMidway => race # "none"

StampInv == \A t \in Thread : pc[t] = "c_print" /\ race = "none" => heart_received

RaceInv == IInv /\ FlagInv /\ CloseInv /\ TurnInv /\ StampInv

Parts == FlagInv /\ CloseInv /\ TurnInv /\ StampInv

-----------------------------------------------------------------------------
(* What happens to a PONG that waits to be read.                           *)
LEMMA HoldsAppended ==
  ASSUME NEW s \in Seq(Piece), NEW e \in Piece, Holds(s)
  PROVE  Holds(Append(s, e))
<1>1. /\ Len(Append(s, e)) = Len(s) + 1 /\ Len(s) \in Nat
      /\ \A i \in 1..Len(s) : Append(s, e)[i] = s[i]
  BY AppendProperties
<1>2. PICK i \in 1..Len(s) : s[i] = "PO"
  BY DEF Holds
<1>3. i \in 1..Len(Append(s, e)) /\ Append(s, e)[i] = "PO"
  BY <1>1, <1>2
<1> QED BY <1>3 DEF Holds

(* A PONG that arrives waits to be read.                                   *)
LEMMA HoldsAnswered ==
  ASSUME NEW s \in Seq(Piece)
  PROVE  Holds(s \o Pong)
<1>1. Pong \in Seq(Piece) /\ Len(Pong) = 2 /\ Pong[1] = "PO"
  BY DEF Pong, Piece
<1>2. /\ Len(s \o Pong) = Len(s) + Len(Pong)
      /\ \A i \in 1..Len(s) + Len(Pong) :
           (s \o Pong)[i] = IF i <= Len(s) THEN s[i] ELSE Pong[i - Len(s)]
  BY <1>1, ConcatProperties
<1>3. Len(s) + 1 \in 1..Len(s \o Pong) /\ (s \o Pong)[Len(s) + 1] = "PO"
  <2>1. Len(s) \in Nat /\ Len(s) + 1 \in 1..Len(s) + Len(Pong)
    BY <1>1
  <2>2. (s \o Pong)[Len(s) + 1] = Pong[Len(s) + 1 - Len(s)]
    BY <1>2, <2>1
  <2> QED BY <1>1, <1>2, <2>1, <2>2
<1> QED BY <1>3 DEF Holds

(* What recv takes or what it leaves holds the PONG.                       *)
LEMMA ReadPong ==
  ASSUME NEW s \in Seq(Piece), NEW n \in 1..Len(s), Holds(s)
  PROVE  Holds(SubSeq(s, 1, n)) \/ Holds(SubSeq(s, n + 1, Len(s)))
<1>0. Len(s) \in Nat /\ n \in Nat /\ 1 <= n /\ n <= Len(s)
  OBVIOUS
<1>1. /\ Len(SubSeq(s, 1, n)) = n
      /\ \A i \in 1..n : SubSeq(s, 1, n)[i] = s[i]
  BY <1>0
<1>2. /\ Len(SubSeq(s, n + 1, Len(s))) = Len(s) - n
      /\ \A i \in 1..Len(s) - n : SubSeq(s, n + 1, Len(s))[i] = s[n + i]
  BY <1>0
<1>3. PICK i \in 1..Len(s) : s[i] = "PO"
  BY DEF Holds
<1>4. CASE i <= n
  BY <1>0, <1>1, <1>3, <1>4 DEF Holds
<1>5. CASE i > n
  <2>1. i - n \in 1..Len(s) - n /\ n + (i - n) = i
    BY <1>0, <1>3, <1>5
  <2>2. /\ i - n \in 1..Len(SubSeq(s, n + 1, Len(s)))
        /\ SubSeq(s, n + 1, Len(s))[i - n] = "PO"
    BY <1>2, <1>3, <2>1
  <2> QED BY <2>2 DEF Holds
<1>6. i <= n \/ i > n
  BY <1>0, <1>3
<1> QED BY <1>4, <1>5, <1>6

-----------------------------------------------------------------------------
(* A step that is no race leaves `race` alone, and unless a socket is      *)
(* opened or closed no step takes a race back.                             *)
LEMMA NoRace ==
  ASSUME RaceStep, ~Opened
  PROVE  /\ ~Unacked /\ ~Read => race' = race
         /\ race' = "none" => race = "none"
         /\ race' = "none" /\ ~Read /\ Unacked /\ HasSocket => PongDue(sock_cache)
BY DEF RaceStep, ReadRace

(* Only one thread is inside ConnectServer or closes the socket.           *)
LEMMA OneOwner ==
  ASSUME IInv, NEW t \in Thread, NEW u \in Thread, OwnsSocket(t), OwnsSocket(u)
  PROVE  t = u
BY DEF IInv, MutexInv

(* A step that touches none of what the parts speak of, but for texts that *)
(* come in and connections that end.                                       *)
LEMMA CalmStep ==
  ASSUME IInv, Parts, race' = race, sock_cache' = sock_cache,
         heart_received' = heart_received, pc'["heart"] = pc["heart"],
         HasSocket /\ conn'[sock_cache] = "up" =>
           conn[sock_cache] = "up" /\ (PongDue(sock_cache) => PongDue(sock_cache)'),
         InConnect' <=> InConnect,
         \A t \in Thread : pc'[t] = "c_print" => pc[t] = "c_print"
  PROVE  Parts'
<1>1. FlagInv' /\ CloseInv'
  BY DEF Parts, FlagInv, CloseInv, HasSocket
<1>2. TurnInv' /\ StampInv'
  BY DEF Parts, TurnInv, StampInv, HasSocket, HeartMidway
<1> QED BY <1>1, <1>2 DEF Parts

-----------------------------------------------------------------------------
(* PING adds to what the server owes; "xyc" and the user's texts do not    *)
(* change it.                                                              *)
LEMMA SendParts ==
  ASSUME IInv, Parts, RaceStep, NEW t \in Thread, SendMessageData(t)
  PROVE  Parts'
<1> USE Threads, ConstantAssumption DEF IInv, TypeOK, ThreadTypeOK, ManagerTypeOK,
      NetTypeOK, ThreadInv, HasSocket, SendLabel, ConnectLabel
<1>1. /\ pc[t] \in {"s_check", "s_lock", "s_send"}
      /\ \A u \in Thread : u # t => pc'[u] = pc[u]
      /\ pc'[t] \in {"s_lock", "s_send", AfterSend(msg[t])}
      /\ UNCHANGED <<msg, sock_cache, heart_received, conn, inbox>>
  BY DEF SendMessageData, SendCheck, SendLock, SendNow
<1>2. AfterSend(msg[t]) = IF t = "heart" THEN "h_stamp"
                          ELSE IF msg[t] = "xyc" THEN "c_threads" ELSE "m_idle"
  BY DEF AfterSend
<1>3. \A h \in Handle : PongDue(h) => PongDue(h)'
  <2>1. \A h \in Handle : pings'[h] = pings[h] \/ pings'[h] = AtMost(pings[h] + 1, MaxPings)
    BY DEF SendMessageData, SendCheck, SendLock, SendNow, Transmit
  <2>2. ASSUME NEW h \in Handle, pings[h] > 0 PROVE pings'[h] > 0
    <3>1. pings[h] \in Nat /\ MaxPings \in Nat /\ MaxPings > 0
      OBVIOUS
    <3>2. AtMost(pings[h] + 1, MaxPings) > 0
      BY ONLY <2>2, <3>1 DEF AtMost
    <3> QED BY <2>1, <2>2, <3>2
  <2> QED BY <1>1, <2>2 DEF PongDue
<1>4. race' = race
  <2>1. ~Opened /\ ~Read
    BY <1>1 DEF Opened, Read
  <2>2. ~Unacked
    BY <1>1, <1>2 DEF Unacked
  <2> QED BY <2>1, <2>2, NoRace
<1>5. InConnect' <=> InConnect
  <2>1. \A u \in Thread : Connecting(u)' <=> Connecting(u)
    BY <1>1, <1>2
  <2> QED BY <2>1 DEF InConnect
<1>6. \A u \in Thread : pc'[u] = "c_print" => pc[u] = "c_print"
  BY <1>1, <1>2
<1>7. FlagInv' /\ StampInv'
  BY <1>1, <1>3, <1>4, <1>5, <1>6 DEF Parts, FlagInv, StampInv, PongDue
<1>8. pc'["heart"] \notin {"d_lock", "d_close"} \/ pc'["heart"] = pc["heart"]
  BY <1>1, <1>2
<1>9. HeartMidway' <=> HeartMidway
  BY <1>1, <1>2 DEF HeartMidway
<1>10. CloseInv' /\ TurnInv'
  BY <1>1, <1>3, <1>4, <1>5, <1>8, <1>9 DEF Parts, CloseInv, TurnInv, PongDue
<1> QED BY <1>7, <1>10 DEF Parts

(* A socket is opened: if heart was in the middle of its turn, that is the *)
(* race; if not, it waits until the connection is made.                    *)
LEMMA ConnectParts ==
  ASSUME IInv, IInv', Parts, RaceStep, NEW t \in Thread, ConnectServer(t)
  PROVE  Parts'
<1> USE Threads, ConstantAssumption DEF IInv, TypeOK, ThreadTypeOK, ManagerTypeOK,
      NetTypeOK, ThreadInv, HasSocket, SendLabel, ConnectLabel, Unlock
<1>1. t # "heart" /\ pc[t] \in ConnectLabel
  BY DEF ConnectServer, ConnectLock, OpenSocket, Connect, ConnectFails,
     StartThreads, ConnectStamp, ConnectFlag, ConnectPrint, HeartLabel, DisconnectLabel
<1>2. inbox' = inbox
  BY DEF ConnectServer, ConnectLock, OpenSocket, NewSocket, Connect,
     ConnectFails, StartThreads, ConnectStamp, ConnectFlag, ConnectPrint
<1>3. ~Read /\ ~Unacked
  <2>1. ~Read
    BY <1>2 DEF Read
  <2>2. pc["heart"] = "h_unack" => pc'["heart"] = "h_unack"
    BY <1>1 DEF ConnectServer, ConnectLock, OpenSocket, NewSocket, Connect,
       ConnectFails, StartThreads, ConnectStamp, ConnectFlag, ConnectPrint,
       ReturnConnected, ReturnFailed
  <2> QED BY <2>1, <2>2 DEF Unacked
<1>4. CASE ConnectLock(t)
  <2>1. ~HasSocket /\ sock_cache' = sock_cache /\ ~Opened
    BY <1>4 DEF ConnectLock, OwnerInv, Opened
  <2>2. race' = race
    BY <1>3, <2>1, NoRace
  <2>3. \A u \in Thread : pc'[u] = "c_print" => pc[u] = "c_print"
    BY <1>4 DEF ConnectLock
  <2>4. heart_received' = heart_received
    BY <1>4 DEF ConnectLock
  <2> QED BY <2>1, <2>2, <2>3, <2>4 DEF Parts, FlagInv, CloseInv, TurnInv, StampInv
<1>5. CASE OpenSocket(t) /\ Opened
  <2>1. PICK h \in Handle : NewSocket(t, h)
    BY <1>5 DEF OpenSocket, Opened
  <2>2. /\ sock_cache' = h /\ conn'[h] = "created" /\ pc' = [pc EXCEPT ![t] = "c_connect"]
        /\ UNCHANGED heart_received
    BY <1>5, <2>1 DEF NewSocket, OpenSocket
  <2>3. race' = IF HeartMidway THEN "stale" ELSE "none"
    BY <1>3, <1>5, <2>2 DEF RaceStep
  <2>4. HeartMidway' <=> HeartMidway
    BY <1>1, <2>2 DEF HeartMidway
  <2>5. \A u \in Thread : pc'[u] # "c_print"
    <3>1. ASSUME NEW u \in Thread, pc'[u] = "c_print" PROVE FALSE
      <4>1. u # t /\ pc[u] = "c_print"
        BY <2>2, <3>1
      <4>2. OwnsSocket(u) /\ OwnsSocket(t)
        BY <1>5, <4>1 DEF OpenSocket
      <4> QED BY <4>1, <4>2, OneOwner
    <3> QED BY <3>1
  <2> QED BY <2>2, <2>3, <2>4, <2>5 DEF Parts, FlagInv, CloseInv, TurnInv, StampInv
<1>6. CASE (OpenSocket(t) /\ ~Opened) \/ ConnectFails(t)
  <2>1. race' = race
    BY <1>3, <1>6, NoRace DEF ConnectFails, Opened
  <2>2. ~HasSocket \/ conn[sock_cache] = "created"
    BY <1>6 DEF OpenSocket, ConnectFails, OwnerInv
  <2>3. UNCHANGED <<sock_cache, conn, heart_received>>
    BY <1>6, <2>2 DEF OpenSocket, NewSocket, ConnectFails, Opened, ReturnConnected,
       ReturnFailed, OwnerInv
  <2>4. pc' = [pc EXCEPT ![t] = "d_lock"] /\ msg' = msg
    BY <1>6 DEF OpenSocket, NewSocket, ConnectFails, Opened, ReturnFailed, OwnerInv
  <2>5. ~InConnect'
    <3>1. ASSUME NEW u \in Thread, Connecting(u)' PROVE FALSE
      <4>1. u # t /\ Connecting(u)
        BY <2>4, <3>1
      <4>2. OwnsSocket(u) /\ OwnsSocket(t)
        BY <1>6, <4>1 DEF OpenSocket, ConnectFails
      <4> QED BY <4>1, <4>2, OneOwner
    <3> QED BY <3>1 DEF InConnect
  <2> QED BY <2>1, <2>2, <2>3, <2>4, <2>5 DEF Parts, FlagInv, CloseInv, TurnInv, StampInv
<1>7. CASE Connect(t)
  <2>1. race' = race /\ sock_cache' = sock_cache /\ heart_received' = heart_received
    BY <1>3, <1>7, NoRace DEF Connect, Opened
  <2>2. pc' = [pc EXCEPT ![t] = "s_check"] /\ msg' = [msg EXCEPT ![t] = "xyc"]
    BY <1>7 DEF Connect
  <2>3. InConnect /\ InConnect' /\ HasSocket
    BY <1>7, <2>2 DEF Connect, InConnect, OwnerInv
  <2>4. HeartMidway' <=> HeartMidway
    BY <1>1, <2>2 DEF HeartMidway
  <2>5. pc["heart"] \in {"d_lock", "d_close"} => HeartMidway
    BY DEF HeartMidway
  <2> QED
    BY <1>1, <2>1, <2>2, <2>3, <2>4, <2>5
    DEF Parts, FlagInv, CloseInv, TurnInv, StampInv
<1>8. CASE StartThreads(t) \/ ConnectStamp(t)
  <2>1. /\ UNCHANGED <<msg, sock_cache, heart_received, conn, pings>>
        /\ pc[t] \in {"c_threads", "c_stamp"} /\ pc'[t] \in {"c_stamp", "c_flag"}
    BY <1>8 DEF StartThreads, ConnectStamp
  <2>2. race' = race
    BY <1>3, <2>1, NoRace DEF Opened
  <2>3. InConnect /\ InConnect'
    BY <2>1 DEF InConnect
  <2>4. pc'["heart"] = pc["heart"] \/ (pc["heart"] = "off" /\ pc'["heart"] = "h_init")
    BY <1>1, <1>8 DEF StartThreads, ConnectStamp
  <2>5. \A u \in Thread : pc'[u] = "c_print" => pc[u] = "c_print"
    BY <1>8 DEF StartThreads, ConnectStamp
  <2> QED
    BY <1>2, <2>1, <2>2, <2>3, <2>4, <2>5
    DEF Parts, FlagInv, CloseInv, TurnInv, StampInv, PongDue, HeartMidway
<1>9. CASE ConnectFlag(t)
  <2>1. /\ UNCHANGED <<msg, sock_cache, conn, pings>> /\ heart_received' = TRUE
        /\ pc[t] = "c_flag" /\ pc' = [pc EXCEPT ![t] = "c_print"]
    BY <1>9 DEF ConnectFlag
  <2>2. race' = race
    BY <1>3, <2>1, NoRace DEF Opened
  <2>3. InConnect
    BY <2>1 DEF InConnect
  <2> QED
    BY <1>1, <1>2, <2>1, <2>2, <2>3
    DEF Parts, FlagInv, CloseInv, TurnInv, StampInv, PongDue, HeartMidway
<1>10. CASE ConnectPrint(t)
  <2>1. /\ UNCHANGED <<msg, sock_cache, conn, pings, heart_received>>
        /\ pc[t] = "c_print" /\ pc'["heart"] = pc["heart"]
        /\ \A u \in Thread : pc'[u] = "c_print" => pc[u] = "c_print"
    BY <1>1, <1>10 DEF ConnectPrint, ReturnConnected
  <2>2. race' = race
    BY <1>3, <2>1, NoRace DEF Opened
  <2>3. InConnect /\ (race = "none" => heart_received)
    BY <2>1 DEF InConnect, Parts, StampInv
  <2> QED
    BY <1>2, <2>1, <2>2, <2>3
    DEF Parts, FlagInv, CloseInv, TurnInv, StampInv, PongDue, HeartMidway
<1> QED
  BY <1>4, <1>5, <1>6, <1>7, <1>8, <1>9, <1>10 DEF ConnectServer

(* Whoever closes the socket, there is no connection to judge then.        *)
LEMMA DisconnectParts ==
  ASSUME IInv, IInv', Parts, RaceStep, NEW t \in Thread, Disconnect(t)
  PROVE  Parts'
<1> USE Threads, ConstantAssumption DEF IInv, TypeOK, ThreadTypeOK, ManagerTypeOK,
      NetTypeOK, ThreadInv, HasSocket, SendLabel, ConnectLabel, DisconnectLabel
<1>1. ~Unacked /\ heart_received' = heart_received
  BY DEF Disconnect, DisconnectLock, DisconnectClose, DisconnectPrint, Unacked
<1>2. ~Read
  BY DEF Disconnect, DisconnectLock, DisconnectClose, DisconnectPrint, Read
<1>3. \A u \in Thread : pc'[u] = "c_print" => pc[u] = "c_print"
  BY DEF Disconnect, DisconnectLock, DisconnectClose, DisconnectPrint
<1>4. CASE DisconnectLock(t)
  <2>1. UNCHANGED <<msg, sock_cache, conn, pings, inbox>> /\ pc' = [pc EXCEPT ![t] = "d_close"]
        /\ pc[t] = "d_lock"
    BY <1>4 DEF DisconnectLock
  <2>2. race' = race
    BY <1>1, <1>2, <2>1, NoRace DEF Opened
  <2>3. \A u \in Thread : Connecting(u)' <=> Connecting(u)
    BY <2>1
  <2>4. HeartMidway' <=> HeartMidway
    BY <2>1 DEF HeartMidway
  <2>5. InConnect' <=> InConnect
    BY <2>3 DEF InConnect
  <2> QED
    BY <1>1, <1>3, <2>1, <2>2, <2>4, <2>5
    DEF Parts, FlagInv, CloseInv, TurnInv, StampInv, PongDue
<1>5. CASE DisconnectClose(t)
  <2>1. ~HasSocket'
    BY <1>5 DEF DisconnectClose
  <2>2. \A u \in Thread : pc'[u] # "c_print"
    <3>1. ASSUME NEW u \in Thread, pc'[u] = "c_print" PROVE FALSE
      <4>1. u # t /\ pc[u] = "c_print" /\ pc[t] = "d_close"
        BY <1>5, <3>1 DEF DisconnectClose
      <4>2. OwnsSocket(u) /\ OwnsSocket(t)
        BY <4>1
      <4> QED BY <4>1, <4>2, OneOwner
    <3> QED BY <3>1
  <2> QED BY <2>1, <2>2 DEF Parts, FlagInv, CloseInv, TurnInv, StampInv
<1>6. CASE DisconnectPrint(t)
  <2>1. ~HasSocket /\ sock_cache' = sock_cache
    BY <1>6 DEF DisconnectPrint, OwnerInv
  <2>2. race' = race
    BY <1>1, <1>2, <2>1, NoRace DEF Opened
  <2> QED
    BY <1>1, <1>3, <2>1, <2>2 DEF Parts, FlagInv, CloseInv, TurnInv, StampInv
<1> QED BY <1>4, <1>5, <1>6 DEF Disconnect

(* main does nothing here that heart or the connection could see.          *)
LEMMA MainParts ==
  ASSUME IInv, Parts, RaceStep, WWinMain
  PROVE  Parts'
<1> USE Threads DEF IInv, TypeOK, ThreadTypeOK, ThreadInv, MainLabel, SendLabel,
      ConnectLabel
<1>1. /\ UNCHANGED <<sock_cache, heart_received, conn, pings, inbox>>
      /\ pc["main"] \in MainLabel /\ pc'["main"] \in MainLabel \cup {"s_check", "d_lock", "exited"}
      /\ pc'["main"] = "s_check" => msg'["main"] = "chat"
      /\ \A u \in Thread : u # "main" => pc'[u] = pc[u] /\ msg'[u] = msg[u]
  BY DEF WWinMain, StartWindow, RegisterMessageEvent, WindowCreated,
     WindowFails, ProcessInput, OnWindowClose
<1>2. race' = race
  BY <1>1, NoRace DEF Opened, Read, Unacked
<1>3. InConnect' <=> InConnect
  BY <1>1 DEF InConnect
<1>4. \A u \in Thread : pc'[u] = "c_print" => pc[u] = "c_print"
  BY <1>1
<1>5. PongDue(sock_cache)' <=> PongDue(sock_cache)
  BY <1>1 DEF PongDue
<1> QED BY <1>1, <1>2, <1>3, <1>4, <1>5, CalmStep

(* recv takes a PONG: whole and by itself it sets heart_received; cut, with *)
(* another text or after heart's decision it is a race; and it stays if    *)
(* only what was before it is taken.                                       *)
LEMMA ReceiveParts ==
  ASSUME IInv, Parts, RaceStep, ReceiveMessage
  PROVE  Parts'
<1> USE Threads DEF IInv, TypeOK, ThreadTypeOK, ManagerTypeOK, NetTypeOK, ThreadInv,
      RecvLabel, SendLabel, ConnectLabel, HasSocket
<1>1. /\ UNCHANGED <<sock_cache, conn, pings, msg>>
      /\ pc["recv"] \in RecvLabel
      /\ pc'["recv"] \in RecvLabel \cup {"c_lock", "d_lock"}
      /\ \A u \in Thread : u # "recv" => pc'[u] = pc[u]
  BY DEF ReceiveMessage, ReceiveTurn, Select, IsSet, ReceiveText, ReceiveEnds, DeliverText
<1>2. ~Opened /\ ~Unacked
  BY <1>1 DEF Opened, Unacked
<1>3. InConnect' <=> InConnect
  BY <1>1 DEF InConnect
<1>4. \A u \in Thread : pc'[u] = "c_print" => pc[u] = "c_print"
  BY <1>1
<1>5. CASE ReceiveTurn \/ Select \/ IsSet \/ ReceiveEnds \/ DeliverText
  <2>1. UNCHANGED <<heart_received, inbox>>
    BY <1>5 DEF ReceiveTurn, Select, IsSet, ReceiveEnds, DeliverText
  <2>2. race' = race
    BY <1>2, <2>1, NoRace DEF Read
  <2>3. PongDue(sock_cache)' <=> PongDue(sock_cache)
    BY <1>1, <2>1 DEF PongDue
  <2> QED BY <1>1, <1>3, <1>4, <2>1, <2>2, <2>3, CalmStep
<1>6. CASE ReceiveText
  <2> DEFINE text == inbox[sock_cache]
  <2>1. PICK n \in 1..Len(text) :
          /\ inbox' = [inbox EXCEPT ![sock_cache] = SubSeq(text, n + 1, Len(text))]
          /\ heart_received' = (heart_received \/ SubSeq(text, 1, n) = Pong)
          /\ pc'["recv"] # "r_recv"
    BY <1>6 DEF ReceiveText
  <2> DEFINE str  == SubSeq(text, 1, n)
             left == SubSeq(text, n + 1, Len(text))
  <2>2. text \in Seq(Piece) /\ sock_cache \in Handle /\ pc["recv"] = "r_recv"
    BY <1>6 DEF ReceiveText
  <2>3. Len(text) \in Nat /\ n \in Nat /\ 1 <= n /\ n <= Len(text)
    BY <2>2
  <2>4. Len(left) = Len(text) - n /\ Len(str) = n
    BY <2>2, <2>3
  <2>5. inbox'[sock_cache] = left
    BY <2>1, <2>2
  <2>6. Taken = str
    <3>1. Len(text) - Len(inbox'[sock_cache]) = n
      BY <2>3, <2>4, <2>5
    <3> QED BY <1>1, <3>1 DEF Taken
  <2>7. Read
    <3>1. inbox'[sock_cache] # inbox[sock_cache]
      BY <2>3, <2>4, <2>5
    <3> QED BY <2>1, <2>2, <3>1 DEF Read
  <2>8. race' = IF str = Pong
                THEN IF pc["heart"] \in {"d_lock", "d_close"} THEN "late" ELSE race
                ELSE IF str[Len(str)] = "PO" THEN "cut"
                ELSE IF Holds(str) THEN "swallowed" ELSE race
    BY <1>2, <2>6, <2>7 DEF RaceStep, ReadRace
  <2>9. PongDue(sock_cache) /\ ~PongDue(sock_cache)' => Holds(str)
    BY <1>1, <2>2, <2>5, ReadPong DEF PongDue
  <2>11. race' = "none" => race = "none"
    BY <2>8
  <2>12. race' = "none" /\ PongDue(sock_cache) /\ ~PongDue(sock_cache)' =>
           str = Pong /\ pc["heart"] \notin {"d_lock", "d_close"}
    BY <2>8, <2>9
  <2>13. pc'["heart"] = pc["heart"] /\ (str = Pong => heart_received')
         /\ (heart_received => heart_received')
    BY <1>1, <2>1
  <2> HIDE DEF text, str, left
  <2>14. FlagInv' /\ CloseInv'
    BY <1>1, <1>3, <2>11, <2>12, <2>13 DEF Parts, FlagInv, CloseInv
  <2>15. TurnInv' /\ StampInv'
    BY <1>1, <1>3, <1>4, <2>11, <2>13 DEF Parts, TurnInv, StampInv, HeartMidway
  <2> QED BY <2>14, <2>15 DEF Parts
<1> QED BY <1>5, <1>6 DEF ReceiveMessage

(* heart decides to disconnect only while it owes a PONG, and forgets      *)
(* heart_received only while one is due: else that is a race.              *)
LEMMA HeartParts ==
  ASSUME IInv, Parts, RaceStep, SendHeartThread
  PROVE  Parts'
<1> USE Threads DEF IInv, TypeOK, ThreadTypeOK, ManagerTypeOK, ThreadInv,
      HeartLabel, SendLabel, ConnectLabel, HasSocket
<1>1. /\ UNCHANGED <<sock_cache, conn, pings, inbox, msg>>
      /\ pc["heart"] \in HeartLabel
      /\ pc'["heart"] \in HeartLabel \cup {"s_check", "d_lock"}
      /\ \A u \in Thread : u # "heart" => pc'[u] = pc[u]
  BY DEF SendHeartThread, HeartInit, HeartReset, HeartCheck, HeartTime, HeartPing,
     HeartTimesOut, HeartStamp, HeartUnack, HeartWakes
<1>2. ~Opened /\ ~Read
  BY <1>1 DEF Opened, Read
<1>3. InConnect' <=> InConnect
  BY <1>1 DEF InConnect
<1>4. \A u \in Thread : pc'[u] = "c_print" => u # "heart" /\ pc[u] = "c_print"
  BY <1>1
<1>5. PongDue(sock_cache)' <=> PongDue(sock_cache)
  BY <1>1 DEF PongDue
<1>6. CASE HeartUnack
  <2>1. pc["heart"] = "h_unack" /\ pc'["heart"] = "h_sleep"
    BY <1>6 DEF HeartUnack
  <2>2. Unacked
    BY <2>1 DEF Unacked
  <2>3. FlagInv' /\ CloseInv' /\ TurnInv'
    BY <1>1, <1>2, <1>5, <2>1, <2>2, NoRace DEF FlagInv, CloseInv, TurnInv, HeartMidway
  <2>4. race' = "none" => race = "none"
    BY <1>2, NoRace
  <2>5. ASSUME NEW t \in Thread, pc'[t] = "c_print", race' = "none" PROVE FALSE
    <3>1. pc[t] = "c_print"
      BY <1>4, <2>5
    <3>2. Connecting(t) /\ server_connected
      BY <3>1 DEF OwnerInv
    <3>3. HasSocket /\ InConnect /\ HeartMidway
      BY <2>1, <3>2 DEF SocketInv, ConnectedHasSocket, InConnect, HeartMidway
    <3> QED BY <2>4, <2>5, <3>3 DEF Parts, TurnInv
  <2> QED BY <2>3, <2>5 DEF Parts, StampInv
<1>7. CASE ~HeartUnack
  <2>1. race' = race
    <3>1. ~Unacked
      BY <1>7 DEF Unacked, SendHeartThread, HeartInit, HeartCheck, HeartTime,
         HeartPing, HeartTimesOut, HeartStamp, HeartWakes
    <3> QED BY <1>2, <3>1, NoRace
  <2>2. heart_received' = heart_received \/ heart_received' = TRUE
    BY <1>7 DEF SendHeartThread, HeartInit, HeartReset, HeartCheck, HeartTime, HeartPing,
       HeartTimesOut, HeartStamp, HeartWakes
  <2>3. FlagInv' /\ StampInv'
    BY <1>1, <1>3, <1>4, <1>5, <2>1, <2>2 DEF Parts, FlagInv, StampInv
  <2>4. ASSUME HeartMidway', ~HeartMidway PROVE ~InConnect
    <3>1. HeartCheck /\ pc'["heart"] = "h_time"
      BY <1>7, <2>4 DEF HeartMidway, SendHeartThread, HeartInit, HeartCheck,
         HeartTime, HeartPing, HeartTimesOut, HeartStamp, HeartWakes
    <3>2. ~server_connecting
      BY <3>1 DEF HeartCheck
    <3> QED BY <3>2 DEF MutexInv, InConnect
  <2>5. TurnInv'
    BY <1>1, <1>3, <2>1, <2>4 DEF Parts, TurnInv
  <2>6. ASSUME pc'["heart"] \in {"d_lock", "d_close"}, HasSocket,
               race = "none", conn[sock_cache] = "up"
        PROVE  PongDue(sock_cache)
    <3>1. pc["heart"] = "h_flag" /\ ~heart_received
      BY <1>7, <2>6 DEF SendHeartThread, HeartInit, HeartCheck, HeartTime,
         HeartPing, HeartTimesOut, HeartStamp, HeartWakes
    <3>2. ~InConnect
      BY <2>6, <3>1 DEF Parts, TurnInv, HeartMidway
    <3> QED BY <2>6, <3>1, <3>2 DEF Parts, FlagInv
  <2>7. CloseInv'
    BY <1>1, <1>5, <2>1, <2>6 DEF CloseInv
  <2> QED BY <2>3, <2>5, <2>7 DEF Parts
<1> QED BY <1>6, <1>7

(* The server owes a PONG until it waits to be read; a connection that     *)
(* ends is no longer alive.                                                *)
LEMMA ServerParts ==
  ASSUME IInv, Parts, RaceStep, Server
  PROVE  Parts'
<1> USE Threads, ConstantAssumption DEF IInv, TypeOK, ThreadTypeOK, ManagerTypeOK,
      NetTypeOK, HasSocket
<1>1. UNCHANGED <<pc, msg, sock_cache, heart_received>>
  BY DEF Server
<1>2. race' = race
  BY <1>1, NoRace DEF Opened, Read, Unacked
<1>3. InConnect' <=> InConnect
  BY <1>1 DEF InConnect
<1>4. ASSUME HasSocket, conn'[sock_cache] = "up"
      PROVE  conn[sock_cache] = "up" /\ (PongDue(sock_cache) => PongDue(sock_cache)')
  <2> DEFINE s == inbox[sock_cache]
  <2>0. sock_cache \in Handle /\ s \in Seq(Piece) /\ "chat" \in Piece
    BY <1>4 DEF Piece
  <2>1. PICK h \in Handle :
          \/ ServerText(h)
          \/ ServerPong(h)
          \/ \E state \in {"fin", "reset", "vanished"} : PeerFails(h, state)
    BY DEF Server
  <2>2. conn[sock_cache] = "up"
    BY <1>4, <2>0, <2>1 DEF ServerText, ServerPong, PeerFails
  <2>3. CASE h # sock_cache
    <3>1. inbox'[sock_cache] = s /\ pings'[sock_cache] = pings[sock_cache]
      BY <2>0, <2>1, <2>3 DEF ServerText, ServerPong, PeerFails
    <3> QED BY <1>1, <2>2, <3>1 DEF PongDue
  <2>4. CASE h = sock_cache
    <3>1. ~ \E state \in {"fin", "reset", "vanished"} : PeerFails(h, state)
      BY <1>4, <2>0, <2>4 DEF PeerFails
    <3>2. CASE ServerText(h)
      <4>1. inbox'[sock_cache] = Append(s, "chat") /\ pings' = pings
        BY <2>0, <2>4, <3>2 DEF ServerText
      <4>2. Holds(s) => Holds(Append(s, "chat"))
        BY <2>0, HoldsAppended
      <4> HIDE DEF s
      <4>3. Holds(s) => PongDue(sock_cache)'
        BY <1>1, <4>1, <4>2 DEF PongDue
      <4>4. PongDue(sock_cache) <=> pings[sock_cache] > 0 \/ Holds(s)
        BY DEF PongDue, s
      <4>5. pings[sock_cache] > 0 => PongDue(sock_cache)'
        BY <1>1, <4>1 DEF PongDue
      <4> QED BY <2>2, <4>3, <4>4, <4>5
    <3>3. CASE ServerPong(h)
      <4>1. inbox'[sock_cache] = s \o Pong
        BY <2>0, <2>4, <3>3 DEF ServerPong
      <4>2. Holds(s \o Pong)
        BY <2>0, HoldsAnswered
      <4> HIDE DEF s
      <4>3. PongDue(sock_cache)'
        BY <1>1, <4>1, <4>2 DEF PongDue
      <4> QED BY <2>2, <4>3
    <3> QED BY <2>1, <3>1, <3>2, <3>3
  <2> QED BY <2>3, <2>4
<1> QED BY <1>1, <1>2, <1>3, <1>4, CalmStep

(* A step that changes none of what the parts speak of.                    *)
LEMMA StillParts ==
  ASSUME IInv, Parts, race' = race,
         UNCHANGED <<pc, msg, sock_cache, heart_received, conn, inbox, pings>>
  PROVE  Parts'
<1>1. InConnect' <=> InConnect
  BY DEF InConnect
<1>2. PongDue(sock_cache)' <=> PongDue(sock_cache)
  BY DEF PongDue
<1> QED BY <1>1, <1>2, CalmStep

(* The clock does not matter to the parts.                                 *)
LEMMA TickParts ==
  ASSUME IInv, Parts, RaceStep, Tick
  PROVE  Parts'
<1>1. UNCHANGED <<pc, msg, sock_cache, heart_received, conn, inbox, pings>>
  BY DEF Tick
<1>2. race' = race
  BY <1>1, NoRace DEF Opened, Read, Unacked
<1> QED BY <1>1, <1>2, StillParts

-----------------------------------------------------------------------------
(* The inductive invariant of the manager with its history.                *)

(* Without a socket there is nothing to explain.                           *)
LEMMA RaceInvInit == RaceInit => RaceInv
<1> SUFFICES ASSUME RaceInit PROVE RaceInv
  OBVIOUS
<1>1. IInv
  BY IInvInit DEF RaceInit
<1>2. ~HasSocket
  BY DEF RaceInit, Init, HasSocket
<1>3. \A t \in Thread : pc[t] # "c_print"
  BY DEF RaceInit, Init
<1> QED BY <1>1, <1>2, <1>3 DEF RaceInv, FlagInv, CloseInv, TurnInv, StampInv

(* One lemma for each thread and for the server.                           *)
LEMMA RaceInvStep == RaceInv /\ [Next /\ RaceStep]_<<vars, race>> => RaceInv'
<1> SUFFICES ASSUME RaceInv, [Next /\ RaceStep]_<<vars, race>> PROVE RaceInv'
  OBVIOUS
<1>1. IInv /\ Parts
  BY DEF RaceInv, Parts
<1>2. IInv'
  BY <1>1, IInvStep
<1>4. ASSUME Next /\ RaceStep PROVE Parts'
  <2>1. ASSUME NEW t \in Thread, ConnectServer(t) PROVE Parts'
    BY <1>1, <1>2, <1>4, <2>1, ConnectParts
  <2>2. ASSUME NEW t \in Thread, SendMessageData(t) PROVE Parts'
    BY <1>1, <1>4, <2>2, SendParts
  <2>3. ASSUME NEW t \in Thread, Disconnect(t) PROVE Parts'
    BY <1>1, <1>2, <1>4, <2>3, DisconnectParts
  <2>4. WWinMain => Parts'
    BY <1>1, <1>4, MainParts
  <2>5. ReceiveMessage => Parts'
    BY <1>1, <1>4, ReceiveParts
  <2>6. SendHeartThread => Parts'
    BY <1>1, <1>4, HeartParts
  <2>7. Tick => Parts'
    BY <1>1, <1>4, TickParts
  <2>8. Server => Parts'
    BY <1>1, <1>4, ServerParts
  <2>9. ASSUME UNCHANGED vars PROVE Parts'
    <3>1. UNCHANGED <<pc, msg, sock_cache, heart_received, conn, inbox, pings>>
      BY <2>9 DEF vars
    <3>2. race' = race
      BY <1>4, <3>1, NoRace DEF Opened, Read, Unacked
    <3> QED BY <1>1, <3>1, <3>2, StillParts
  <2>10. \/ \E t \in Thread : ConnectServer(t) \/ SendMessageData(t) \/ Disconnect(t)
         \/ WWinMain \/ ReceiveMessage \/ SendHeartThread \/ Tick \/ Server
         \/ UNCHANGED vars
    BY <1>4, NextCases
  <2> QED
    BY ONLY <2>1, <2>2, <2>3, <2>4, <2>5, <2>6, <2>7, <2>8, <2>9, <2>10
<1>5. ASSUME UNCHANGED <<vars, race>> PROVE Parts'
  <2>1. vars' = vars /\ race' = race
    BY <1>5
  <2>2. UNCHANGED <<pc, msg, sock_cache, heart_received, conn, inbox, pings>>
    BY <2>1 DEF vars
  <2> QED BY <1>1, <2>1, <2>2, StillParts
<1>6. Parts'
  BY <1>4, <1>5
<1> QED BY <1>2, <1>6 DEF RaceInv, Parts

(* RaceInv holds in every state.                                           *)
THEOREM RaceInvariance == RaceSpec => []RaceInv
  BY RaceInvInit, RaceInvStep, PTL DEF RaceSpec

(* Whenever SendHeartThread closes a connection that is alive and owes it  *)
(* no PONG, one of the five races with ReceiveMessage came before.         *)
THEOREM HealthyClosesExplained == RaceSpec => []HealthyCloseExplained
<1>1. RaceInv => HealthyCloseExplained
  BY DEF RaceInv, CloseInv, HealthyCloseExplained
<1> QED BY <1>1, RaceInvariance, PTL
=============================================================================
