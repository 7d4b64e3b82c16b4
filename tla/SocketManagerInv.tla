-------------------------- MODULE SocketManagerInv --------------------------
(***************************************************************************)
(* Why SocketManager is safe: who owns the mutexes, which thread can be    *)
(* where, and what the owner of socket_mutex may rely on.  The parts are   *)
(* inductive together and imply the safety properties of SocketManager.    *)
(***************************************************************************)
EXTENDS SocketManager

Greeting(t) == pc[t] \in SendLabel /\ msg[t] = "xyc"

(* t is inside ConnectServer, from its first line on.                      *)
Connecting(t) == pc[t] \in ConnectLabel \ {"c_lock"} \/ Greeting(t)

OwnsSocket(t) == Connecting(t) \/ pc[t] \in {"d_close", "d_print"}

(* A mutex belongs to the thread that is between its lock and its unlock,  *)
(* and server_connecting is TRUE exactly while some thread connects.       *)
MutexInv ==
  /\ \A t \in Thread : socket_mutex = t <=> OwnsSocket(t)
  /\ \A t \in Thread : send_mutex = t <=> pc[t] = "s_send"
  /\ server_connecting <=> \E t \in Thread : Connecting(t)

MainStarting ==
  pc["main"] \in {"c_lock", "c_open", "c_connect", "c_threads"} \/ Greeting("main")

(* Each thread runs its own functions; until the first ConnectServer has   *)
(* started the other two, there is only main.                              *)
ThreadInv ==
  /\ pc["main"] \in MainLabel \cup ConnectLabel \cup SendLabel \cup DisconnectLabel \cup StopLabel
  /\ pc["recv"] \in RecvLabel \cup ConnectLabel \cup SendLabel \cup DisconnectLabel \cup {"off"}
  /\ pc["heart"] \in HeartLabel \cup SendLabel \cup DisconnectLabel \cup {"off"}
  /\ msg["main"] \in {"xyc", "chat"} /\ msg["recv"] = "xyc" /\ msg["heart"] = "PING"
  /\ pc["main"] \in DisconnectLabel => ret["main"] \in {"exited", "aborted"}
  /\ pc["recv"] \in DisconnectLabel => ret["recv"] \in {"r_loop", "c_lock"}
  /\ pc["heart"] \in DisconnectLabel => ret["heart"] = "h_check"
  /\ MainStarting => pc["recv"] = "off" /\ pc["heart"] = "off"

(* What a thread finds at each point of ConnectServer and Disconnect: no   *)
(* socket when it connects and when it has closed, a fresh one before      *)
(* connect, a connected one until it returns.                              *)
OwnerInv ==
  /\ \A t \in Thread : pc[t] \in {"c_lock", "c_open", "d_print"} => ~HasSocket
  /\ \A t \in Thread : pc[t] = "c_connect" =>
       HasSocket /\ conn[sock_cache] = "created" /\ ~server_connected
  /\ \A t \in Thread : pc[t] = "d_close" => ~server_connected
  /\ \A t \in Thread : Connecting(t) /\ pc[t] \notin {"c_open", "c_connect"} =>
       server_connected

(* The handle in sock_cache is the one that is open, and Winsock is up for *)
(* it.                                                                     *)
SocketInv ==
  /\ WinsockBalance
  /\ \A h \in Handle : conn[h] # "free" <=> sock_cache = h
  /\ ConnectedHasSocket

GreetInv ==
  /\ \A h \in Handle : authorized[h] <= 1
  /\ \A h \in Handle : conn[h] \in {"free", "created"} => authorized[h] = 0
  /\ \A t \in Thread : Greeting(t) => authorized[sock_cache] = 0
  /\ server_connected /\ (\A t \in Thread : ~Greeting(t)) =>
       authorized[sock_cache] = 1 \/ conn[sock_cache] = "reset"

(* Only recv opens sockets while it runs, so what select said of readfds   *)
(* still holds of sock_cache, unless heart closed it.                      *)
ReadInv ==
  /\ pc["recv"] \in {"r_select", "r_isset", "r_recv"} /\ HasSocket => sock_cache = readfds
  /\ pc["recv"] \in {"r_isset", "r_recv"} /\ HasSocket => Readable(sock_cache)

IInv == TypeOK /\ MutexInv /\ ThreadInv /\ OwnerInv /\ SocketInv /\ GreetInv /\ ReadInv
=============================================================================
