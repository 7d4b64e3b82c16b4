-------------------------- MODULE HeartbeatRaces --------------------------
(***************************************************************************)
(* Why the heartbeat may close a connection that is alive.  A history      *)
(* variable is added to SocketManager: the last race of heart and recv on  *)
(* the socket in use.  It reads the steps of SocketManager and changes     *)
(* none of them.                                                           *)
(***************************************************************************)
EXTENDS SocketManager

VARIABLE race

(* stale      the socket was opened in the middle of a turn of heart       *)
(* erased     PONG was read before heart wrote heart_received = false      *)
(* swallowed  a read held the start of PONG together with another text     *)
(* cut        a read ended inside PONG                                     *)
(* late       PONG was read after heart had decided to disconnect          *)

HeartMidway == pc["heart"] \notin {"off", "h_init", "h_check", "h_sleep"}

(* The text holds a PONG, or the start of one.                             *)
Holds(text) == \E i \in 1..Len(text) : text[i] = "PO"

(* The server owes the PONG of a PING, or the PONG waits to be read whole. *)
PongDue(h) == pings[h] > 0 \/ Holds(inbox[h])

RaceInit == Init /\ race = "none"

Opened == sock_cache' # sock_cache

Unacked == pc["heart"] = "h_unack" /\ pc'["heart"] # "h_unack"

Read == pc["recv"] = "r_recv" /\ pc'["recv"] # "r_recv" /\ inbox' # inbox

(* What recv took from the front of the unread pieces.                     *)
Taken == SubSeq(inbox[sock_cache], 1,
                Len(inbox[sock_cache]) - Len(inbox'[sock_cache]))

ReadRace ==
  IF Taken = Pong
  THEN IF pc["heart"] \in {"d_lock", "d_close"} THEN "late" ELSE race
  ELSE IF Taken[Len(Taken)] = "PO" THEN "cut"
  ELSE IF Holds(Taken) THEN "swallowed" ELSE race

(* Three kinds of steps, each of a thread of its own, and all others.      *)
RaceStep ==
  \/ Opened /\ race' = IF HasSocket' /\ HeartMidway THEN "stale" ELSE "none"
  \/ Unacked /\ race' = IF HasSocket /\ ~PongDue(sock_cache) THEN "erased" ELSE race
  \/ /\ Read
     /\ race' = ReadRace
  \/ ~Opened /\ ~Unacked /\ ~Read /\ UNCHANGED race

RaceSpec == RaceInit /\ [][Next /\ RaceStep]_<<vars, race>>

(* When the heartbeat closes a connection that is alive and has answered   *)
(* every PING, one of the five races is to blame: apart from them, a       *)
(* server that answers in time is never cut off.                           *)
HealthyCloseExplained ==
  (pc["heart"] = "d_close" /\ HasSocket /\ conn[sock_cache] = "up") =>
    (PongDue(sock_cache) \/ race # "none")
=============================================================================
