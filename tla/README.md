# A TLA+ verification of ChatClient

ChatClient is a small Windows chat program: one TCP connection to a fixed
server, a window with an output and an input line, a heartbeat, a reconnect and
a log file. It has three threads around one connection and a fourth around the
log, two mutexes, a condition variable, and several flags that are read without
a lock. It has no tests and no documentation. This directory models its control,
checks the models with TLC and proves their safety with TLAPS.

Paths below are relative to the repository; `SocketManager.cpp` is
`src/Scripts/Manager/SocketManager.cpp`, and so on.

## 1. Inventory

| Component | Files | State | Operations | Status |
|---|---|---|---|---|
| Connection manager | `SocketManager.cpp/.h` | `sock_cache`, `server_connected`, `server_connecting`, `socket_mutex`, `send_mutex`, `MessageActionMap`, the two threads | `ConnectServer`, `Disconnect`, `Reconnect`, `SendMessageData`, `RegisterMessageEvent`, `ReceiveMessage` | modelled |
| Heartbeat | `SocketManager.cpp` 249-290 | `heart_received`, `last_send_time` | `SendHeartThread`, the PONG branch of `ReceiveMessage` | modelled |
| Chat window | `WinMain.cpp` | `messages`, `hEdit`, `hOutput` | `wWinMain`, `ProcessInput`, `OnReceiveMessage`, `OnPrintMessage`, `UpdateOutput`, `OnWindowClose` | modelled, layout apart |
| Log | `LogManager.cpp/.h`, `LogUtils.cpp` | `_messageQueue`, `_queueMutex`, `_cv`, `_running`, `_file`, the writer | `OnCreate`, `AddMessage`, `WriterFunction`, `OnDestroy` | modelled |
| Singletons, exit | `Singleton.h` | one `instance` per class, the `atexit` list | `GetInstance`, `DestroyInstance` | modelled |
| Packet codec | `NetPack.cpp/.h` | the fields of a packet | the constructors, `serialize`, `deserialize` | modelled; the client does not call it yet |
| Text conversion | `TextUtils.cpp/.h` | none | UTF-16 to UTF-8 and back, time formatting | partly |
| Application instance | `ApplicationInstance.cpp/.h` | values set once | `OnCreate` | not modelled: nothing uses it |
| Console client | `Main.cpp` | | | not modelled: `Config.h` sets `UseWinMain`, which compiles it out |
| protobuf | `third/` | | | not modelled: third-party, and nearly all of the repository's lines |

How they interact. `wWinMain` (thread *main*) connects, registers two handlers
and runs the window's message loop. The first `ConnectServer` starts *recv*
(`ReceiveMessage`: `select`, `recv`, and every reconnect) and *heart*
(`SendHeartThread`: PING every ten seconds, `Disconnect` when PONG is overdue).
`socket_mutex` is held for the whole of `ConnectServer` and `Disconnect`,
`send_mutex` for a send. Both handlers end in `SetWindowText` on a window that
belongs to *main*: called on another thread it waits until *main* is back in its
message loop, and it may be called with `socket_mutex` held. Every thread adds
lines to the log's queue; the writer empties it.

What is hard, and what must hold all the same:

* recv and heart may find the same dead connection at the same time; either may
  act on a connection the other has replaced (sockets, Winsock's count and
  authorization must stay right; a session must not be entered twice);
* `sock_cache` and the flags are checked in one place and used in another
  (`recv` must never block; no flag may promise a socket that is not there);
* heart's decision to disconnect and its writes of `heart_received` and
  `last_send_time` race with PONG and with reconnects (a healthy connection
  should be closed for no other reason);
* two mutexes and the message loop (nobody may wait in a circle);
* vanished peers, failing connects (the client must come back);
* `messages` and the map of handlers have no lock, and three threads push lines
  to the one and look handlers up in the other while *main* registers them (every
  line that is not on the screen should have a reason);
* `_running` is cleared outside the mutex its condition variable uses, the file
  has a buffer whose flush may fail unnoticed, and the program may end at any
  moment by `ExitProcess`;
* the log is created first by the thread that logs first, destroyed before
  `SocketManager::OnDestroy` logs its last line, and then created again; another
  thread sees a log that is there and not yet started;
* TCP cuts UTF-8 where it likes, a text brings its terminating NUL along, a send
  may fail without anyone looking, and a text that reads "PONG" is a heartbeat.

`PROJECT.json` lists these hazards one by one at their lines.

## 2. Modules

| Module | Content |
|---|---|
| `SocketManager` | the connection manager, its three threads, and the server and network around them; safety and liveness properties; the refinement mapping to `Session` |
| `Session` | abstract: one session after the other, each greeted at most once |
| `HeartbeatRaces` | `SocketManager` with a history variable that names why heart closes a connection |
| `SocketManagerInv` | the inductive invariant `IInv`, in named parts |
| `SocketManagerProofs` | proof of type correctness |
| `SocketManagerSafety` | proof of `IInv`, of the safety properties with `NoWaitCycle`, and that `SocketManager` implements `Session` |
| `HeartbeatRacesProofs` | its inductive invariant, on top of `IInv`, and the proof of `HealthyCloseExplained` |
| `LogManager` | the log: queue, mutex, condition variable, file buffer, writer, the three ways it ends; the mapping to `Journal` |
| `Journal` | abstract: lines are only added, and a growing beginning of them is kept |
| `LogManagerProofs` | the log's inductive invariant, its safety properties, and that it implements `Journal` |
| `ChatWindow` | the lines of the window, pushed and shown by three threads without a lock |
| `ChatWindowProofs` | its inductive invariant and safety properties |
| `Lifecycle` | `LogManager` composed with the singletons, `atexit` and the end of the program |
| `LifecycleProofs` | its inductive invariant and safety properties |
| `TextUtils` | a text from the input field over UTF-8 and TCP to another client |
| `TextUtilsProofs` | induction over sequences, lemmas on what the conversions keep, its inductive invariant and safety properties |
| `NetPack` | `serialize` and `deserialize` on packets that are made, answered and cut |
| `NetPackProofs` | the layout of the header, its inductive invariant and safety properties |
| `MC*` | constants for TLC |

### SocketManager and the code

Each thread has a label `pc[t]`: `c_*` in `ConnectServer`, `d_*` in
`Disconnect`, `s_*` in `SendMessageData`, `m_*`, `r_*`, `h_*` in the thread's own
function. `ret[t]` is where a `Disconnect` returns to. One action is what a
thread does between two points at which another thread can see a difference;
wherever the code reads shared state without the lock it is written under, the
read is a step of its own: `SendCheck` (312) and `SendNow` (323), `Select` (183),
`IsSet` (195) and `ReceiveText` or `ReceiveEnds` (196), `HeartTime` (272),
`HeartPing` or `HeartTimesOut` (273), `HeartStamp` (283), `HeartUnack` (284),
`ConnectStamp` (133), `ConnectFlag` (134). `Reconnect` is `c_lock` entered by
recv, and `ReturnFailed` is its `Disconnect` after a failure (for main: the
`Disconnect` of `OnDestroy` when `wWinMain` returns).

Reads that are merged, and why that loses nothing:

* `HeartCheck` evaluates the three conditions of line 259 at once. If all three
  reads say "usable", there was an instant between the first and the last at
  which all held: either `server_connecting` was already FALSE when
  `server_connected` was read TRUE, or the `ConnectServer` that was running then
  returned before the third read, and it returns with all three true.
* `ReceiveTurn` is lines 167-181. Only recv connects once it runs outside main's
  first `ConnectServer`, so the one change that can fall between its reads is a
  close by heart, which is the same as a close just before `Select`.
* `IsSet` is both operands of line 195. Between the two reads the socket can only
  go from usable to closed: heart clears `server_connected` before it closes the
  socket, and only recv itself would connect again. A close that falls between
  the reads either leaves both as they were read or is seen by the second; the
  first is the same as a close between `IsSet` and `ReceiveText`, which is a step of heart
  in the model, the second the same as a close before `IsSet`.

Data that is abstracted: what the server sends is a sequence of pieces. A chat text is
the piece `"chat"`, the answer to a PING is the two pieces `"PO"` and `"NG"`; `recv`
returns any non-empty prefix of the unread pieces. So several texts may come as one, and a
read may end inside PONG; line 208 holds of a read that is exactly `<<"PO", "NG">>`. Two
pieces are enough, because the code only asks whether a read is the whole of PONG: a
part of it, whichever, is a text like any other, and so is a part of a chat text. A
user's text that reads "PONG" is left to `TextUtils`; here it would set `heart_received`
and so only make heart wait longer. Addresses, log wording and return values that
every caller ignores are left out.

The environment (external): `conn[h]` is what became of handle `h`. A peer may
send, answer a PING, end the stream, reset (which discards unread data) or vanish
without a word. `select` on a closed handle fails and the loop goes on. Winsock
counts `WSAStartup`; `WSACleanup` at zero fails and changes nothing. Closed
handles are handed out again. A `send` takes effect when it returns; section 5 says what is
assumed of one that blocks. `sock_cache`,
`last_send_time` and the map of handlers are read while they may be written,
which C++ leaves undefined; a read here returns the value of the last write.

The clock is two counters: `sendAge`, the ticks since `last_send_time`, and
`nowAge`, the ticks since heart took its `now`, which line 283 writes back.

The end of the program: `OnWindowClose` calls `ExitProcess` (label `exited`); a
window that cannot be created makes `wWinMain` return, and the destruction of two
threads that were never joined ends the program (`aborted`). Both are modelled as
terminal states, and `Terminated` lets TLC tell them from a deadlock, which every
run checks.

### HeartbeatRaces

Heart may close a connection that is alive and whose server has answered every
PING: `race` records the last of five events on the socket in use.

| race | what happened | lines |
|---|---|---|
| `stale` | the socket was opened in the middle of a turn of heart, which then acts on the old one's clock and flag | 263-284 against 116-134 |
| `erased` | PONG was read after the send and before `heart_received = false` | 282-284 |
| `swallowed` | `recv` returned PONG together with another text, so `str == "PONG"` failed | 208 |
| `cut` | a `recv` ended inside PONG, so neither part is "PONG" | 196-208 |
| `late` | PONG was read after heart had found it overdue | 273-277 |

`HealthyCloseExplained` says there is no sixth way: "has answered" means that the
server owes no PONG and that none, nor the first part of one, waits to be read. Each of
the five is needed: without any one of them TLC finds a close that nothing explains.
So in the code each can cut off a healthy connection, which the client survives by reconnecting. The code, which
has no comment or test on it, does not promise otherwise, so this is recorded as
a property and not as a defect.

The race is decided by the steps of `SocketManager` alone: `RaceStep` reads
`pc`, `inbox` and `sock_cache` before and after a step and constrains only `race`.

### LogManager and Journal

`WriterFunction` is `WriterTest` (32), `WriterLock` (33, and the way out of the
wait), `WriterPredicate` and `WriterBlocks` (34), `WriterWrites` or `WriteFails`
for one message (36-43), `WriterFlushes` (45). The predicate and the sleep are
two steps although the mutex is held over both, because `OnDestroy` clears
`_running` without it; two writes are two steps because the program can end
between them. `file` is what was written and `flushed` how much of it has left
the stream's buffer, which empties itself when it is full. A flush at line 45 may
fail, where the buffered lines meet the disk. Nobody looks at it: some of the lines get there
and the others are lost, the stream is `bad`, later flushes do nothing, and the next `<<` fails. The
`close` at line 27 does the same. The log ends in one of
three ways: `OnDestroy` (`StopRunning`, `NotifyWriter`, `JoinWriter`), the
exception of a failed write, which leaves the thread and so ends the program, and
`ExitProcess` in `OnWindowClose`, which kills the writer wherever it is. `seen` is a
history variable: how many messages there were when the writer last looked.
`SeenIsOnDisk` and `ReachesDisk` hold as long as no flush has failed; `LossIsNoticed`
says what happens otherwise: the next message ends the program, so that no line is
ever written behind a gap and no message waits for a stream that takes none.

`Journal` has two variables, the lines and how many are kept. `LogManager`
implements it with `lines` as the file followed by the queue and `kept` as
`flushed`: nothing is lost, doubled or swapped on the way from the queue to the
file, a failed write, a failed flush and a kill included, and the disk holds a
beginning of what was added.

### ChatWindow

Each thread is `idle` or at one point of a handler: `find` (the look-up in
`TiggerMessageAction`), `push` (`messages.push_back`), `iterate` (the loop of
`UpdateOutput` that builds the text), `set` (`SetWindowText`). *main* also registers
the two handlers (`receive`, `print`), creates the window and, after `UpdateOutput`,
sends. What makes recv and heart report lines is left open; the callers' locks are
not: `ConnectServer` and `Disconnect` report under `socket_mutex`, a received text
comes without it.

A label stands for the whole access, so two accesses overlap when two threads
are at them. C++ leaves that undefined; `Crash` is one outcome, and after the
first overlap (`raced`) a push may get lost and a text may be built from part of
the vector. A search of the map while *main* inserts finds the handler or not.
`SetWindowText` from another thread waits until *main* is in its message loop
(`Answers`); before the output field exists it does nothing.

`HiddenLinesExplained` states what remains of "the window shows every line": when
nobody is in a handler, a line that was pushed is on the screen, unless two
threads met at the vector, the last text was set before the field existed (`early`),
a text built earlier was set later (`overtaken`), or an earlier line contains a NUL,
at which the C string ends. Every one of these occurs in the run.
`DroppedOnlyAtStart` says that a line that recv or heart reports finds no handler only
while *main* is still registering the two.

### Lifecycle

`Lifecycle` EXTENDS `LogManager` and uses its actions: what `LogManager` calls
`AddMessage`, `StopRunning`, `NotifyWriter` and `JoinWriter` are here steps of
*main* and of the threads in `Worker`, recv and heart. `GetSocket` is the first use of
`SocketManager`. The log's `GetInstance` takes no lock, so it is four steps: `GetLog`
(26), `CreateLog` (27), `RegisterLog` (28) and `StartLog` (29-34). After 27 every other
thread sees the log, and may add lines to it, stop or destroy it, before `OnCreate` has
given it a file and a writer (`writer = "unborn"`). `CreateAgain` is the assignment that
destroys a log whose writer runs, `StartAgain` an `OnCreate` on a log that has one: both
assign over or destroy a joinable `std::thread` and so end the program; `StartNone` is a
`GetInstance` that finds the log destroyed when it is done. `RunHandler` takes the last function off the `atexit` list, `Reset` is the end of
`DestroyInstance`. LogManager's variables are those of the log created last;
`log[t]` is the number of the one that thread `t` has a reference to.

*main* starts with the first `GetInstance` and goes to `exit` in one of the two ways in
which `wWinMain` returns: the first `ConnectServer` failed (no threads), or the
window could not be created (recv and heart run). In the first, exit destroys the
log, then `SocketManager::OnDestroy` logs a line, which creates a second log and
registers a second handler, which exit runs too. In the second, the destructor of
two joinable threads ends the program (`aborted`), if no line logged meanwhile
through a destroyed log has crashed it. `AddsToOpenLog` is about the first way: with
threads, *main* itself may log to a log that a thread has just created and not
started, which the model has. `EndsClean` says that only the first way ends
regularly, and then with everything destroyed. `ExitEnds` has two exceptions: the lost
notification of `ClosesUnlessLost`, and a thread's `OnCreate` that sets `_running` again
after *main*'s `OnDestroy` has cleared it. A line of the first log may be
dropped if its writer never looked: that is `SeenIsOnDisk`'s exception.

### TextUtils

One text is typed (`typed`), read by `GetWindowText` into 1024 code units, converted
by `wstring_to_utf8`, sent with its NUL, passed on by the server, read in pieces of
any size by `recv` into 4096 bytes and converted piece by piece by
`string_to_wstring`. A character is its number of bytes and of code units; a byte of
UTF-8 is the pair of its character and its place in it; a character that a read
or the buffer cuts becomes U+FFFD. The conversions are modelled by what they
do to characters. A text has as many code units as characters, and one more for
each character that takes two. `SendMessageData` may fail, with no connection (312) or in
`send` (323); `ProcessInput` clears the field all the same, and the text is one of
`failed`. A read that is `Pong` is taken for a heartbeat and never shown, whoever typed it
(208-213); `swallowed` counts its characters. `Pong` is a constant, a sequence of
characters a user can type. Bytes that are lost with a connection that breaks are
`SocketManager`'s (a reset discards what was not read).

`LossIsBounded` says what this costs, at every moment and with bytes still under
way: each read that ends inside a character loses at most that character, each that
is taken for a heartbeat the characters of it, and no other is lost; `OneNulEach` that
every text that was sent keeps its one NUL.

### NetPack

A packet has the seven fields; the string is a sequence of bytes, the kth byte of
the number `n` being `<<n, k>>`. `Header` is the six `memcpy`s of `serialize` in their
order, `Offset` where `deserialize` finds each field. The size is a `size_t` that line 45
narrows to an `int32_t` (`Int32`); when that is negative `resize` throws, and the packet is
not serialized. Two things a reader of the header would not expect are kept as the
code has them: `deserialize` does not use its `conn_id` parameter, and the parameter
the declaration calls `msg_id` (`NetPack.h:38-39`) sets `flag`.

## 3. Runs

| Run | Instance | Checks | Shows (states) |
|---|---|---|---|
| `safety` | 2 handles (symmetric), period 2, inbox up to 2 texts (and the PONGs), 2 PINGs | `TypeOK`, `IInv`, `WinsockBalance`, `NoSocketLeak`, `ConnectedHasSocket`, `FreshSocketOnConnect`, `NeverBlocksInRecv`, `AuthorizedOnce`, `NoWaitCycle`, `OneSession` | sockets, Winsock, authorization and locks stay right in every interleaving; `Session` is implemented (408,884) |
| `live` | 1 handle, period 1, 1 text, 1 PING, `FairSpec` | `Reconnects`, `SilentPeerDropped`, `InputReturns` | the client comes back, drops a silent peer, and the window answers (130,456) |
| `races` | 1 handle, period 2, 2 texts, 2 PINGs | `HealthyCloseExplained` | five races and no sixth (528,240) |
| `log` | 2 messages, 4 of them added, `FairSpec` | `TypeOK`, `NoMessageSleeps`, `SeenIsOnDisk`, `ReachesDisk`, `LossIsNoticed`, `KeepsJournal`, `ClosesUnlessLost` | no message is slept on, lost or swapped; `Journal` is implemented; a failed flush is noticed; the join ends (11,416) |
| `window` | 3 lines, `FairSpec` | `TypeOK`, `HiddenLinesExplained`, `PrintsExclusive`, `DroppedOnlyAtStart`, `HandlersReturn` | four reasons for a hidden line and no fifth; none is dropped after the start; nobody waits for ever for the message loop (71,838) |
| `lifecycle` | 1 message, 4 in a log, 2 workers, 2 lines of theirs, `FairLifeSpec` | `LifeTypeOK`, `AddsToOpenLog`, `EndsClean`, `ExitEnds` | the log that is created again is open, drained and destroyed (48,965) |
| `text` | characters of 1, 2 and 4 bytes, input of 4 units, reads of 5 bytes, 2 texts of up to 2 characters, PONG as two of one byte | `TypeOK`, `TypedIsSent`, `ArrivesWhole`, `LossIsBounded`, `OneNulEach` | what the path keeps and what a cut, a failed send and a heartbeat cost (29,195) |
| `text_size` | as `text` | `SizeWithoutNull`, violated | the size that `string_to_wchar_buffer` asks for counts the NUL |
| `netpack` | 2 packets, messages of up to two bytes, `INT32_MAX` 30, read up to every byte | `TypeOK`, `RoundTrip`, `LenTellsWhole`, `HeaderSurvives` | what a round trip keeps and how a cut packet can be told (10,127) |

The finding. `text_size` checks the comment at `TextUtils.cpp:38`, which says that
the size does not include the final NUL. Line 39 passes -1 for the length, and then
`MultiByteToWideChar` counts it. The code needs the larger size; the comment
is wrong. The function has no caller.

Bounds. No run has a state constraint; all the bounds are constants in guards.
`Handle`: a process has one socket at a time (`NoSocketLeak`), so two handles
give "the same handle again" and "another handle". `HEART_SECOND` is the period
in ticks; with 2, a tick can pass before, inside and after a turn of heart, and
`sendAge` is not counted past the period because the code only asks whether it
is reached. `MaxInbox` stops the server's texts, not its PONGs: two texts and two
PONGs are enough for every way `recv` can join them. `MaxPings` bounds the PINGs
counted as unanswered. `MaxMessages` is 4, so that the queue fills again while
the writer writes, ends and sleeps. `MaxLines` is 3 in the window: a line that is
overtaken, one that overtakes it, and one before them that may contain a NUL or
come before the field exists. In `Lifecycle` a log can hold the two lines of
*main* and the workers' two. An input buffer of four units holds three: two
characters of two units do not fit, and one of them is cut in the middle; a read
of five bytes can hold a whole character and begin or end in another. Two packets
are one and the next behind it; a message of one byte just fits `INT32_MAX`, one of two
bytes does not. The liveness run has the smallest instance in
which a connection is lost, its handle is reused and a PING is missed.

Fairness (`SocketManager!Fairness`). Each thread is scheduled: weak fairness of
its own steps, the user's and the server's excluded. Strong fairness of the
steps other threads keep disabling: taking `send_mutex`, which heart may take again and
again, and a cross-thread `SetWindowText`, which waits for *main* to be in its message
loop, where it returns after each input. Weak fairness of the clock. Strong
fairness of a successful `socket` and `connect`: a server that is never reachable
is not the client's fault; nothing is assumed of how often they fail. The log assumes
a scheduled writer, a scheduled `OnDestroy`, a mutex that does not starve the
writer, and that a write to a stream that is bad fails sooner or later (it does at once:
`<<` on such a stream writes nothing and sets `failbit`); of a sound stream no failure is assumed. In `ChatWindow` a thread inside a handler, and *main* outside its message
loop, go on (weak), and a pending `SetWindowText` gets its turn in the message loop
in between the user's inputs (strong: the loop handles sent messages first). In
`Lifecycle` *main* and the writer go on; *main* strongly, because the writer's mutex
and the workers keep disabling it. `text` and `netpack` need none; `text` has
`CHECK_DEADLOCK FALSE`, because it stops when its bounded number of texts has been
typed and read.

`ClosesUnlessLost` carries the one exception the code has: if `_running` becomes
FALSE while the writer is between its predicate and its sleep, `notify_one` may
be lost and the join in `OnDestroy` waits until some other thread logs a line.

Each property has a mutant: a plausible bug in a modelled definition (a
forgotten unlock, a dropped `Disconnect`, a missing reset, ...) under which TLC
finds the property violated. They stand beside the definitions they change, are
marked `Mutant` and are used by no specification.

## 4. Proofs

All theorems hold for every value of the constants that satisfies
the assumptions on them: `ConstantAssumption` (`INVALID_SOCKET` is no handle, the
period and `MaxPings` are positive, `MaxInbox` is a natural number); in `TextUtils`
`CharAssumption` (a character has 1 to 4 bytes and 1 or 2 code units, and NUL is none of
those that can be typed), `PongAssumption` (PONG can be typed) and `SizeAssumption` (the two
buffers are not empty); in `NetPack` `FieldAssumption` and `PayloadAssumption` (the fields
are integers, a payload is a sequence of bytes) and `WidthAssumption` (a message is shorter
than 2^32 bytes less the header, so that the narrowed size cannot come out positive
again; protobuf stops at 2^31); in `Lifecycle` `WorkerAssumption` (*main* is no worker); `BoundAssumption`, `MaxMessagesAssumption` and
`MaxLinesAssumption` are on bounds. TLC evaluates all of them.

`TypeOK` is inductive by itself (`TypeCorrect`), proved in four parts that
follow its conjuncts. The safety properties are not: that a second `Disconnect` finds no socket, say,
rests on who holds `socket_mutex` and where every thread can be. `IInv` adds

* `MutexInv`: a mutex belongs to the thread between its lock and its unlock, and
  `server_connecting` is TRUE exactly while some thread is in `ConnectServer`;
* `ThreadInv`: each thread is in its own functions, and returns where it may;
* `OwnerInv`: what the thread that connects or closes finds at each point;
* `SocketInv`: the one open handle is `sock_cache`, and Winsock is up for it;
* `GreetInv`: "xyc" has gone out once, or is about to;
* `ReadInv`: what `select` said of a handle still holds of `sock_cache` or heart
  has closed it, since only recv opens sockets while it runs.

`IInvInit` and `IInvStep` (one lemma per part, one step per action) give
`Invariance`; `WinsockBalanced`, `NoSocketLeaks`, `ConnectedIsTrue`,
`ConnectFindsNoSocket`, `RecvNeverBlocks` and `AuthorizedAtMostOnce` follow.

`NobodyWaitsInACycle` ranks the threads: a thread in the middle of a send waits
for nobody; one that owns `socket_mutex` waits at most for a sender or for a main
that sends; everyone else waits for one of these. `ImplementsSession` shows that
each action is a step of `Session` or a stutter under `phase` (from `sock_cache`,
`server_connected` and `server_connecting`) and `greeted`.

`RaceInv` extends `IInv` for `HealthyCloseExplained`. Three of its parts say that a
race is recorded unless: a PONG is owed or waits to be read whole when `heart_received` is FALSE on a live
connection (`FlagInv`) and when heart is on its way to close one (`CloseInv`);
heart is not in the middle of a turn while a socket is being connected
(`TurnInv`); and `ConnectServer` has set the flag before it ends (`StampInv`).
`RaceInvariance` shows it inductive; since `RaceSpec` implies `Spec`, `IInv`
comes from `Invariance`. `HealthyClosesExplained` follows.

For the log, `LogInv` says that the writer owns the mutex from its predicate to its
sleep or its flush, sleeps only on an empty queue, and has on disk what it saw unless a
flush has failed.
`NoMessageIsSleptOn` and `WriterFlushesWhatItSaw` follow, and `ImplementsJournal`
maps each step: writing one message leaves `file \o queue` as it is, which rests
on the lemma about moving the head of a sequence.

For the window, `WindowInv` adds to the types who can be at `find` and `push` with
which line and that a client's own line is reported under `socket_mutex` (`CallInv`),
that `raced` covers every overlap there is now (`RacedInv`), that the longest text
that was set has every line or some thread is about to set one that has (`ShownInv`),
and that both handlers are registered once *main* has got that far (`MapInv`).
`HiddenLinesAreExplained`, `PrintsNeverMeet` and, from `MapInv`, `DropsEndWithTheHandlers`
follow.

For the life of the program, `LifeInv` keeps `LogInv` for the log created last and
adds, as long as the program has not crashed or been aborted, where *main* can be at each stage
(`PlaceInv`), that every instance has its handler waiting, is being destroyed, or was
created by a thread that is about to register it (`InstanceInv`); and, as long as there
are no threads, that the log that exists is open from the end of its `OnCreate` until it is
destroyed and *main*'s reference is to it (`OpenInv`), and how many logs there can be
(`CountInv`).
`LinesGoToOpenLog` and `ProgramEndsClean` follow.

For the text, `TextInv` describes the wire: it holds the bytes of characters in
order (`InOrder`: a byte that is not the first of its character has that
character's earlier bytes before it, as far as they are still on the wire), and it
ends with a whole character (`EndsWhole`). A read may have taken the first bytes of
the character in front, so nothing more is said of the front. The lemma that
carries the properties is `CutLoss`: cutting such bytes in two and converting each
part keeps every NUL, and loses at most one character, the one that is cut.
`WhatIsTypedIsSent`, `WhatIsSentArrives`, `LossesAreBounded` and `OneNulWithEach` follow.

For packets, `NetPackInv` says that the string begins with the whole of the packet
that was serialized first (`FrontWhole`) and that every packet in it has the numbers a
caller or the constructor gave it (`StoredKnown`). `HeaderLayout` shows that each `Put` of
`serialize` lies where `deserialize` looks for it, for payloads of any length.
`PacksRoundTrip`, `LenTellsThePack` and `HeadersSurvive` follow.

Induction over sequences, which the library states with operator parameters, is
derived in `TextUtilsProofs` from the fact that `<` is well-founded on the natural
numbers: a set of numbers has a least one (`LeastNumber`), so a set that contains 0
and with each number the next contains all (`NatInduct`), and in the same way for
the sequences over a set (`SeqInduct`). Sets take the place of predicates. With it the
lemmas on `FlattenSeq` and on counting are proved for sequences of any length.

Every invariant and every safety property of a passing run is stated by a theorem.
Only model-checked: liveness (`Reconnects`, `SilentPeerDropped`, `InputReturns`,
`ReachesDisk`, `LossIsNoticed`, `ClosesUnlessLost`, `HandlersReturn`, `ExitEnds`), which is out of the
prover's reach, and `SizeWithoutNull`, which does not hold.

## 5. Not modelled, and what is left

* protobuf (`third/`): third-party; the program links it for `SerializeAsString`,
  which is a payload in `NetPack`. It holds nearly all of the repository's lines.
* `Main.cpp` is compiled out; `ApplicationInstance` is four values nobody reads.
* How long a `send` blocks on a full buffer: it depends on the peer and on TCP.
  `Spec` lets a thread stay at `s_send` for ever, so the safety properties hold all
  the same; `FairSpec` assumes that it returns, and without that nothing in the
  code would free `send_mutex`. The hazard is in `PROJECT.json` without a property.
* Layout, painting, resizing and focus of the window: nothing the program
  reads depends on them.
* Failures of the file system in `LogManager::OnCreate`, and the wording of lines.
* `string_to_buffer` (no caller) and `ConvertTimeToString` (formatting).
* Memory: the buffers the conversions return are not followed.

`SocketManager` and `ChatWindow` are not composed: `ChatWindow` lets recv and heart
report any line at any time, which covers what `SocketManager` makes them report,
and `SocketManager` keeps from the window what its locks can see, the wait for the
message loop. Left for later: the composition itself, to order what is shown
against what was received.
