# Notka in TLA+

A verification project for Notka, an online clipboard: a C++/Qt server that
keeps one text per title in MySQL, a browser client that talks to it over a
secure web socket, and the copy of QtWebSockets that the repository vendors and
builds the server on. The modules model the server's start-up, sessions, threads,
database access and periodic reconnect, the client's page against that server,
and the library's frames, messages, handshakes, servers, sockets, QML elements and
example programs. TLC checks them on small instances. For every value of the
constants TLAPS proves the safety of the session life cycle, of start-up and the
answers, of the periodic task, of the client's page, of the library's servers,
sockets and elements with the example programs on them; that the server
implements an atomic store while MySQL stays up; and that two web sockets implement a
channel of whole messages and close for the right reason, however messages are cut into
frames and frames into segments. Every invariant, action property and refinement that
TLC checks is a theorem; liveness is not. Line numbers refer to the repository's files.

## 1. The system

| Part | Code | State | Operations |
|---|---|---|---|
| End point | `src/endpointwebsocket.cpp` | `ws_sessions` (socket -> session), the listening server | `on_new_connection`, `on_sock_disconnect`, `close_ws_session`, `ws_sessions_disconnect`, `bin_msg_tx`, `open`, `close` |
| Session | `src/websocketsession.cpp` | `mutex`, `qrunnables_scheduled`, `user`, `state`, the socket; one static `thread_pool` | constructor, `on_bin_msg_rx`, `on_text_msg_rx`, `bin_msg_tx`, destructor |
| Message handlers | `src/msghandler.cpp`, `src/msg.cpp` | none of their own: they work on their session | `run`, `demux_raw_msg`, `process` of SYN, login and save, `post` of the replies |
| Database layer | `src/globals.cpp`, `src/db.sh` | one `QSqlDatabase` named "Notka", `Database::mutex`, tables `users` and `notkas` | `init_database`, `close_database`, `authenticate_user`, `register_user`, `save_notka`, `get_notka`, `reconnect` |
| Periodic task | `src/task.cpp` | `active`, a mutex, a condition variable, a thread | `run`, `stop`, the thread's loop |
| Application | `src/notka.cpp`, `src/main.cpp` | end points, tasks | construction, `db_reconnect`, destruction |
| Browser client | `html/notkawebclient/src/*.js` | `login_`, `password_`, `loginState`, `FormNotka.notka`, the socket | submit, register, retry, save, blur, one handler per reply |
| Frames and messages | `qwebsocketframe.cpp`, `qwebsocketdataprocessor.cpp` | the frame being read; the message being assembled | `readFrame`, `process`, `getFrameHeader`, `doWriteFrames` |
| QWebSocket | `qwebsocket.cpp`, `qwebsocket_p.cpp` | state, TCP socket, handshake state, closing flags | `open`, `close`, `abort`, `sendTextMessage`, `sendBinaryMessage`, `ping`, `processData`, `processHandshake`, `processStateChanged` |
| QWebSocketServer | `qwebsocketserver*.cpp`, `qsslserver.cpp`, `qwebsockethandshake*.cpp` | listening, limits, the queue of pending connections, the error | `listen`, `close`, `handshakeReceived`, `nextPendingConnection`, `pauseAccepting`, ... |
| QML elements | `imports/qmlwebsockets/` | status, url, active; host, port, listen, accept | setters, `componentComplete`, the slots of their objects |
| Example programs | `examples/websockets/` | a server's list of clients; a client's socket | the constructors, the slots of `newConnection()`, of messages and of `disconnected()` |

The last five are under `qtwebsockets/`, all but the examples in its `src/`.

**How they interact.** The main thread runs the Qt event loop. It calls every
slot of the end point and of the sessions, one at a time. A binary frame
becomes a `MsgHandler`, a `QRunnable` that a thread of the pool runs while it
holds the session's mutex. A handler uses the database under `Database::mutex`
and replies with a signal that is queued to the main thread, with a raw
`QWebSocket*` in it. A session counts its unfinished handlers; when its socket
disconnects the main thread polls that counter, every 50 ms, until it is zero,
and then deletes the session, whose destructor closes the socket and calls
`deleteLater()`. A client of a TLS server that was gone before its queued handshake was
handled becomes a web socket all the same, one that will never say `disconnected()`. Once an hour the thread of `DbReconnectTask` posts a signal, on
which the main thread closes and reopens the database connection that the pool
threads are using. Below the end point a `QWebSocketServer` turns TCP connections
into web sockets: it reads the request when its first line is there, answers,
queues the web socket and emits `newConnection()`. A `QWebSocket` reads frames in
the slot of `readyRead()`, in which it blocks while a frame is incomplete, hands
whole messages to its user, and answers pings and close frames.

**What is hard.** The main thread waits for pool threads, while the pool
threads' replies wait for the main thread; objects are deleted that queued
runnables and queued events point to; a slot may be re-entered from a
destructor; messages of one session run on several threads; the reconnect
removes the connection in three separate steps; `commit()` may fail and two of
the queries do not test that the connection is open; an exception of a slot
ends the process; `stop()` of the task must not lose its wake-up. In the library:
frames and messages come in any cut of segments, with the end of the connection
at any byte; both ends may close at once; handshakes, deferred deletions,
`closed()` and reads of data are queued while their objects change; a socket or
an element is used again after an attempt that failed somewhere in the middle. The
list with lines is `hazards` in `PROJECT.json`.

**What makes each part correct.**

- Sessions: no use after free, an exact counter, one handler at a time per
  session, no frame lost, every connection whose end is signalled reclaimed, shutdown ends.
- Handlers and database: an answer means what it says (Ok: stored; Fail: not
  stored; LOGGED_IN: right password; REGISTERED: once per title), the text a
  login gets is current, every message is answered; together: an atomic store.
- Start-up and reconnect: the connection is never seen in a state in which queries
  report success without running, or the answer is never sent.
- Periodic task: `stop()` returns, and when it has the thread is gone.
- Browser client: a title is created only when its user asked for it, with the
  password that was entered; the editor, and every save, belong to the title
  that was opened; page and server do not keep answering each other.
- A web socket connection is a channel of whole messages; it closes with the
  peer's code after all that was sent before it; what breaks the protocol ends it, for the
  right reason; it always comes to rest.
- A server upgrades whoever asks legally and nobody who does not (but for what
  section 5 says of hosts and keys), loses nobody it has upgraded, and listens when it says so.
- A client's socket is connected by the answer to its own request only, says so
  when it is, and every attempt is reported or waits for its server.
- A program on a server has exactly the clients on its list that it can write to, and
  nobody who was deleted; a client that says hello comes to an end if its server lets it.

## 2. Modules

`NotkaSessions` - the session life cycle
: Variables carry the names of the code where there are such: `ws_sessions`,
  `qrunnables_scheduled`, `mutex`. `main` is where the main thread stands: in its
  loop, in a slot that works for one socket (`rx`, `start`, `text`, `close`,
  `sleep`, `delete`), in the reconnect, in `~Notka` (`drain`), at the end. A slot is
  cut into steps where another thread can get in: around the session mutex, at
  `thread_pool.start`, at `msleep(50)`, before `delete`. `events` is the queue of
  posted events (transmissions, deferred deletes, the reconnect signal) and
  `pool` that of waiting runnables; both are FIFO. `DeleteSession` is
  `~WebSocketSession`: closing an open socket ends the connection at once, with
  `disconnected()` emitted from inside the destructor, or leaves it "closing" until
  its bytes are flushed. `ExecReturns` is `a.exec()` returning; the deferred deletes
  that are still posted are run, other posted events are never delivered. A socket that is
  handed over is "open", or "gone" if its client left while the handshake was queued:
  Notka's server is secure (`notka.cpp:97`), and then such a socket becomes a session
  whose `disconnected()` never comes (`qwebsocket_p.cpp:135`, `:1117`). What a
  handler computes is left to `NotkaServer`: here it posts one or two replies, or
  none.

`NotkaDb` - the database layer
: The connection is *open*, *closed* (registered, not open), *stale* (open, the
  server has gone since) or *absent* (not registered); `driverError` is the
  driver's last error, which the reconnect looks at. The critical sections that
  end in a statement are one step; the two that write are two, statement and
  commit, because MySQL may be lost in between; `txn` is what is between them,
  and while there is one `Database::mutex` is taken. A statement can also be an error on an
  open connection: a title that breaks the SELECT it is spliced into (`Unquotable`,
  `globals.cpp:61`), and a text that its column cannot hold (`Oversized`). The initial tables are
  anything an earlier run may have left.

`NotkaServer` - start-up, and messages on sessions, threads and the database
: EXTENDS `NotkaDb`. `StartUp` is the constructor of `Notka`: `open()` of the end
  point, whose result nobody looks at, and the database, without which the process
  ends. One handler per message; `phase` is how far it is. Pool
  threads start handlers in order, up to `MaxThreads`; started handlers compete
  for the session mutex. A handler is cut after each critical section of class
  Db. `StartUp`, `Receive`, `Deliver` and the three steps of the reconnect are the
  main thread. Histories: `inbox` (what was sent), `saved` (the texts each title had),
  `wrote` (statements executed).

`NotkaStore` - the abstract specification
: Two tables, a login state per session, and messages that take effect at one
  instant, together with their answer, or are refused without effect. No
  threads, mutexes, transactions, main thread or reconnects. `NotkaServer`
  implements it: `Store == INSTANCE NotkaStore WITH ...` maps the phases and joins
  `inbox` and `outbox`; `StoreSpec` is the property.

`PeriodicTask` - the task's thread and its owner
: The mutex, the flag `active`, the condition variable (a notification reaches
  only a thread that waits), spurious wake-ups, an interval that ends at any
  time, and a `run_once()` that may tell the loop to end.

`NotkaClient` - the page in the browser and its user
: One record per page: the variables `login_`, `password_`, `loginState` and
  `notka`, the `this.state` of `FormLogin` (`form`) and, separately, what its inputs
  show (`box`): React keeps the first and replaces the second. `root` is what is
  in the element of that name: the router's form, a `FormLogin`, or nothing once
  `Greeting` has replaced the page around it. A handler is one step. The server is
  `INSTANCE NotkaStore`; a frame that is sent is received at once and served at
  any time after, in any order, which is what `NotkaServer` was shown to do. The
  user is `handleChange`, `handleSubmit`, the links, `Edit`, `Save` and
  `handleBlur`. Nothing in the page makes a user wait: `AtForms` lets one act while the
  answer to a login is due, `MaxHurry` times. `hasty` records that the last
  submit was such a step, or a click on "create one" since.

`QWebSocketFrame`, `QWebSocketDataProcessor` - frames and messages, as operators
: The first writes a message as frames (`MessageBytes`) and reads a frame from as
  many bytes as there are (`readFrame`, one field after the other, with the wait in
  each). A byte on the wire is a record; a payload byte is a value and the mask on
  it. The second assembles messages. At its end stands what a sequence of frames
  means, said without a processor (`LegalFrames`, `MessagesOf`): the reference
  against which the run checks the code's incremental reading.

`QWebSocketPeers` - a connection of two ends
: The server's QWebSocket and, at the other end of TCP, another one or a peer that
  sends any frames ("raw"). An end's steps are its user's calls, one turn of
  `processData` (`Process`), the time-out of the wait in `readFrame`, and the
  socket's changes of state. `inside` says that the thread is in `readFrame`.
  TCP delivers byte by byte; a reset may overtake what was sent before it.

`QWebSocketChannel` - the abstract specification of a connection
: What an end's user is given is a prefix of what the peer's user has sent. The
  detailed module implements it (`ChannelSpec`), with `sent` of a raw peer the
  messages that its frames amount to. Messages sent on `aboutToClose()`
  (`Farewells`) are on the wire and not in `sent`: section 5.

`QWebSocketHandshake` - the opening handshake, as operators
: `createHandShakeRequest`, `readHandshake`, `getHandshakeResponse` and `Accepts`, on
  records of the facts that the code looks at. The host of a request is that of its URI
  when this is absolute, of its Host header otherwise (`RequestHost`).

`QWebSocketServer`, `QQmlWebSocketServer` - a server, and the QML element on it
: One record per TCP connection: how far it is (`stage`, `tls`), the socket with its
  deferred delete (`sock`, `doomed`), whether the server listens to it (`linked`),
  whether `handshakeReceived` is queued (`posted`), and its web socket. The event
  loop, the network and the user's calls are the actions. A user takes a connection
  in the slot of `newConnection()` ("slot", as the echo server and Notka do), when it likes
  ("later"), or is the QML element ("qml"), whose setters restart the server in
  four different ways and leave a queued `closed()` behind.

`QWebSocketClient`, `QQmlWebSocket` - a socket that is opened, and the QML element on it
: `open()` on whatever state an earlier `open()` has left, the TCP socket, the
  server's answers line by line (another one on the same connection after one that
  failed: `ArriveAgain`), and the signals in the order they are emitted
  (`out`), which the element's `status` follows.

`EchoServers`, `EchoClients` - the example programs
: The first extends `QQmlWebSocketServer`: the echo server, the chat server and the
  echo server over TLS keep a list `m_clients`, which the slots of `newConnection()` and
  `disconnected()` keep up; the second deletes the socket later. The second module extends
  `QQmlWebSocket`: a client that says hello and closes its socket on the echo, and one over
  TLS that ends then, without closing. A program's step is the library's step
  together with what its slot does in it.

`NotkaSessions_proofs`, `NotkaServer_proofs`, `PeriodicTask_proofs`, `NotkaClient_proofs`,
`QQmlWebSocketServer_proofs` (on `EchoServers`), `QQmlWebSocket_proofs` (on `EchoClients`),
`QWebSocketPeers_proofs` (the ends, reading a frame, what frames amount to) and
`QWebSocketStream_proofs` (which extends it: the bytes between the ends) - theorems.
`MC...` - symmetry and sets for TLC.

Names that stand right before a definition and differ from it in one point
(`ReadTimeoutNever`, `ErrorIgnored`, ...) are the mutants of `PROJECT.json`: a
plausible bug each, which the property listed with it must reject.

### How the modules fit together

`NotkaSessions` and `NotkaServer` are two views of one program. The first has
sockets, deletion and shutdown, and no content; the second has content, and
sessions that stay. They share the pool, the session mutex and the main thread.
The split is sound because a handler never looks at the socket or the session
map: what it does is the same whether the peer is still there, and what
`NotkaSessions` proves (`SessionSerial`, `NothingDropped`) is what `NotkaServer`
assumes of sessions: one handler at a time, every frame processed.
`NotkaServer.Receive` has the session mutex as a guard where the code blocks the
main thread; blocking is in `NotkaSessions`. `NotkaClient` runs on `NotkaStore`,
which `NotkaServer` implements.

The library is cut where its control is cut. A connection begins in
`QWebSocketServer` and `QWebSocketClient`, which share `QWebSocketHandshake` and end
with a web socket that is connected; from there on it is an end of `QWebSocketPeers`.
`ExampleSpec` and `ClientSpec` add the example programs to servers and sockets; both are
proved to be behaviours of what they extend, so that a program inherits its theorems.
What Notka takes from the library (messages whole, once, in order; `disconnected()`
once, when the TCP connection is over) is `ChannelSpec` and `PeersTypeOK`.

## 3. Runs

| Run | Instance | Distinct states | Question |
|---|---|---|---|
| `sessions` | 2 connections, 2 threads, 2 frames each | 1.48 M | safety of the life cycle |
| `sessions_live` | 1 connection, 2 threads, 3 frames, 1 reconnect | 64 k | do waits end, is everything reclaimed |
| `server` | start-up, 2 sessions, 2 threads, 3 messages, a text that is too long, 1 reconnect | 1.28 M | what Ok promises, logins, atomicity (refinement) |
| `server_live` | 1 session, every kind of message, 2 of them, the empty title and one that breaks the query, 1 reconnect, 1 loss of MySQL | 0.52 M | is everything answered, once, and truly, when MySQL goes away, does a reconnect end |
| `periodic_task` | 3 intervals | 253 | `stop()` |
| `client` | 1 page, 2 titles (one is empty), 2 passwords, 1 submit, 2 steps while an answer is due, 1 edit, 1 click on Save | 1.24 M | creating and opening titles, where saves go, do resends end |
| `ws_peers` | 2 QWebSockets, or one and a peer that sends any 2 of 22 frames; a message on `aboutToClose()` | 0.74 M | is a connection a channel, does it end as it should |
| `ws_server` | 2 clients, plain or TLS, three kinds of users and three programs, 5 requests | 0.61 M | who is upgraded, is anybody lost, where does the element listen, are the lists right |
| `ws_client` | 3 calls of open(), 4 kinds of url, 7 answers, as many as fail; C++, QML or a program | 51 k | when is a socket connected, does it say so, does the echo client end |
| `lost_commit`, `save_order`, `client_password` | the smallest that shows it | - | findings, section 5 |

**Bounds.** Two connections are needed for one to hold a pool thread the other
wants, and two threads for two handlers of one session to race; two frames for
one to wait behind the other. A third connection or thread adds another
handler of the same kind; the theorems cover every number of them. Three messages
are needed for a save, a login and a save around it, or for two sessions to race
for a title that one was offered. In `server_live` one loss of MySQL and one
reconnect meet in each order; the theorem `AnswersTrue` covers any number of both.
MaxTicks is 0 in `sessions`, because a
reconnect only delays the main thread there; `sessions_live` has one. What liveness
needs is handlers that wait for each other, and a main thread that waits for them: three
frames of one session do this on two threads, since one holds the mutex, one occupies
the other thread while it waits for the mutex, the third has no thread, and the main
thread blocks on the mutex for the next. Two connections would multiply this by
the places of another session, whose mutex is its own.
One page suffices in the client runs, because pages share nothing but the
tables: initial tables are arbitrary and a registration may be refused at any
time, which is all that another page could do to the forms; the theorems cover any
number of them. The login of a
link and a submit before its answer are two logins under way, as two presses of Go are;
with a second step in a hurry every exception for a hasty user is reached: the run fails
when any of the three is taken out of the properties. The
empty title serves as the second, wrong title; one click on Save and one blur timer
send two saves, in either order. `client_password` has three submits, which reach every
screen again from the failure. Two submits (1.3 M states) or three (5.2 M) with one step
in a hurry give nothing else, and take a constant or two in `Client.cfg`.

In `ws_peers` the limits of the protocol are small numbers in their order (3 for
125, 4 for 65535, frames of 4 bytes cut from a message, 5 bytes at most in a frame
or message that is read, 7 for the longest length that can be announced), so that
payloads of up to five bytes reach each form of a length and each limit from both
sides. Two QWebSockets send one text of four characters in five bytes, which takes two
frames and may be followed by an abort, or one empty message, and a ping that is
one byte too long; two raw frames are enough for a fragment and its continuation,
or for an illegal frame after a legal one. The client's user may send an empty message
on `aboutToClose()`.
In `ws_server` the first client sends any of five requests (from a good or a bad
origin, without a key, of another version, with an absolute URI and no Host header and a
key that is no nonce), the second a good one; the queue holds one, QTcpServer's backlog one. A server in C++ listens, and with
a "later" user closes or tries to listen again; the element's properties are set
three times.
Larger queues and more clients are the theorems'. In `ws_client` the second
`open()` meets what the first has left, and the third what the second has. An answer that fails the handshake may be
followed by others, without a bound: the state after each is the same.

All bounds are in the guards of environment actions: frames, ticks, messages,
reconnects, losses, intervals, submits, edits, clicks, calls of open(), listen()
and setters. Symmetry (connections,
passwords, texts other than the empty one) is used in runs without
liveness. Deadlock is checked in the runs of Notka's server: `Stopped` and `Quiet` stutter
only where the program has ended or nothing is left to do. It is not checked in
the client's nor in the library's: a page, a connection, a server and a
socket really stop when they are closed or their users have used up the bounds.

**Fairness.** A slot that runs goes on, and so does a thread of the pool: weak
fairness per handler and on `SlotStep`. Posted events are delivered on every turn
of the event loop before socket activity is looked at, so that activity cannot
keep them waiting: strong fairness on `EventStep`, since each slot that is called
in between disables it for a while. The task's thread and a `stop()` that has
begun are weakly fair. For `QWebSocketPeers`, weak fairness on `SystemStep`: the
event loop serves a socket that has bytes, TCP delivers what was written, and the
wait of `readFrame` ends after five seconds. For the servers, weak fairness on the
event loop alone; for `QWebSocketClient`, on the event loop together with TCP, which
connects or fails: `open()` leaves that to the time-outs of TCP (`OwnStep`). A server need
not answer, nor close: `ArriveAgain`, `Arrive`, `ServerCloses` and the echo are in no
fairness condition, and `ProgramsEnd` says what is left to the server (`ServersTurn`).
Nothing is assumed of peers, users, the network, MySQL, time or the
end of `exec()`: a peer may never close, or never finish a request, and `exec()`
may never return. `NotkaClient`
has no fairness: a user need not act, and a closed socket never opens again.

**What the runs show.** Safety and liveness of section 1, for the code as it
is, with the exceptions of section 5. Less obvious results:

- With MySQL up, the server is an atomic store: threads, the two-step writes and
  the reconnect are invisible, apart from refusals during a reconnect (a save is
  answered Fail; a login is dropped without an answer) and for data that is an error: a
  login is dropped, at any time, when its title breaks the query.
- `save_notka` reports success on a connection that is not open. Such an answer
  is never sent (`AnswersAreTrue`): that state exists only between
  `init_database` and the check, the main thread delivers nothing there, and the
  check then ends the process. Were the exception caught, as one might be
  tempted to, false "OK. Saved." answers would appear: the mutant `ErrorIgnored`.
- A session whose client was gone before its handshake was handled is kept until the
  shutdown (`GoneIsKept`, in `DisconnectReclaims`): nothing else removes a session than
  `disconnected()`.
- Everything ~Notka and `on_sock_disconnect` wait for is progress of other
  threads that never wait for the main thread, so the busy-wait ends.
- A thread that blocks in `readFrame` always gets out again, and what the user was
  given is what the frames mean, wherever the segments were cut.
- A handshake is read once, when its first line has arrived. A client whose request
  comes in two segments is closed without an answer or an error, so `LegalIsServed`
  and `UpgradeIsLegal` speak of requests that were all there (`heard`).
- A stale `closed()` sets `listen` of the QML element to false after its port or
  host was changed; the element then does not listen, in agreement with what
  its property says (`ListensAsItSays`).
- An example server that cannot listen idles; none reaches its destructor, because
  nobody calls `quit()`. Over TLS a client that is gone before its handshake was handled
  enters the list and stays on it for ever, since its `disconnected()` is over:
  hence the `secure` in `NobodyLost`.
- The echo client ends, or waits for a server that could answer, echo or close
  (`ProgramsEnd`): there is no time limit in `open()`, so a silent server keeps it for
  ever. The one over TLS does not end when its connection fails or the server closes
  first: it quits only on a message.
- `RightAnswerConnects` has an exception, `stale`: after a connection that ended amid
  its headers the next answer, however right, is read from the middle, and fails
  (`qwebsocket_p.cpp:947`). In that one case the status line that counts is the earlier
  server's; `ConnectedByOwnAnswer` says so, and of all other answers that they are
  their own in every part.

The client's properties hold for every user, and say what is so only for one who
waits for answers; a password may be sent that nobody entered (`client_password`).
What goes wrong for a hasty user has one cause: an answer does not say which login it
answers.

## 4. Theorems

**The session life cycle.** `NotkaSessions_proofs` proves for all `Clients`,
`MaxThreads`, `MaxFrames` and `MaxTicks`, from `SessionsAssumption` (the bounds are
naturals, the special values are no clients and no handlers): `TypeOK`,
`NoUseAfterFree` (sessions that are reached are alive, queued transmissions point to
live sockets, the map holds live sessions), `CounterExact`, `SessionSerial`,
`NothingDropped`, `DrainedAtExit`, `GoneIsKept`, and the action property
`NoWriteAfterFree`.

None of these is inductive alone. A runnable cannot outlive its session because
`CloseErase` needs the counter to be zero, which says something only if the counter
is exact; the counter is exact because each handler is created and finished once,
under the mutex, which needs that frame numbers are fresh (`FramesPlaced`: a handler
beyond `rx` does not exist, one at `rx` is "created" exactly while the main thread is
in `start`) and that the pool holds the queued handlers (`PoolQueued`). A queued
transmission points to a live socket because its handler was unfinished when it was
posted, so its session was live, and the delete event is appended behind it: this
takes `DeleteUnscheduled` (while the main thread is in `delete`, nothing is
scheduled) and `DeletesFollowSession` (a delete event is for a freed session, of
which there is no later transmission). `IInv` is the conjunction; the proof has one
lemma per part, one step per action. `DrainedAtExit` needs `DrainedMap` besides: the
map is empty once `~Notka` has left `ws_sessions_disconnect`, and no slot that could
fill it runs then.

**The answers.** `NotkaServer_proofs` proves, for any clients, titles, threads,
messages, reconnects and losses: `SrvTypeOK`; `AnswersAreTrue`; `LoginMatches`, a part of
`LoginsAreSound`; `ReconnectRestores`, a part of `ReconnectEnds`. They follow from
`AnswerInv`: what was posted is good (`RepliesInv`: an Ok stands for an executed
statement, unless the check of a reconnect is about to see the error that made it
false, and until then the main thread delivers nothing), a connection that is not
open or not there is seen only inside a reconnect that will notice (`ConnInv`), and
an open transaction and a text's history belong to handlers that are where they
should be (`WritesInv`). Under `MaxFaults = 0`, MySQL staying up, it proves
`OkMeansStored` and `RegisteredOnce` (another part of `LoginsAreSound`) from `UpInv`:
pool threads see an open connection or none, at most one handler is between its
statement and its commit (`OneWriter`), and what was promised lasts (`Lasting`).

The second half of the module goes on from there. `AnsweredOnce` holds with any losses: `Once`
says of each message how many replies it has in each phase, and `CauseInv` why a
login may have none, namely that its title breaks the query, or that the database is
away, which it is only ever because of a fault or a reconnect. `RegisterAfterOffer` is about the order of replies: the last login
reply of a session whose `state` is NO_SUCH_USER is an offer (`OfferInv`), and its
mutex keeps others from coming between it and REGISTERED. It holds with losses too;
`LoginsAreSound` joins it with the two parts above under `MaxFaults = 0`.

*The refinement.* `ServerImplementsStore` is `Spec => StoreSpec` under `MaxFaults = 0`,
without which it is false (`lost_commit`). The mapping takes a handler's phase to
the stage of its message, so a statement and its commit map to a stutter and a step;
each remaining step of a handler is one of `NotkaStore`'s with its answer, by what the
invariants say it can see: an open connection or none, the transaction its own, the
tables those that it read (`OneWriter` again), and nobody registered under the empty
title (`EmptyInv`), for which the code answers without a query. Of what the main
thread does only `Receive` is visible; deliveries and the reconnect are stutters.

**The periodic task.** `PeriodicTask_proofs` proves `TaskInv`, `AtMostOneLateRun` and
`StartedStaysActive`: `TaskInv` says where thread and flag can be before the start,
while the task runs, and after the flag was cleared.

**The page.** `NotkaClient_proofs` proves `ClientTypeOK` and `ResendsAreBounded` for any
pages, titles, links and submits, and `PageIsTruthful` and `CreatedOnlyWhenAsked` likewise:
no theorem about the page assumes anything of its users.

The first two rest on `ServerInv` and `PageInv`. That a page does not resend for ever
is counting: a page resends only for an offer it has seen, no login is acknowledged
twice, and between two offers to one session there is another acknowledgement, since
an offered session is answered REGISTERED or REGISTER_FAIL next (`AcksCounted`). So
refusals are at most half of the acknowledgements, rounded up, and a page sends at
most two logins for each that was asked for (`ResendsCounted`); the inductive form
counts those that wait for the socket or for the page as sent. `ShownAfterAck` and
`AnswersFit` say what an answer may be and after which other it comes, which keeps
editor and forms apart (`FormsGone`).

The other two rest on `PatientInv`, which has three parts per page (`Shown`). `Titled` is so
for every user: an editor has one title, the one sent last, and its page has opened
one. So is `Informed`: what the page shows is what the last acknowledgement said, hence the
server is ready to register for a page only while that page shows the create form, or has
an answer to see; a title nobody wished for is then one that was sent in a hurry. And
while the user is not hasty there is `Patient`: at most one login of a page is under way, put off,
at the server or on its way back, and it is the one of `login_` and `password_`
(`OneUnderWay`) - which is what makes an answer without a number mean the right
login; the editor, the saves and "ready" are about titles that are what the page takes
them for (`Truthful`); and what is sent from the create form its user wished for
(`Wished`). `hasty` goes by `AnswerDue`, which counts; a lemma turns its
negation into "nothing is under way". The steps of page, user and server are sorted
by what they touch (`Moves`, `Saves`, `Connects`, `Submits`, `Puts`, `Hears`, `Heeds`;
`Acknowledges`, `Settles`), and each part is shown once for each sort.

**Servers, sockets, elements, programs.** `QQmlWebSocketServer_proofs` proves
`UpgradeIsLegal`, `NothingLost`, `LegalIsServed` and `ListensAsItSays` of `QmlSpec`, for any
number of clients, any requests, limits and calls. `ConnsInv` relates each
connection's request, what the server had of it, its answer, its web socket and the
error. Most steps move sockets and flags only; the lemma `MinorKeeps` treats them
alike, so that what is left are `Connect` and `handshakeReceived`, with the answer
computed by `getHandshakeResponse`. `ListensAsItSays` is inductive together with
`m_listen \in BOOLEAN`. `ExamplesAreUsers` is `ExampleSpec => QmlSpec`: every step of an
example server is a step of the library's. With that, and `ListInv` (of each client,
whether it is on the list, against its web socket and its TCP socket), follow
`NobodyLost`, and for the clients of the programs `UpgradeIsLegal` and `LegalIsServed`.

`QQmlWebSocket_proofs` proves `ConnectedByOwnAnswer`, `RightAnswerConnects` and
`OpenMeansOpen` for any number of `open()`, any urls and answers, and all kinds of owners.
`QmlInv` says of a socket what may be left of an earlier attempt when the next begins:
what is read is of this connection (`Fresh`, `OwnKey`), the handshake never rests at
the status line, and one that was cut among its headers is known as such (`Cut`); a
right answer is read as right line by line (`RightRead`); an element that says Open has
a connected socket, and one that has a socket at work is active and complete. The
example clients are users (`ProgramsAreUsers`, from `ProgramsAssumption`, that "ws" is
among the urls).

**Frames.** `QWebSocketPeers_proofs` proves `PeersTypeOK` with `PeersInv`, which is its
own strengthening by the types of readers and wire. The other results are about the
operators of `QWebSocketFrame`, for all limits that `LimitsAssumption` allows:
`CutAnywhere`, that `readFrame` continued with more bytes gives what it gives on all of
them at once, whatever byte of whatever field it waited for; `RoundTrip`, that it
reads back any frame that `FrameBytes` writes, and leaves what follows; `FrameSurvives`,
both together. Their hypotheses: `Ready`, that the reader is in one of the states a
reader can be in and that the lengths which the bytes announce are numbers; `Writable`,
that a control frame is short and final, and no frame is longer than is
read; a key of 0 or 1, which is what the model's masks are.

**The connection.** `QWebSocketStream_proofs` proves `CloseCodeFromPeer`,
`AllReceivedAtClose`, `FailedWithReason` and the refinement `ChannelSpec`, for any
messages, limits, frame size, pings, closes, aborts, time-outs and frames of a raw peer.
About the constants it assumes what `QWebSocketPeers` declares: what a user sends is
legal UTF-8 and no longer than a QByteArray (`MessagesAssumption`), and what a raw peer
sends is what bytes can be divided into (`RawFramesAssumption`: a length fits the form
it is written in, and a frame that is read to its end has as many bytes as it says; it
may otherwise be anything). One theorem has a hypothesis without which it is false:
`FailedWithReason` needs users who do not close with 1002, 1007 or 1009, for then
the code is the user's; the peer may, and `ClosesWith` counts that as the peer's reason.

What a sequence of frames means is defined on the whole sequence (`LegalFrames`,
`MessagesOf`), the code reads one frame after the other. The proofs go from one to the
other by `Least`: a set of numbers that is not empty has a least one. That follows from
the library's theorem that the order of the naturals is well-founded and replaces
induction, which would take an operator as a parameter. What it gives:

- `MessagesThen`: what one more frame adds to the messages of those before it, by
  whether it is legal after them, carries data and is final.
- `FrameOutcome`: the data processor's state is a function of the frames it has
  read (`ProcessorOf`), and what it makes of the next one is what they say: a
  message, a fragment, a control frame, a close, or the failure whose rule it breaks.
- `SendThen`: the frames into which a message is cut amount to that message, after any
  whole messages. Frames need not end where characters do, so the processor's count of
  characters and its decoder's rest are part of `Decoded`.
- `FirstFrame`, `RawRefused`: what `readFrame` has made of the front of a stream when
  it returns is its first frame, or the reason why that one is illegal.

The invariant is `StreamInv`. Its core is `Flow(x)`, for each open end x: there are
frames `H`, those that x has processed, and `F`, those that follow, such that the bytes
in x's reader and on the wire, followed by some that are lost, are the bytes of `F`
(`Underway`); x's processor and what its user was given are functions of `H`
(`HeldBy`); and `H` with `F` is all that the peer has promised (`PromisedBy`): the frames of
its messages in order with control frames in between and the close frame after them
or, of a raw peer, `raw`. Only an abort or a reset loses bytes, and then the peer is no
longer Connected, so that nothing can follow the gap. No frame of `H` was a close frame
or illegal, for then x would be closed. Each action moves something between
these parts: a send appends frames to `F`, a delivery moves a byte from the wire to the
reader, `Process` moves a frame from `F` to `H`. What x hears when it does
(`HeardFromPeer`) is what the theorems are about; `Dones` and `Blamed` remember it once
x is closed, since an end that has closed sends and reports nothing else (`ClosedForGood`).

`ChannelImplemented` then maps steps: a message heard is the channel's Receive, since
with it what was received still begins what was sent; every way to stop being open,
`close()`, an answer to a close frame, a failure, a time-out, an abort, the end of the
TCP connection, is Close, or a stutter at an end that was closed before; a raw frame that
completes a legal message is Send; all else is a stutter.

**Only model-checked.** Liveness, and with it everything that speaks of
ENABLED: `ShutdownTerminates`, `ConnectionSettles`, `FrameProcessed`,
`DisconnectReclaims`, `StopReturns`, `RequestAnswered`, `ReconnectEnds` (but for
`ReconnectRestores`), `ClientsAreSettled` and `ProgramsEnd`. Fairness
is stated with ENABLED, of which the prover knows nothing.

## 5. Disagreements between the code and what it says

1. `lost_commit`: `globals.cpp:148` ignores the result of `commit()`. The client
   shows "OK. Saved." (`FormNotka.js:38`) for a text that was rolled back.
   `register_user` has the same flaw (`globals.cpp:122`).
2. `save_order`: two saves of one session can be stored in the reverse order,
   because their runnables race for the session mutex (`websocketsession.cpp:73`,
   `msghandler.cpp:63`). The client's blur handler (`FormNotka.js:85`) sends a
   second save after a click, so two saves of one session are not rare.
3. `client_password`: after a wrong password, "create one" shows empty boxes but
   keeps the wrong password in `this.state`; a title created with the password box
   left empty is protected with it (`FormLogin.js:97`, against `FormLogin.js:169`).

Seen while modelling Notka, and in the modules as the code has it, without a run:

- A title is created without a request by pressing Go twice
  (`FormLogin.js:90`), or by clicking "create one" while an answer is due: a comment
  says that the page resends what the user submitted in the create form
  (`Websocket.js:166-170`), and it resends what was submitted before.
  `CreatedOnlyWhenAsked` fails without its exception for hasty users.
- A reconnect that finds MySQL down throws out of a slot and ends the process
  (`globals.cpp:197`): `ReconnectCheck`, `main = "aborted"`. `notka.cpp:69` says
  "Reconnect to database every 1 hour".
- A server that cannot listen runs on without (`notka.cpp:87`): `StartEndPoint`.
- `Greeting` and saves use the title sent last, not the one that was opened
  (`Websocket.js:162`, `:374`). `EditorIsOfOpenedTitle` and `ReadyMeansRegistered` fail
  without their exceptions for hasty users.
- A title with a quote in it breaks the query it is spliced into (`globals.cpp:61`): the
  login is dropped, and the page waits for an answer that does not come.
- The stored text arrives after the editor and replaces what was typed meanwhile
  (`Websocket.js:205`): `rx_msg_notka`.
- A failed registration leads to a screen without text or control, because
  `WsState` has no `REGISTER_FAIL` (`Websocket.js:191`, `FormLogin.js:185`):
  "undefined" has no `Controls`.

In the library, likewise:

- `aboutToClose()` is there for "data in a separate buffer that needs to be written to the
  device" (`qwebsocket.cpp:117-121`), but is emitted after the close frame was written
  (`qwebsocket_p.cpp:351-356`): a message sent in its slot goes out behind that frame and
  is lost. `AllReceivedAtClose` says this of the code: with `Farewells` counted as sent it
  would fail.
- RFC 6455, 4.2.1, wants a Host header and a key of 16 bytes. With an absolute URI the
  host is the URI's and the header is not looked at
  (`qwebsockethandshakerequest.cpp:273-284`), and any key that is not empty will do.
  `UpgradeIsLegal` therefore speaks of a `ToleratedRequest`, `LegalIsServed` of a
  `LegalRequest`; `Readable` is where the code asks for more than the RFC: ": " after a
  field's name (`:255`), numbers as versions, its own limits.
- The last check of the queue's limit comes after the client was told 101
  (`qwebsocketserver_p.cpp:195`): `addPendingConnection`, "lost". It is reached only if
  the slot of `originAuthenticationRequired` lowers the limit.
- A full backlog of clients that never finish TLS stops `QSslServer` from accepting;
  a connection taken from it while TLS is running loses the signals of before
  (`onNewConnection`). `ClientsAreSettled` is about plain servers for this reason.
- `releaseConnections` cuts the slot that would delete a socket which is still
  closing (`Released`): it stays until its server goes.
- A failed handshake leaves the socket Connecting, and what comes next is read as
  another answer, which may connect (`HandshakeFailed`, `ArriveAgain`).
- `serverError()` is emitted only when code or text differ from those of the last
  error (`qwebsocketserver_p.cpp:374`): a second full queue is silent.
- A secure server makes a web socket of a client that is gone, and nothing ever says so
  (`qwebsocket_p.cpp:135`, `:1117`): Notka keeps its session until the shutdown.
- A client that connects and sends nothing is kept for ever, and so is one whose server
  does neither answer nor close: `open()` has no time limit (`qwebsocket_p.cpp:1150`); a client that sends a byte
  every five seconds keeps the thread in `readFrame` (`qwebsocketframe.cpp:316`).
- A connection that ends without a close frame leaves `closeCode()` at its initial
  1000 (`qwebsocket_p.cpp:1117`); `close()` does not cut a reason to what a control
  frame can hold (`:342`).
- A masking key of 0 means no mask, and may be what is generated (`qwebsocket_p.cpp:720`);
  `Key` of a client is 1 in the run, the receiving end takes both.
- `accept` of the QML element, set before it is complete or while its server does not
  listen, is forgotten (`qqmlwebsocketserver.cpp:234`): `setAccept`.

## 6. Not modelled

- *The bytes of Notka's own messages* (`msg.cpp`, `Websocket.js`): lengths, padding,
  terminating zeros and encodings. Kinds of messages, and what the handlers read
  of them, are records. What `QString(buf)` reads behind a buffer without a zero has
  no value a module could give it.
- *Loading certificates and keys*, other TLS settings, proxies, `setSocketDescriptor`,
  subprotocols and extensions (the library supports none), pause mode, sizes of
  buffers, getters.
- *Values of the Upgrade and Connection headers*: a wrong one is like none.
- *Slots that call back* into a server from `originAuthenticationRequired`.
- Logging, SQL text and MySQL's collation, the command line, the page's layout,
  alerts and styles, the service worker, the page for a bad address.
- *The rest of the examples*: the destructors of the servers, which no program reaches,
  and the QML and browser examples. *The tests* of the library: they are calls of it.
- Time: five seconds in `readFrame`, an hour between reconnects and 50 ms between
  polls are waits that may end whenever they can.
