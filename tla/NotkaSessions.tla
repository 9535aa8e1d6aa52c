---------------------------- MODULE NotkaSessions ----------------------------
(***************************************************************************)
(* Life cycle of the web socket sessions of the Notka server.              *)
(*                                                                         *)
(* Three kinds of threads meet here:                                       *)
(*  - the main thread, whose Qt event loop calls every slot of             *)
(*    EndPointWebSocket and WebSocketSession, one at a time and to the end *)
(*    (main.at is where that thread stands, "loop" between two slots);     *)
(*  - the threads of WebSocketSession::thread_pool, each of which runs one *)
(*    MsgHandler, under the mutex of the session the handler belongs to;   *)
(*  - the DbReconnectTask thread, which posts a reconnect event.           *)
(* What a handler computes is abstracted to the replies it posts (its      *)
(* first, the ack, and possibly a second, the stored text); what they say  *)
(* is left to module NotkaServer.                                          *)
(***************************************************************************)
EXTENDS Naturals, Sequences, FiniteSets

CONSTANTS Clients,      \* QWebSocket objects; one per connection, never reused
          MaxThreads,   \* thread_pool.maxThreadCount()
          MaxFrames,    \* bound: binary frames a client sends
          MaxTicks,     \* bound: firings of the reconnect task
          NoClient,     \* main.sock when no slot is running for a socket
          Free          \* a session mutex nobody holds

ASSUME SessionsAssumption ==
    /\ MaxThreads \in Nat \ {0}
    /\ MaxFrames \in Nat
    /\ MaxTicks \in Nat
    /\ NoClient \notin Clients
    /\ Free \notin Clients \X (1..MaxFrames)

\* A handler is named after the frame it was created for, and a reply after
\* the handler that posts it and its place among that handler's replies.
Handlers == Clients \X (1..MaxFrames)
Replies == Handlers \X {1, 2}

VARIABLES
    sock,                \* state of each QWebSocket
    sess,                \* state of each WebSocketSession object
    ws_sessions,         \* domain of EndPointWebSocket::ws_sessions
    qrunnables_scheduled,\* the counter of each session
    mutex,               \* holder of each session mutex: a handler or Free
    handler,             \* how far each MsgHandler is
    pool,                \* runnables waiting in thread_pool, oldest first
    events,              \* posted events of the main thread, oldest first
    main,                \* where the main thread stands
    quitting,            \* a.exec() has returned, ~Notka is running
    rx,                  \* binary frames received per client
    ticks,               \* reconnect events posted so far
    posted,              \* history: replies handed to bin_msg_tx
    sent                 \* history: replies written to an open socket

vars == <<sock, sess, ws_sessions, qrunnables_scheduled, mutex, handler, pool,
          events, main, quitting, rx, ticks, posted, sent>>

sessVars == <<sess, ws_sessions, qrunnables_scheduled, mutex>>
workVars == <<handler, pool>>
histVars == <<rx, ticks, posted, sent>>

At(p, c) == main = [at |-> p, sock |-> c]
Goto(p, c) == [at |-> p, sock |-> c]

\* The event loop is free to call the next slot.
Idle == At("loop", NoClient)

\* std::terminate() stops every thread of the process.
Alive == main.at # "aborted"

\* Where the main thread goes when the current slot returns.
Resume == Goto(IF quitting THEN "drain" ELSE "loop", NoClient)

TxEvent(h, k) == [type |-> "tx", sock |-> h[1], msg |-> <<h, k>>]
DeleteEvent(c) == [type |-> "delete", sock |-> c]
ReconnectEvent == [type |-> "reconnect"]

Init ==
    /\ sock = [c \in Clients |-> "none"]
    /\ sess = [c \in Clients |-> "none"]
    /\ ws_sessions = {}
    /\ qrunnables_scheduled = [c \in Clients |-> 0]
    /\ mutex = [c \in Clients |-> Free]
    /\ handler = [h \in Handlers |-> "none"]
    /\ pool = <<>>
    /\ events = <<>>
    /\ main = Goto("loop", NoClient)
    /\ quitting = FALSE
    /\ rx = [c \in Clients |-> 0]
    /\ ticks = 0
    /\ posted = [c \in Clients |-> <<>>]
    /\ sent = [c \in Clients |-> <<>>]

\* The session mutex can be taken.
SessionUnlockedAlways(c) == TRUE
SessionUnlocked(c) == mutex[c] = Free

\* The counter of c after a handler is scheduled, and after one is finished.
CountOnMissing(c) == qrunnables_scheduled
CountOnFlag(c) == [qrunnables_scheduled EXCEPT ![c] = 1]
CountOn(c) == [qrunnables_scheduled EXCEPT ![c] = @ + 1]
CountOffMissing(c) == qrunnables_scheduled
CountOff(c) == [qrunnables_scheduled EXCEPT ![c] = @ - 1]

\* Handlers that occupy a thread of the pool.
Busy == {h \in Handlers : handler[h] \in {"started", "running", "acked", "noted"}}

\* thread_pool.start(): a runnable waits until a thread is free.
EnqueueTry(h) == IF Cardinality(Busy) < MaxThreads THEN Append(pool, h) ELSE pool
Enqueue(h) == Append(pool, h)

-----------------------------------------------------------------------------
(* Main thread: slots called for socket activity.                          *)

\* The socket of a client that left while its handshake was queued is gone
\* already: over TLS it still becomes a web socket, whose TCP socket changes its
\* state no more, so that disconnected() never comes.
on_new_connection(c) ==
    /\ Idle
    /\ sock[c] = "none"
    /\ \E s \in {"open", "gone"} : sock' = [sock EXCEPT ![c] = s]
    /\ sess' = [sess EXCEPT ![c] = "live"]
    /\ ws_sessions' = ws_sessions \cup {c}
    /\ UNCHANGED <<qrunnables_scheduled, mutex, workVars, events, main,
                   quitting, histVars>>

\* on_bin_msg_rx is entered; it blocks the main thread on the session mutex.
BinFrame(c) ==
    /\ Idle
    /\ sock[c] = "open"
    /\ sess[c] = "live"
    /\ rx[c] < MaxFrames
    /\ rx' = [rx EXCEPT ![c] = @ + 1]
    /\ main' = Goto("rx", c)
    /\ UNCHANGED <<sock, sessVars, workVars, events, quitting, ticks, posted,
                   sent>>

\* The critical section of on_bin_msg_rx: create the handler and count it.
RxSchedule(c) ==
    /\ At("rx", c)
    /\ SessionUnlocked(c)
    /\ handler' = [handler EXCEPT ![<<c, rx[c]>>] = "created"]
    /\ qrunnables_scheduled' = CountOn(c)
    /\ main' = Goto("start", c)
    /\ UNCHANGED <<sock, sess, ws_sessions, mutex, pool, events, quitting,
                   histVars>>

\* thread_pool.start(mh), after ml.unlock().
RxStart(c) ==
    /\ At("start", c)
    /\ handler' = [handler EXCEPT ![<<c, rx[c]>>] = "queued"]
    /\ pool' = Enqueue(<<c, rx[c]>>)
    /\ main' = Resume
    /\ UNCHANGED <<sock, sessVars, events, quitting, histVars>>

\* A text frame is dropped, but only after waiting for the session mutex.
TextFrame(c) ==
    /\ Idle
    /\ sock[c] = "open"
    /\ sess[c] = "live"
    /\ main' = Goto("text", c)
    /\ UNCHANGED <<sock, sessVars, workVars, events, quitting, histVars>>

on_text_msg_rx(c) ==
    /\ At("text", c)
    /\ SessionUnlocked(c)
    /\ main' = Resume
    /\ UNCHANGED <<sock, sessVars, workVars, events, quitting, histVars>>

\* What on_sock_disconnect does next: nothing unless the map has the socket.
on_sock_disconnect(c) == IF c \in ws_sessions THEN Goto("close", c) ELSE Resume

\* The peer or the network ended the connection: disconnected() is emitted.
SockDisconnected(c) ==
    /\ Idle
    /\ sock[c] \in {"open", "closing"}
    /\ sock' = [sock EXCEPT ![c] = "closed"]
    /\ main' = on_sock_disconnect(c)
    /\ UNCHANGED <<sessVars, workVars, events, quitting, histVars>>

-----------------------------------------------------------------------------
(* Main thread: close_ws_session and ~WebSocketSession.                    *)

\* What close_ws_session waits for, and the map after erase().
UnscheduledUnchecked(c) == TRUE
Unscheduled(c) == qrunnables_scheduled[c] = 0
Erased(c) == ws_sessions \ {c}

\* Under the session mutex: nothing is scheduled, so erase the map entry.
CloseErase(c) ==
    /\ At("close", c)
    /\ SessionUnlocked(c)
    /\ Unscheduled(c)
    /\ ws_sessions' = Erased(c)
    /\ main' = Goto("delete", c)
    /\ UNCHANGED <<sock, sess, qrunnables_scheduled, mutex, workVars, events,
                   quitting, histVars>>

\* Under the session mutex: a handler is outstanding, so msleep(50) ...
CloseBusy(c) ==
    /\ At("close", c)
    /\ SessionUnlocked(c)
    /\ ~Unscheduled(c)
    /\ main' = Goto("sleep", c)
    /\ UNCHANGED <<sock, sessVars, workVars, events, quitting, histVars>>

\* ... and look again.
CloseWake(c) ==
    /\ At("sleep", c)
    /\ main' = Goto("close", c)
    /\ UNCHANGED <<sock, sessVars, workVars, events, quitting, histVars>>

\* delete ws_session: ws.close(); ws.deleteLater(). Closing an open socket
\* either ends the connection at once, with disconnected() emitted from inside
\* the destructor, or leaves it "closing" until its bytes are flushed.
DeleteSession(c) ==
    /\ At("delete", c)
    /\ sess' = [sess EXCEPT ![c] = "freed"]
    /\ events' = Append(events, DeleteEvent(c))
    /\ \/ /\ sock[c] = "open"
          /\ sock' = [sock EXCEPT ![c] = "closed"]
          /\ main' = on_sock_disconnect(c)
       \/ /\ sock[c] = "open"
          /\ sock' = [sock EXCEPT ![c] = "closing"]
          /\ main' = Resume
       \/ /\ sock[c] # "open"
          /\ main' = Resume
          /\ UNCHANGED sock
    /\ UNCHANGED <<ws_sessions, qrunnables_scheduled, mutex, workVars,
                   quitting, histVars>>

-----------------------------------------------------------------------------
(* Main thread: posted events, in the order they were posted.              *)

\* EndPointWebSocket::bin_msg_tx, called with a raw QWebSocket pointer. A
\* socket that is no longer connected drops the frame.
bin_msg_tx(h, k) ==
    /\ Idle
    /\ events # <<>>
    /\ Head(events) = TxEvent(h, k)
    /\ events' = Tail(events)
    /\ sent' = IF sock[h[1]] = "open"
               THEN [sent EXCEPT ![h[1]] = Append(@, <<h, k>>)] ELSE sent
    /\ UNCHANGED <<sock, sessVars, workVars, main, quitting, rx, ticks, posted>>

\* The deferred delete of a socket; its destructor closes it if need be.
DeferredDelete(c) ==
    /\ Idle
    /\ events # <<>>
    /\ Head(events) = DeleteEvent(c)
    /\ events' = Tail(events)
    /\ sock' = [sock EXCEPT ![c] = "freed"]
    /\ main' = IF sock[c] = "closing" THEN on_sock_disconnect(c) ELSE Resume
    /\ UNCHANGED <<sessVars, workVars, quitting, histVars>>

\* Notka::db_reconnect: close_database, ...
ReconnectClose ==
    /\ Idle
    /\ events # <<>>
    /\ Head(events) = ReconnectEvent
    /\ events' = Tail(events)
    /\ main' = Goto("init_database", NoClient)
    /\ UNCHANGED <<sock, sessVars, workVars, quitting, histVars>>

\* ... init_database ...
ReconnectInit ==
    /\ At("init_database", NoClient)
    /\ main' = Goto("check", NoClient)
    /\ UNCHANGED <<sock, sessVars, workVars, events, quitting, histVars>>

\* ... and the check of lastError, whose exception nothing catches.
ReconnectCheck ==
    /\ At("check", NoClient)
    /\ \/ main' = Resume
       \/ main' = Goto("aborted", NoClient)
    /\ UNCHANGED <<sock, sessVars, workVars, events, quitting, histVars>>

-----------------------------------------------------------------------------
(* Main thread: shutdown.                                                  *)

\* a.exec() returns and ~Notka stops the reconnect task. exec() runs the
\* deferred deletes that are still posted; no other event is delivered again.
ExecReturns ==
    /\ Idle
    /\ quitting' = TRUE
    /\ sock' = [c \in Clients |-> IF \E i \in DOMAIN events :
                                        events[i] = DeleteEvent(c)
                                  THEN "freed" ELSE sock[c]]
    /\ events' = <<>>
    /\ main' = Goto("drain", NoClient)
    /\ UNCHANGED <<sessVars, workVars, histVars>>

\* ws_sessions_disconnect closes the sessions one after the other.
DrainNext(c) ==
    /\ At("drain", NoClient)
    /\ c \in ws_sessions
    /\ main' = Goto("close", c)
    /\ UNCHANGED <<sock, sessVars, workVars, events, quitting, histVars>>

\* No session is left: the server stops listening, the database is closed.
AllClosedUnchecked == TRUE
AllClosed == ws_sessions = {}
DrainDone ==
    /\ At("drain", NoClient)
    /\ AllClosed
    /\ main' = Goto("exited", NoClient)
    /\ UNCHANGED <<sock, sessVars, workVars, events, quitting, histVars>>

-----------------------------------------------------------------------------
(* Other threads.                                                          *)

\* DbReconnectTask::run_once: the queued db_reconnect_signal.
run_once ==
    /\ Alive
    /\ ~quitting
    /\ ticks < MaxTicks
    /\ ticks' = ticks + 1
    /\ events' = Append(events, ReconnectEvent)
    /\ UNCHANGED <<sock, sessVars, workVars, main, quitting, rx, posted, sent>>

\* A free thread of the pool takes the oldest runnable.
Take(h) ==
    /\ Alive
    /\ pool # <<>>
    /\ Head(pool) = h
    /\ Cardinality(Busy) < MaxThreads
    /\ pool' = Tail(pool)
    /\ handler' = [handler EXCEPT ![h] = "started"]
    /\ UNCHANGED <<sock, sessVars, events, main, quitting, histVars>>

\* MsgHandler::run locks the session mutex for all of its processing.
Lock(h) ==
    /\ Alive
    /\ handler[h] = "started"
    /\ SessionUnlocked(h[1])
    /\ mutex' = [mutex EXCEPT ![h[1]] = h]
    /\ handler' = [handler EXCEPT ![h] = "running"]
    /\ UNCHANGED <<sock, sess, ws_sessions, qrunnables_scheduled, pool, events,
                   main, quitting, histVars>>

\* WebSocketSession::bin_msg_tx: the signal is queued to the main thread.
PostTx(h, k) ==
    /\ events' = Append(events, TxEvent(h, k))
    /\ posted' = [posted EXCEPT ![h[1]] = Append(@, <<h, k>>)]
    /\ UNCHANGED <<sock, sessVars, pool, main, quitting, rx, ticks, sent>>

\* The message's process() posts its ack ...
PostAck(h) ==
    /\ Alive
    /\ handler[h] = "running"
    /\ handler' = [handler EXCEPT ![h] = "acked"]
    /\ PostTx(h, 1)

\* ... and a login may post the stored text after it.
PostNotka(h) ==
    /\ Alive
    /\ handler[h] = "acked"
    /\ handler' = [handler EXCEPT ![h] = "noted"]
    /\ PostTx(h, 2)

\* The handler counts itself off and releases the mutex.
Finish(h) ==
    /\ Alive
    /\ handler[h] \in {"running", "acked", "noted"}
    /\ handler' = [handler EXCEPT ![h] = "done"]
    /\ qrunnables_scheduled' = CountOff(h[1])
    /\ mutex' = [mutex EXCEPT ![h[1]] = Free]
    /\ UNCHANGED <<sock, sess, ws_sessions, pool, events, main, quitting,
                   histVars>>

-----------------------------------------------------------------------------
Stopped ==
    /\ main.at \in {"exited", "aborted"}
    /\ UNCHANGED vars

\* Steps of a slot that is running, and steps that deliver a posted event.
SlotStep ==
    \/ \E c \in Clients :
          \/ RxSchedule(c) \/ RxStart(c) \/ on_text_msg_rx(c)
          \/ CloseErase(c) \/ CloseBusy(c) \/ CloseWake(c) \/ DeleteSession(c)
          \/ DrainNext(c)
    \/ ReconnectInit \/ ReconnectCheck \/ DrainDone

EventStep ==
    \/ \E h \in Handlers, k \in {1, 2} : bin_msg_tx(h, k)
    \/ \E c \in Clients : DeferredDelete(c)
    \/ ReconnectClose

\* What peers, the network and whoever ends a.exec() may do.
EnvStep ==
    \/ \E c \in Clients :
          on_new_connection(c) \/ BinFrame(c) \/ TextFrame(c) \/ SockDisconnected(c)
    \/ ExecReturns

HandlerStep(h) ==
    Take(h) \/ Lock(h) \/ PostAck(h) \/ PostNotka(h) \/ Finish(h)

Next ==
    \/ SlotStep
    \/ EventStep
    \/ EnvStep
    \/ run_once
    \/ \E h \in Handlers : HandlerStep(h)
    \/ Stopped

Spec == Init /\ [][Next]_vars

(***************************************************************************)
(* A slot that runs is not preempted for ever, and a thread of the pool    *)
(* makes progress: weak fairness. Posted events are sent on every turn of  *)
(* the event loop, before sockets are looked at, so socket activity cannot *)
(* keep them waiting for ever: strong fairness. Nothing is assumed of      *)
(* peers, of the network, of the reconnect task or of exec() returning.    *)
(***************************************************************************)
Fairness ==
    /\ WF_vars(SlotStep)
    /\ SF_vars(EventStep)
    /\ \A h \in Handlers : WF_vars(HandlerStep(h))

FairSpec == Spec /\ Fairness

-----------------------------------------------------------------------------
(* Properties.                                                             *)

\* Where the main thread can be: in a slot or loop that works for a socket,
\* or elsewhere.
SlotsWithSession == {"rx", "start", "text", "close", "sleep", "delete"}
OtherPlaces == {"loop", "init_database", "check", "drain", "exited", "aborted"}
MainPlaces == [at : SlotsWithSession, sock : Clients]
              \cup [at : OtherPlaces, sock : {NoClient}]

PostedEvents == [type : {"tx"}, sock : Clients, msg : Replies]
                \cup [type : {"delete"}, sock : Clients]
                \cup {ReconnectEvent}

Phases == {"none", "created", "queued", "started", "running", "acked",
           "noted", "done"}

TypeOK ==
    /\ sock \in [Clients -> {"none", "open", "gone", "closing", "closed", "freed"}]
    /\ sess \in [Clients -> {"none", "live", "freed"}]
    /\ ws_sessions \in SUBSET Clients
    /\ qrunnables_scheduled \in [Clients -> Nat]
    /\ mutex \in [Clients -> Handlers \cup {Free}]
    /\ handler \in [Handlers -> Phases]
    /\ pool \in Seq(Handlers)
    /\ events \in Seq(PostedEvents)
    /\ main \in MainPlaces
    /\ quitting \in BOOLEAN
    /\ rx \in [Clients -> 0..MaxFrames]
    /\ ticks \in 0..MaxTicks
    /\ posted \in [Clients -> Seq(Replies)]
    /\ sent \in [Clients -> Seq(Replies)]

\* The runnables that will still touch the session of c.
Outstanding(c) ==
    {h \in Handlers : /\ h[1] = c
                      /\ handler[h] \notin {"none", "done"}}

(* No thread can reach a WebSocketSession that is not alive: neither a     *)
(* runnable that is created, waiting or running, nor the slot the main     *)
(* thread is in. (close_ws_session deletes the session while pool threads  *)
(* and queued runnables may hold a reference to it.)                       *)
SessionsAlive ==
    /\ \A c \in Clients : Outstanding(c) # {} => sess[c] = "live"
    /\ main.at \in SlotsWithSession => sess[main.sock] = "live"

(* qrunnables_scheduled is, in every state, the number of runnables of the *)
(* session that have not finished, so the zero close_ws_session waits for  *)
(* means what it takes it to mean.                                         *)
CounterExact ==
    \A c \in Clients :
        /\ IsFiniteSet(Outstanding(c))
        /\ qrunnables_scheduled[c] = Cardinality(Outstanding(c))

(* The raw QWebSocket pointer in a queued transmission is never dangling:  *)
(* no reply waits in the queue for a socket that is deleted, nor behind    *)
(* the event that will delete it.                                          *)
TxTargetsLiveSocket ==
    \A i \in DOMAIN events : events[i].type = "tx" =>
        /\ sock[events[i].sock] # "freed"
        /\ \A j \in 1..(i-1) : events[j] # DeleteEvent(events[i].sock)

(* At most one thread processes messages of a session, and it is the one   *)
(* the session mutex names.                                                *)
Processing == {"running", "acked", "noted"}
SessionSerial ==
    \A h \in Handlers : handler[h] \in Processing <=> mutex[h[1]] = h

(* The map, the session objects and the sockets agree: exactly the live    *)
(* sessions are in the map, except the one being deleted, and a socket is  *)
(* deleted only after its session is.                                      *)
MapConsistent ==
    /\ \A c \in Clients :
         /\ c \in ws_sessions <=> (sess[c] = "live" /\ ~At("delete", c))
         /\ sess[c] = "none" <=> sock[c] = "none"
         /\ sock[c] \in {"closing", "freed"} => sess[c] = "freed"

(* Nothing that is deleted is still used: no session by a runnable, a slot *)
(* or the session map, no socket by a reply that is queued for it.         *)
NoUseAfterFree == SessionsAlive /\ TxTargetsLiveSocket /\ MapConsistent

(* A session is deleted only when every frame received for it has been     *)
(* processed: none is dropped between on_bin_msg_rx and the pool.          *)
NothingDropped ==
    \A c \in Clients : sess[c] = "freed" =>
        \A n \in 1..rx[c] : handler[<<c, n>>] = "done"

(* ~Notka closes the database only when no handler can use it any more.    *)
DrainedAtExit ==
    main.at = "exited" => /\ \A c \in Clients : Outstanding(c) = {}
                          /\ \A c \in Clients : sess[c] # "live"

\* Action property: a session that is freed stays freed, and its counter and
\* mutex are never written again (both writes would be to freed memory).
NoWriteAfterFree ==
    [][\A c \in Clients : sess[c] = "freed" =>
          /\ sess'[c] = "freed"
          /\ qrunnables_scheduled'[c] = qrunnables_scheduled[c]
          /\ mutex'[c] = mutex[c]]_vars

Aborted == main.at = "aborted"

(* A connection whose end was signalled is reclaimed: the busy-wait of     *)
(* close_ws_session ends, the session is deleted and, unless the server    *)
(* shuts down first, the socket is too. A socket that was gone before its  *)
(* session was made is the other case: disconnected() is all that removes  *)
(* a session, so nothing but the shutdown deletes this one.                *)
GoneIsKept ==
    \A c \in Clients : sock[c] = "gone" /\ ~quitting => sess[c] = "live" /\ c \in ws_sessions
DisconnectReclaims ==
    /\ \A c \in Clients :
          sock[c] = "closed" ~> (sock[c] = "freed" \/ quitting \/ Aborted)
    /\ []GoneIsKept

(* Every frame on_bin_msg_rx accepted is processed, however the waiting    *)
(* for session mutexes, pool threads and the main thread is interleaved.   *)
FrameProcessed ==
    \A h \in Handlers : handler[h] = "created" ~> (handler[h] = "done" \/ Aborted)

(* ~Notka terminates: draining the sessions cannot wait for ever.          *)
ShutdownTerminates == quitting ~> main.at = "exited"
=============================================================================
