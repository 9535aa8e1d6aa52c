----------------------------- MODULE EchoServers -----------------------------
(***************************************************************************)
(* The example programs around a QWebSocketServer: the echo server, the    *)
(* echo server over TLS and the chat server.  Each is a list of clients    *)
(* kept up by two slots: a client enters it in the slot of newConnection() *)
(* and leaves it in the slot of its own disconnected(), which also has it  *)
(* deleted later.  The programs run until they are killed: nobody calls    *)
(* quit(), and the destructors that close the server are not reached.      *)
(***************************************************************************)
EXTENDS QQmlWebSocketServer

VARIABLE m_clients       \* the list; only its members matter, each is there once

exampleVars == <<allVars, m_clients>>

Running == user \in Programs

ExampleInit ==
    /\ QmlInit
    /\ m_clients = {}

(***************************************************************************)
(* The constructors: an unencrypted or a secure server that listens, or    *)
(* fails to and is left alone.                                             *)
(***************************************************************************)
EchoServer == user = "echo" /\ ~secure /\ listen
ChatServer == user = "chat" /\ ~secure /\ listen
\* Whatever is wrong with its certificate or its key shows when TLS fails.
SslEchoServer == user = "sslecho" /\ secure /\ listen

Constructor ==
    /\ EchoServer \/ ChatServer \/ SslEchoServer
    /\ UNCHANGED m_clients

(***************************************************************************)
(* The slots.                                                              *)
(***************************************************************************)
\* newConnection() is emitted while the handshake is handled.
Accepted(c) == conn'[c].ws = "taken" /\ conn[c].ws # "taken"

newConnection(c) ==
    /\ handshakeReceived(c)
    /\ m_clients' = IF Accepted(c) THEN m_clients \cup {c} ELSE m_clients

\* Mutant: a client whose connection ended stays on the list.
removeNone(c) == m_clients

removeAll(c) == m_clients \ {c}

\* disconnected() of a web socket whose TCP socket ended; one that is not yet a
\* web socket has nobody to tell.
socketDisconnected(c) ==
    /\ PeerCloses(c) \/ SocketEnds(c)
    /\ m_clients' = IF conn[c].ws = "taken" THEN removeAll(c) ELSE m_clients

\* deleteLater() of that slot, for a client that is on the list no more.
deleteLater(c) ==
    /\ c \notin m_clients
    /\ DeleteWebSocket(c)
    /\ UNCHANGED m_clients

\* What the programs have no slot for.
Unheard ==
    /\ onNewConnection \/ (\E c \in Conns : Connect(c) \/ Encrypted(c) \/ Arrive(c)
                                           \/ DeleteSocket(c) \/ CloseWebSocket(c))
    /\ UNCHANGED m_clients

ProgramStep ==
    \/ Constructor
    \/ Unheard
    \/ \E c \in Conns : newConnection(c) \/ socketDisconnected(c) \/ deleteLater(c)

ExampleNext ==
    \/ Running /\ ProgramStep /\ UNCHANGED qmlVars
    \/ ~Running /\ QmlNext /\ UNCHANGED m_clients

ExampleSpec == ExampleInit /\ [][ExampleNext]_exampleVars

\* Only the event loop is fair: the network and the users may stop.
ExampleEventLoop ==
    \/ Running /\ UNCHANGED qmlVars /\
           \/ onNewConnection /\ UNCHANGED m_clients
           \/ \E c \in Conns :
                 \/ newConnection(c)
                 \/ SocketEnds(c) /\ socketDisconnected(c)
                 \/ DeleteSocket(c) /\ UNCHANGED m_clients
    \/ ~Running /\ ((EventLoop /\ UNCHANGED qmlVars) \/ closed) /\ UNCHANGED m_clients

ExampleFairSpec == ExampleSpec /\ WF_exampleVars(ExampleEventLoop)

(***************************************************************************)
(* Messages.  Whom a message of client c goes to, as soon as it is there.  *)
(***************************************************************************)
\* processTextMessage, processBinaryMessage
Echo(c) == {c}

\* processMessage
Others(c) == m_clients \ {c}

Recipients(c) == IF user = "chat" THEN Others(c) ELSE Echo(c)

(***************************************************************************)
(* Properties.                                                             *)
(***************************************************************************)
InTouch(c) == conn[c].ws = "taken" /\ conn[c].sock \in {"open", "closing"}

\* A client that was told 101 is in the queue or was handed to the user, and the
\* list of a program follows it to the end: who can still be written to is on
\* the list, and nobody on the list was deleted - so that what a client says
\* reaches, in the chat, everybody else who is there, and never a dead pointer.
\* Over TLS one may be on it who went before its handshake was handled, whose
\* disconnected() nobody has heard.
NobodyLost ==
    /\ NothingLost
    /\ Running =>
         \A c \in Conns :
            /\ InTouch(c) => c \in m_clients
            /\ c \in m_clients => conn[c].ws = "taken" /\ (InTouch(c) \/ secure)
            /\ InTouch(c) =>
                  Recipients(c) = IF user = "chat" THEN {d \in Conns : InTouch(d)} \ {c} ELSE {c}
=============================================================================
