--------------------------- MODULE QWebSocketServer ---------------------------
(***************************************************************************)
(* QWebSocketServer from the arrival of a TCP connection to the death of   *)
(* its socket: the opening handshake, the queue of pending connections and *)
(* who deletes what, on one thread whose event loop delivers socket        *)
(* events, queued slots and deferred deletions in any order that Qt allows.*)
(*                                                                         *)
(* QTcpServer and QSslSocket are modelled from their use.  A secure server *)
(* has a connection in its backlog while TLS is negotiated, and is told of *)
(* it by a queued slot; the other one hears of a connection at once.  The  *)
(* event loop delivers a queued handshakeReceived before it looks at the   *)
(* socket again.                                                           *)
(***************************************************************************)
EXTENDS QWebSocketHandshake, FiniteSets

CONSTANTS
    Conns,           \* TCP connections that clients make
    Requests,        \* what a client may send, by connection
    AllowedOrigins,  \* origins that the slot of originAuthenticationRequired allows
    Modes,           \* subset of {"plain", "secure"}
    Users,           \* "slot" takes a connection in the slot of newConnection, "later"
                     \* when it likes; "qml" is the QML element's slot, the others are
                     \* the example programs
    Limits,          \* what setMaxPendingConnections is called with
    TcpMaxPending,   \* QTcpServer's own limit, 30 until it is changed
    Names,           \* whether setServerName was given a name with a line break

    MaxCalls         \* bound: calls of listen() and close(), and of the QML setters, by user

ASSUME RequestsAssumption ==
    \A c \in Conns : \A r \in Requests[c] :
        /\ r.words \in Nat /\ r.http \in Int /\ r.lines \in Nat
        /\ r.uri \in {"relative", "", "host"} /\ r.host \in {"", "host", "user@host"}
ASSUME LimitsAssumption == Limits \subseteq Nat
ASSUME ModesAssumption == Modes \subseteq {"plain", "secure"}

Programs == {"echo", "chat", "sslecho"}

ASSUME UsersAssumption == Users \subseteq {"slot", "later", "qml"} \cup Programs

VARIABLES
    secure,        \* m_secureMode = SecureMode
    user,          \* who uses the server
    nameBreaks,    \* m_serverName has a line break
    listening,     \* the QTcpServer listens,
    accepting,     \* its notifier is enabled
    tcpMax,        \* and this is its maxPendingConnections
    maxPending,    \* m_maxPendingConnections
    drain,         \* onNewConnection is queued
    pending,       \* m_pendingConnections
    error,         \* m_error with m_errorString
    closedPosted,  \* closed() is queued so often
    calls,       \* history: calls of listen() and close()
    conn           \* a record for each connection

serverVars == <<listening, accepting, tcpMax, maxPending, pending, error, closedPosted, calls>>
vars == <<secure, user, nameBreaks, drain, conn, serverVars>>

\* linked: the server's slots are connected to the socket; doomed: deleteLater()
\* was called; heard: history, what had arrived when the handshake was handled.
Fresh == [stage |-> "none", tls |-> "none", sock |-> "none", request |-> "none", got |-> Nothing,
          posted |-> FALSE, linked |-> FALSE, doomed |-> FALSE, heard |-> Nothing,
          answer |-> <<>>, ws |-> "none"]

\* The constructor and init(): a server that nobody has told to listen.
NewServer ==
    /\ listening = FALSE
    /\ accepting = FALSE
    /\ tcpMax = TcpMaxPending
    /\ maxPending \in Limits
    /\ pending = <<>>
    /\ error = "normal"

Init ==
    /\ secure \in {m = "secure" : m \in Modes}
    /\ user \in Users
    /\ user \in {"qml", "echo", "chat"} => ~secure
    /\ user = "sslecho" => secure
    /\ nameBreaks \in Names
    /\ user \in Programs => ~nameBreaks
    /\ NewServer
    /\ drain = FALSE
    /\ closedPosted = 0
    /\ calls = 0
    /\ conn = [c \in Conns |-> Fresh]

\* QTcpServer's pending connections: those that nobody has taken from it.
Backlog == {c \in Conns : conn[c].stage = "waiting"}

(***************************************************************************)
(* The network and QSslServer.                                             *)
(***************************************************************************)
\* incomingConnection; without TLS newConnection, onNewConnection and
\* handleConnection follow at once.
Connect(c) ==
    /\ listening /\ accepting
    /\ conn[c].stage = "none"
    /\ Cardinality(Backlog) < tcpMax
    /\ \E r \in Requests[c] :
         conn' = [conn EXCEPT ![c] = [Fresh EXCEPT
                     !.request = r, !.sock = "open",
                     !.stage = IF secure THEN "waiting" ELSE "handshake",
                     !.linked = ~secure,
                     !.tls = IF secure THEN "running" ELSE "none"]]
    /\ UNCHANGED <<secure, user, nameBreaks, drain, serverVars>>

\* newEncryptedConnection, whose slot is queued.
Encrypted(c) ==
    /\ conn[c].tls = "running" /\ conn[c].sock = "open"
    /\ conn' = [conn EXCEPT ![c].tls = "done"]
    /\ drain' = TRUE
    /\ UNCHANGED <<secure, user, nameBreaks, serverVars>>

\* The peer goes, TLS fails: disconnected() finds the slot or nobody.
PeerCloses(c) ==
    /\ conn[c].sock = "open"
    /\ secure \/ ~conn[c].posted
    /\ conn' = [conn EXCEPT ![c].sock = "gone", ![c].doomed = @ \/ conn[c].linked]
    /\ UNCHANGED <<secure, user, nameBreaks, drain, serverVars>>

\* readyRead: part of the request arrives.  What arrives later is read as frames.
Arrive(c) ==
    /\ conn[c].sock = "open"
    /\ conn[c].stage # "done"
    /\ conn[c].tls # "running"
    /\ ~conn[c].posted
    /\ \E got \in (conn[c].got + 1)..EmptyLine :
         conn' = [conn EXCEPT ![c].got = got, ![c].posted = conn[c].stage = "handshake"]
    /\ UNCHANGED <<secure, user, nameBreaks, drain, serverVars>>

\* What was written is out: disconnected(), onSocketDisconnected.
SocketEnds(c) ==
    /\ conn[c].sock = "closing"
    /\ conn' = [conn EXCEPT ![c].sock = "gone", ![c].doomed = @ \/ conn[c].linked]
    /\ UNCHANGED <<secure, user, nameBreaks, drain, serverVars>>

\* The deferred delete; a slot queued earlier runs earlier.
DeleteSocket(c) ==
    /\ conn[c].doomed /\ conn[c].sock # "deleted"
    /\ ~conn[c].posted
    /\ conn' = [conn EXCEPT ![c].sock = "deleted"]
    /\ UNCHANGED <<secure, user, nameBreaks, drain, serverVars>>

(***************************************************************************)
(* The server's slots.                                                     *)
(***************************************************************************)
\* handleConnection for the whole backlog, TLS still running or not.
onNewConnection ==
    /\ drain
    /\ drain' = FALSE
    /\ conn' = [c \in Conns |->
                  IF c \in Backlog
                  THEN [conn[c] EXCEPT !.stage = "handshake", !.linked = TRUE]
                  ELSE conn[c]]
    /\ UNCHANGED <<secure, user, nameBreaks, serverVars>>

setError(e) == error' = e

\* Mutant: a refused client keeps its connection.
CloseOfNothing(sock) == sock

\* close(): a socket that is gone already stays as it is.
CloseOf(sock) == IF sock = "open" THEN "closing" ELSE sock

isFull == Len(pending) >= maxPending

\* newConnection(): a slot like the echo server's or the QML element's takes the
\* connection, which is the only one in its queue.
TakenInSlot == user # "later"

\* upgradeFrom, addPendingConnection and the signal.
addPendingConnection(c, answered) ==
    IF isFull
    THEN /\ conn' = [conn EXCEPT ![c] = [answered EXCEPT !.ws = "lost"]]
         /\ UNCHANGED pending
    ELSE IF TakenInSlot
    THEN /\ conn' = [conn EXCEPT ![c] = [answered EXCEPT !.ws = "taken"]]
         /\ UNCHANGED pending
    ELSE /\ conn' = [conn EXCEPT ![c] = [answered EXCEPT !.ws = "pending"]]
         /\ pending' = Append(pending, c)

\* The user asks for a say: the others connect nothing to originAuthenticationRequired.
AnyUser == user \in {"slot", "later"}

\* QWebSocketCorsAuthenticator allows every origin until a slot thinks otherwise.
allowed(origin) == AnyUser => origin \in AllowedOrigins

\* handshakeReceived's first steps: it takes what has arrived, and will not be
\* called again.
Heard(k) == [k EXCEPT !.posted = FALSE, !.stage = "done", !.heard = k.got]

Respond(c) ==
    LET heard == Heard(conn[c])
        request == readHandshake(heard.request, heard.got)
        response == getHandshakeResponse(request, allowed(request.origin), nameBreaks)
        answered == [heard EXCEPT !.answer = response.lines]
    IN  IF ~request.valid
        THEN /\ conn' = [conn EXCEPT ![c] = [heard EXCEPT !.sock = CloseOf(@)]]
             /\ UNCHANGED <<pending, error>>
        ELSE IF response.canUpgrade
        THEN addPendingConnection(c, answered) /\ UNCHANGED error
        ELSE /\ conn' = [conn EXCEPT ![c] = [answered EXCEPT !.sock = CloseOf(@)]]
             /\ setError(response.error)
             /\ UNCHANGED pending

\* Mutant: the answer is written before the queue is looked at.
TooManyPendingAnswered(c) == Respond(c)

TooManyPending(c) ==
    /\ conn' = [conn EXCEPT ![c] =
                  [Heard(conn[c]) EXCEPT !.sock = CloseOf(conn[c].sock), !.doomed = TRUE]]
    /\ setError("full")
    /\ UNCHANGED pending

handshakeReceived(c) ==
    /\ conn[c].posted
    /\ IF conn[c].got < FirstLine       \* ~canReadLine()
       THEN /\ conn' = [conn EXCEPT ![c].posted = FALSE]
            /\ UNCHANGED <<pending, error>>
       ELSE IF isFull THEN TooManyPending(c) ELSE Respond(c)
    /\ UNCHANGED <<secure, user, nameBreaks, drain, listening, accepting, tcpMax, maxPending,
                   closedPosted, calls>>

(***************************************************************************)
(* The user's calls.                                                       *)
(***************************************************************************)
nextPendingConnection ==
    /\ user = "later"
    /\ pending # <<>>
    /\ pending' = Tail(pending)
    /\ conn' = [conn EXCEPT ![Head(pending)].ws = "taken"]
    /\ UNCHANGED <<secure, user, nameBreaks, drain, listening, accepting, tcpMax, maxPending,
                   error, closedPosted, calls>>

setMaxPendingConnections(n) ==
    /\ AnyUser
    /\ tcpMax' = IF tcpMax <= n THEN n + 1 ELSE tcpMax
    /\ maxPending' = n
    /\ UNCHANGED <<secure, user, nameBreaks, drain, conn, listening, accepting, pending, error,
                   closedPosted, calls>>

\* QTcpServer takes these two calls only while it listens.
pauseAccepting ==
    /\ listening
    /\ accepting' = FALSE
    /\ UNCHANGED <<secure, user, nameBreaks, drain, conn, listening, tcpMax, maxPending, pending,
                   error, closedPosted, calls>>

resumeAccepting ==
    /\ listening
    /\ accepting' = TRUE
    /\ UNCHANGED <<secure, user, nameBreaks, drain, conn, listening, tcpMax, maxPending, pending,
                   error, closedPosted, calls>>

listen ==
    /\ user # "qml"
    /\ ~listening
    /\ calls < MaxCalls[user]
    /\ calls' = calls + 1
    /\ \/ /\ listening' = TRUE /\ accepting' = TRUE
          /\ UNCHANGED error
       \/ /\ setError("socket")
          /\ UNCHANGED <<listening, accepting>>
    /\ UNCHANGED <<secure, user, nameBreaks, drain, conn, tcpMax, maxPending, pending,
                   closedPosted>>

\* A web socket goes: it closes, all connections of its TCP socket are cut, and
\* the socket was deleted by the server's slot only if it ended at once.
Released(k, flushed) ==
    [k EXCEPT !.ws = "deleted",
              !.sock = IF k.sock = "open" /\ flushed THEN "gone" ELSE CloseOf(@),
              !.doomed = @ \/ (k.sock = "open" /\ flushed /\ k.linked),
              !.linked = FALSE]

InPending(c) == \E i \in DOMAIN pending : pending[i] = c

\* close(): QTcpServer deletes its backlog, the pending web sockets are closed
\* and deleted, closed() is queued.
CloseServer(flushed) ==
    /\ listening' = FALSE
    /\ accepting' = FALSE
    /\ pending' = <<>>
    /\ conn' = [c \in Conns |->
                  IF InPending(c) THEN Released(conn[c], flushed)
                  ELSE IF c \in Backlog THEN [conn[c] EXCEPT !.sock = "deleted", !.stage = "done"]
                  ELSE conn[c]]

close ==
    /\ AnyUser
    /\ \E flushed \in BOOLEAN : CloseServer(flushed)
    /\ closedPosted' = closedPosted + 1
    /\ calls < MaxCalls[user]
    /\ calls' = calls + 1
    /\ UNCHANGED <<secure, user, nameBreaks, drain, tcpMax, maxPending, error>>

closedSignal ==
    /\ AnyUser
    /\ closedPosted > 0
    /\ closedPosted' = closedPosted - 1
    /\ UNCHANGED <<secure, user, nameBreaks, drain, conn, listening, accepting, tcpMax,
                   maxPending, pending, error, calls>>

\* QWebSocket::close by the user, or for a protocol error.
CloseWebSocket(c) ==
    /\ conn[c].ws = "taken"
    /\ conn[c].sock = "open"
    /\ conn' = [conn EXCEPT ![c].sock = "closing"]
    /\ UNCHANGED <<secure, user, nameBreaks, drain, serverVars>>

\* The users delete a web socket in the slot of its disconnected(), or at once.
DeleteWebSocket(c) ==
    /\ conn[c].ws = "taken"
    /\ user \in Programs => conn[c].sock \notin {"open", "closing"}
    /\ \E flushed \in BOOLEAN : conn' = [conn EXCEPT ![c] = Released(conn[c], flushed)]
    /\ UNCHANGED <<secure, user, nameBreaks, drain, serverVars>>

EventLoop ==
    \/ onNewConnection
    \/ closedSignal
    \/ \E c \in Conns : handshakeReceived(c) \/ SocketEnds(c) \/ DeleteSocket(c)

Network == \E c \in Conns : Connect(c) \/ Encrypted(c) \/ PeerCloses(c) \/ Arrive(c)

UserCalls ==
    \/ nextPendingConnection
    \/ \E n \in Limits : setMaxPendingConnections(n)
    \/ AnyUser /\ (pauseAccepting \/ resumeAccepting)
    \/ listen \/ close
    \/ \E c \in Conns : CloseWebSocket(c) \/ DeleteWebSocket(c)

Next == EventLoop \/ Network \/ UserCalls

Spec == Init /\ [][Next]_vars

\* The event loop does what there is to do.
Fairness == WF_vars(EventLoop)

FairSpec == Spec /\ Fairness

(***************************************************************************)
(* Properties.                                                             *)
(***************************************************************************)
\* What RFC 6455, 4.2.1 wants besides the host and the key; a request line may
\* have more words after the version, which nobody looks at.
AsksToUpgrade(r) ==
    /\ r.words >= 3 /\ r.verb = "GET" /\ r.http >= 11
    /\ r.upgrade /\ r.connection
    /\ \E i \in DOMAIN r.versions : r.versions[i] = 13

\* A request as RFC 6455 wants it: a Host header, and a key of 16 bytes, even
\* when its URI is absolute.
LegalRequest(r) ==
    /\ AsksToUpgrade(r)
    /\ r.uri # "" /\ r.host = "host" /\ r.key = "nonce"

\* The host may also be that of an absolute URI, without a look at the Host
\* header, and any key will do: there the code asks less than the RFC.
ToleratedRequest(r) ==
    /\ AsksToUpgrade(r)
    /\ RequestHost(r) = "host" /\ r.key # ""

\* And here it asks more: ": " between name and value, only numbers in the list
\* of versions, and its own limits.
Readable(r) ==
    /\ r.fields /\ ~r.long /\ r.lines <= MaxHeaderLines
    /\ \A i \in DOMAIN r.versions : r.versions[i] # NoNumber

\* Nobody becomes a web socket whose request is not what the RFC wants, but for
\* its host and its key, from an allowed origin and there to the last line,
\* however it was cut into segments and whatever the user did in between; and
\* nobody is told 101 otherwise, but for a server name that breaks the answer.
UpgradeIsLegal ==
    \A c \in Conns :
        \/ conn[c].ws # "none"
        \/ conn[c].answer # <<>> /\ conn[c].answer[1] = 101 /\ ~nameBreaks
        => /\ ToleratedRequest(conn[c].request) /\ Readable(conn[c].request)
           /\ allowed(conn[c].request.origin)
           /\ conn[c].heard >= EmptyLine
           /\ conn[c].answer = <<101>>

\* A client that was told 101 is in the queue or was handed to the user: the
\* queue is never found full after the answer was written.
NothingLost == \A c \in Conns : conn[c].answer = <<101>> =>
                   conn[c].ws \in {"pending", "taken", "deleted"}

\* A legal request that the server can read, all there when it looked at it, is
\* refused only for its origin, the server's name or a full queue, each with an error.
LegalIsServed ==
    \A c \in Conns :
        /\ conn[c].stage = "done" /\ conn[c].heard >= EmptyLine
        /\ LegalRequest(conn[c].request) /\ Readable(conn[c].request)
        /\ conn[c].ws = "none"
        => /\ user # "qml" => error # "normal"     \* the element has a new server by then
           /\ conn[c].answer \in {<<>>, <<403>>, <<101, 400>>}
           /\ conn[c].answer = <<403>> => ~allowed(conn[c].request.origin)

\* A server that listens for plain connections makes every client that sends a
\* line a web socket or deletes its socket.
ClientsAreSettled ==
    \A c \in Conns :
        ~secure /\ conn[c].got >= FirstLine ~> conn[c].ws # "none" \/ conn[c].sock = "deleted"
=============================================================================
