---------------------------- MODULE QQmlWebSocket ----------------------------
(***************************************************************************)
(* The QML element WebSocket, whose status follows the signals of the      *)
(* QWebSocket that it owns and whose url and active open and close it, or  *)
(* that socket in the hands of a C++ user.                                 *)
(***************************************************************************)
EXTENDS QWebSocketClient

VARIABLES m_url, m_isActive, m_componentCompleted

qmlVars == <<m_url, m_isActive, m_componentCompleted>>
vars == <<origin, owner, opens, ws, qmlVars>>

Idle == "none"               \* the url before it is set

\* An element that a WebSocketServer made for a socket is complete.
QmlInit ==
    /\ Init
    /\ m_componentCompleted = (owner = "qml" /\ ws = Accepted)
    /\ m_isActive = m_componentCompleted
    /\ m_url = IF m_componentCompleted THEN "ws" ELSE Idle

\* open(), when there is something to open.
Opens(w, url) ==
    IF m_isActive' /\ m_componentCompleted' /\ url \notin {Idle, "invalid"}
    THEN /\ opens < MaxOpens
         /\ opens' = opens + 1
         /\ ws' = openSocket(w, url)
    ELSE ws' = w /\ UNCHANGED opens

componentComplete ==
    /\ owner = "qml"
    /\ ~m_componentCompleted
    /\ m_componentCompleted' = TRUE
    /\ UNCHANGED <<m_url, m_isActive, origin, owner>>
    /\ Opens(ws, m_url)

setUrl(url) ==
    /\ owner = "qml"
    /\ url # m_url
    /\ m_url' = url
    /\ UNCHANGED <<m_isActive, m_componentCompleted, origin, owner>>
    /\ Opens(IF ws.status = "Open" THEN closeSocket(ws) ELSE ws, url)

setActive(active) ==
    /\ owner = "qml"
    /\ active # m_isActive
    /\ m_isActive' = active
    /\ UNCHANGED <<m_url, m_componentCompleted, origin, owner>>
    /\ IF ~m_componentCompleted THEN ws' = ws /\ UNCHANGED opens
       ELSE IF active THEN Opens(ws, m_url)
       ELSE ws' = closeSocket(ws) /\ UNCHANGED opens

\* sendTextMessage, sendBinaryMessage: only an open socket sends.
sendMessage ==
    /\ owner = "qml"
    /\ ws' = [ws EXCEPT !.status = IF @ = "Open" THEN @ ELSE "Error"]
    /\ UNCHANGED <<m_url, m_isActive, m_componentCompleted, origin, owner, opens>>

SystemStep == System /\ UNCHANGED qmlVars

Next ==
    \/ SystemStep
    \/ owner # "qml" /\ UserCalls /\ UNCHANGED qmlVars
    \/ componentComplete
    \/ \E url \in Urls : setUrl(url)
    \/ \E active \in BOOLEAN : setActive(active)
    \/ sendMessage

Spec == QmlInit /\ [][Next]_vars

\* What happens without the server: the event loop runs, and TCP connects or gives
\* up.  A server need not answer, nor close.
OwnStep == (EventLoop \/ Tcp) /\ UNCHANGED qmlVars

(***************************************************************************)
(* Properties.                                                             *)
(***************************************************************************)
Upgrades(r) == r.status = 101 /\ r.http >= 11 /\ r.headers.upgrade /\ r.headers.connection

\* A web socket becomes Connected only by an answer to its own request, read to
\* the end on the connection that it has, which says all that makes it one:
\* nothing that an earlier answer said counts, on this connection or on another,
\* unless that answer was cut within its headers.  Then only the key must be its
\* own: the status line is the other server's, and so may the rest be.
ConnectedByOwnAnswer ==
    [][ws'.state = "Connected" /\ ws.state # "Connected" =>
          /\ ws'.sock = "connected"
          /\ ws'.read = 3
          /\ ws'.answer.headers.key = "right"
          /\ ws'.stale \/ Upgrades(ws'.answer)]_vars

\* A right answer, when all of it was read, connects, whatever became of the
\* attempts before it - unless the last of them was cut within its
\* headers, for then its m_handshakeState is still there.
Right(r) == r.status = 101 /\ r.http = 11 /\ r.headers.key = "right"
            /\ r.headers.upgrade /\ r.headers.connection

RightAnswerConnects ==
    ws.read = 3 /\ Right(ws.answer) /\ ~ws.stale =>
        "connected" \in ws.told

\* The element is Open only while its messages can go out.
OpenMeansOpen ==
    owner = "qml" /\ ws.status = "Open" => ws.state = "Connected" /\ ws.sock = "connected"

\* The server has not said all of its answer, or the connection is not made.
Unanswered == \/ ws.sock = "connected" /\ ws.arrived < End
              \/ owner = "sslecho" /\ ws.sock = "connecting"

\* Every attempt to connect is reported, as a success, a failure or an end, but
\* for one whose server is silent, for which nothing sets a limit; and an
\* element that is no longer active comes to rest, even then.
AttemptsEnd ==
    /\ ws.state = "Connecting" /\ ~Unanswered ~> ws.told # {} \/ Unanswered
    /\ owner = "qml" /\ m_componentCompleted /\ ~m_isActive ~>
           m_isActive \/ ws.status \in {"Closed", "Error"}
=============================================================================
