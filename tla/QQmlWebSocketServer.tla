------------------------- MODULE QQmlWebSocketServer -------------------------
(***************************************************************************)
(* The QML element WebSocketServer on top of QWebSocketServer: properties  *)
(* that may be set before and after the component is complete, each of     *)
(* which restarts the server in its own way, and the queued closed() that  *)
(* a restart leaves behind.  The element takes a connection in the slot of *)
(* newConnection(), so that its server's queue is always empty.            *)
(***************************************************************************)
EXTENDS QWebSocketServer

CONSTANTS
    Hosts,      \* what setHost is called with: "name" is no address in normal form
    Ports,      \* what setPort is called with: 0 lets the system choose
    FreePort    \* the port that the system chooses

ASSUME PortsAssumption == FreePort # 0

VARIABLES m_host, m_port, m_listen, m_accept, m_componentCompleted

qmlVars == <<m_host, m_port, m_listen, m_accept, m_componentCompleted>>
allVars == <<vars, qmlVars>>

\* The constructor and classBegin(); only another user has nothing to complete.
QmlInit ==
    /\ Init
    /\ m_host = "address"
    /\ m_port = 0
    /\ m_listen = FALSE
    /\ m_accept = TRUE
    /\ m_componentCompleted = FALSE

(***************************************************************************)
(* updateListening(): the server is closed, listens again, and tells its   *)
(* port and address to setPort and setHost; a new one closes the server    *)
(* and lets it listen once more, there.  (That listen, at what was free a  *)
(* moment ago, is taken to succeed.)                                       *)
(***************************************************************************)
Times(happens) == IF happens THEN 1 ELSE 0

\* Mutant: the element does not ask the server where it listens.
updateListeningOnly(isListening, completed, host, port, on) ==
    {[listening |-> l, closed |-> Times(isListening), host |-> host, port |-> port] : l \in {FALSE, on}}

updateListening(isListening, completed, host, port, on) ==
    LET before == Times(isListening)
        again == Times(host = "name") + Times(port = 0 /\ completed)
        stopped == [listening |-> FALSE, closed |-> before, host |-> host, port |-> port]
    IN  IF ~on THEN {stopped}
        ELSE {stopped,
              [listening |-> TRUE, closed |-> before + again,
               host |-> IF host = "name" THEN "address" ELSE host,
               port |-> IF port = 0 THEN FreePort ELSE port]}

\* closes: how often closed() is queued before this call.
Update(isListening, completed, closes, host, port, on) ==
    \E u \in updateListening(isListening, completed, host, port, on) :
        /\ listening' = u.listening
        /\ accepting' = u.listening
        /\ closedPosted' = closes + u.closed
        /\ m_host' = u.host
        /\ m_port' = u.port

\* The old server goes, with all TCP sockets that it has accepted.
Destroyed(k) ==
    IF k.sock = "none" THEN k
    ELSE [k EXCEPT !.sock = "deleted", !.stage = "done", !.posted = FALSE]

init(completed) ==
    /\ conn' = [c \in Conns |-> Destroyed(conn[c])]
    /\ error' = "normal"
    /\ Update(FALSE, completed, 0, m_host, m_port, m_listen)

Called == user = "qml" /\ calls < MaxCalls[user] /\ calls' = calls + 1

Kept == UNCHANGED <<secure, user, nameBreaks, drain, tcpMax, maxPending, pending>>

componentComplete ==
    /\ user = "qml"
    /\ ~m_componentCompleted
    /\ m_componentCompleted' = TRUE
    /\ init(FALSE)
    /\ Kept
    /\ UNCHANGED <<calls, m_listen, m_accept>>

setName ==
    /\ Called
    /\ m_componentCompleted       \* before that, only the name is noted
    /\ init(TRUE)
    /\ Kept
    /\ UNCHANGED <<m_listen, m_accept, m_componentCompleted>>

setHost(host) ==
    /\ Called
    /\ host # m_host
    /\ IF m_componentCompleted
       THEN Update(listening, TRUE, closedPosted, host, m_port, m_listen)
       ELSE m_host' = host /\ UNCHANGED <<listening, accepting, closedPosted, m_port>>
    /\ Kept
    /\ UNCHANGED <<conn, error, m_listen, m_accept, m_componentCompleted>>

setPort(port) ==
    /\ Called
    /\ port # m_port
    /\ IF m_componentCompleted /\ listening
       THEN Update(TRUE, TRUE, closedPosted, m_host, port, m_listen)
       ELSE m_port' = port /\ UNCHANGED <<listening, accepting, closedPosted, m_host>>
    /\ Kept
    /\ UNCHANGED <<conn, error, m_listen, m_accept, m_componentCompleted>>

SetListen(on, closes) ==
    /\ m_listen' = on
    /\ IF m_componentCompleted
       THEN Update(listening, TRUE, closes, m_host, m_port, on)
       ELSE closedPosted' = closes /\ UNCHANGED <<listening, accepting, m_host, m_port>>

setListen(on) ==
    /\ Called
    /\ on # m_listen
    /\ SetListen(on, closedPosted)
    /\ Kept
    /\ UNCHANGED <<conn, error, m_accept, m_componentCompleted>>

setAccept(accept) ==
    /\ Called
    /\ accept # m_accept
    /\ m_accept' = accept
    /\ IF m_componentCompleted
       THEN listening /\ accepting' = accept   \* see pauseAccepting
       ELSE UNCHANGED accepting
    /\ Kept
    /\ UNCHANGED <<conn, error, listening, closedPosted, m_host, m_port, m_listen,
                   m_componentCompleted>>

\* The slot of the server's closed().
closed ==
    /\ user = "qml"
    /\ closedPosted > 0
    /\ IF m_listen
       THEN SetListen(FALSE, closedPosted - 1)
       ELSE /\ closedPosted' = closedPosted - 1
            /\ UNCHANGED <<listening, accepting, m_host, m_port, m_listen>>
    /\ Kept
    /\ UNCHANGED <<conn, error, calls, m_accept, m_componentCompleted>>

QmlCalls ==
    \/ componentComplete \/ setName
    \/ \E h \in Hosts : setHost(h)
    \/ \E p \in Ports : setPort(p)
    \/ \E b \in BOOLEAN : setListen(b) \/ setAccept(b)

QmlNext ==
    \/ Next /\ UNCHANGED qmlVars
    \/ QmlCalls
    \/ closed

QmlSpec == QmlInit /\ [][QmlNext]_allVars

QmlFairSpec == QmlSpec /\ WF_allVars((EventLoop /\ UNCHANGED qmlVars) \/ closed)

(***************************************************************************)
(* Properties.                                                             *)
(***************************************************************************)
\* In whatever order its properties are set, and a stale closed() comes in, the
\* element's server listens only while listen says so, and where its url says.
ListensAsItSays ==
    user = "qml" /\ listening =>
        m_componentCompleted /\ m_listen /\ m_port # 0 /\ m_host # "name"
=============================================================================
