--------------------------- MODULE QWebSocketClient ---------------------------
(***************************************************************************)
(* A QWebSocket that its user opens, closes and opens again: open(), the   *)
(* TCP socket below it, the answer of the server read line by line, and    *)
(* the signals that tell the user.  What a connected socket receives is in *)
(* QWebSocketPeers.                                                        *)
(*                                                                         *)
(* All of it is on one thread.  The event loop delivers a queued           *)
(* processData before it looks at the socket again; the user's slots, and  *)
(* what they call, run between two turns of the loop in processData.       *)
(***************************************************************************)
EXTENDS QWebSocketHandshake

CONSTANTS
    Urls,          \* what open() is given: "ws", "invalid", "encoded" (a resource name with
                   \* an encoded line break) and "ftp" for another scheme
    Responses,     \* what servers answer
    Origins,       \* origins, "break" has a line break in it
    Owners,        \* who uses the socket: a C++ user, "cpp" or an example program, or
                   \* "qml", the element of QQmlWebSocket
    MaxOpens       \* bound: calls of open()

ASSUME UrlsAssumption == Urls \subseteq {"ws", "invalid", "encoded", "ftp"}

VARIABLES
    origin,        \* m_origin
    owner,         \* who uses the socket
    opens,         \* history: calls of open()
    ws             \* the QWebSocketPrivate, its TCP socket, the server

NoHeaders == [key |-> "none", upgrade |-> FALSE, connection |-> FALSE]

NoAnswer == [status |-> NoNumber, http |-> NoNumber, headers |-> NoHeaders]

ASSUME ResponsesAssumption ==
    Responses \subseteq
        [status : Nat \cup {NoNumber}, http : Nat,
         headers : [key : {"none", "right", "wrong"}, upgrade : BOOLEAN, connection : BOOLEAN]]

(***************************************************************************)
(* state is m_socketState, sock the state of m_pSocket, "none" when there  *)
(* is none; hs, parsed and headers are m_handshakeState, what the last     *)
(* status line said, and m_headers.  An answer has three lines, Status,    *)
(* Fields (all headers) and End: arrived of them have arrived, and read of *)
(* these have been read.  posted says that processData is queued.  status  *)
(* is m_status of the QML element, if one owns the socket.  History:       *)
(* answer is what the server says now on this connection, told which of    *)
(* connected, disconnected and error came since open(), stale that it      *)
(* found a handshake that had been cut within its headers.                 *)
(***************************************************************************)
New == [state |-> "Unconnected", sock |-> "none", hs |-> "NothingDone",
        parsed |-> [status |-> NoNumber, http |-> 0], headers |-> NoHeaders,
        arrived |-> 0, read |-> 0, posted |-> FALSE, closeSent |-> FALSE,
        status |-> "Closed", answer |-> NoAnswer, told |-> {}, stale |-> FALSE]

Status == 1
Fields == 2
End == 3

\* What a server hands out may be opened as well.
Accepted == [New EXCEPT !.state = "Connected", !.sock = "connected",
                        !.status = IF owner = "qml" THEN "Open" ELSE @]

Init ==
    /\ origin \in Origins
    /\ owner \in Owners
    /\ opens = 0
    /\ ws \in {New, Accepted}

\* Mutant: the status does not follow the closing socket.
StatusAfterNoClosing(status, signal) ==
    CASE signal = "Connecting" -> "Connecting"
      [] signal = "Unconnected" -> "Closed"
      [] signal = "Connected" -> "Open"
      [] signal = "error" -> "Error"
      [] OTHER -> status

\* The element's slots, onStateChanged and onError.
StatusAfter(status, signal) ==
    CASE signal = "Connecting" -> "Connecting"
      [] signal = "Unconnected" -> "Closed"
      [] signal = "Connected" -> "Open"
      [] signal = "Closing" -> "Closing"
      [] signal = "error" -> "Error"
      [] OTHER -> status

\* A signal goes to the slots of the user, in this very call.
Emit(w, signal) ==
    [w EXCEPT !.told = @ \cup ({signal} \cap {"connected", "disconnected", "error"}),
              !.status = IF owner = "qml" THEN StatusAfter(@, signal) ELSE @]

setSocketState(w, state) ==
    IF w.state = state THEN w ELSE Emit([w EXCEPT !.state = state], state)

(***************************************************************************)
(* processStateChanged, by the new state of the TCP socket.                *)
(***************************************************************************)
\* Mutant: only the state changes.
SocketUnconnectedSilent(w) == setSocketState([w EXCEPT !.sock = "unconnected"], "Unconnected")

SocketUnconnected(w) ==
    LET gone == [w EXCEPT !.sock = "unconnected"]
    IN  IF w.state = "Unconnected" THEN gone
        ELSE Emit(setSocketState(gone, "Unconnected"), "disconnected")

SocketClosing(w) ==
    LET closing == [w EXCEPT !.sock = "closing"]
    IN  IF w.state = "Connected" THEN setSocketState(closing, "Closing") ELSE closing

\* The request goes out, or the connection is given up; r is what the server
\* will answer.
SocketConnected(w, r) ==
    LET connected == [w EXCEPT !.sock = "connected"]
    IN  IF w.state # "Connecting" THEN connected
        ELSE IF createHandShakeRequest(origin = "break", origin).words = 0
        THEN Emit(SocketUnconnected(connected), "error")
        ELSE [connected EXCEPT !.answer = r]

\* A new key makes what was the right accept key a wrong one.
generateKey(headers) == [headers EXCEPT !.key = IF @ = "right" THEN "wrong" ELSE @]

(***************************************************************************)
(* open(): the old socket is left to die, unheard.                         *)
(***************************************************************************)
Released(w) ==
    [w EXCEPT !.sock = "none", !.arrived = 0, !.read = 0, !.closeSent = FALSE,
              !.headers = generateKey(@),
              !.answer = NoAnswer, !.told = {}, !.stale = w.hs = "ReadingHeader"]

openSocket(w, url) ==
    CASE url = "invalid" -> Emit(w, "error")
      [] url \in {"encoded", "ftp"} -> Emit(Released(w), "error")
      [] url = "ws" -> setSocketState([Released(w) EXCEPT !.sock = "connecting"], "Connecting")

\* What has arrived and was not read is thrown away.
Emptied(w) == [w EXCEPT !.arrived = w.read]

\* close(): the first call sends the close frame; a socket that is still
\* connecting closes once it is connected.
closeSocket(w) ==
    IF w.sock = "none" THEN w
    ELSE LET said == IF w.closeSent THEN w
                     ELSE Emit([w EXCEPT !.closeSent = TRUE], "aboutToClose")
             emptied == Emptied(said)
         IN  CASE w.sock = "connected" -> SocketClosing(emptied)
               [] w.sock = "connecting" -> [emptied EXCEPT !.sock = "closing"]
               [] OTHER -> emptied

(***************************************************************************)
(* processHandshake: one call of it reads what there is.                   *)
(***************************************************************************)
\* Handshake failed: the socket stays as it is.
HandshakeFailed(w) == Emit([w EXCEPT !.hs = "AllDone"], "error")

HandshakeSucceeded(w) ==
    Emit(setSocketState([w EXCEPT !.hs = "AllDone"], "Connected"), "connected")

ParseHeaders(w) ==
    IF Accepts(w.parsed.status, w.parsed.http, w.headers)
    THEN HandshakeSucceeded(w)
    ELSE HandshakeFailed(w)

\* Of two headers of one name the later counts; an Upgrade or a Connection that
\* is there says what it should.
Merge(old, new) ==
    [key |-> IF new.key = "none" THEN old.key ELSE new.key,
     upgrade |-> old.upgrade \/ new.upgrade,
     connection |-> old.connection \/ new.connection]

ReadHeaders(w) ==
    LET headers == IF w.read < Fields /\ w.arrived >= Fields
                   THEN Merge(w.headers, w.answer.headers) ELSE w.headers
        taken == [w EXCEPT !.headers = headers, !.read = w.arrived]
    IN  IF w.arrived = End THEN ParseHeaders(taken)
        ELSE IF w.sock # "connected" THEN HandshakeFailed(taken)
        ELSE taken

readLine(w) == [w EXCEPT !.read = @ + 1]

ReadStatus(w) ==
    LET taken == readLine(w)
    IN  IF taken.read # Status \/ ~parseStatusLine(w.answer) THEN HandshakeFailed(taken)
        ELSE ReadHeaders([taken EXCEPT !.hs = "ReadingHeader",
                              !.parsed = [status |-> w.answer.status, http |-> w.answer.http]])

\* Mutant: a socket whose handshake was done once passes over the next one.
processHandshakeOnce(w) ==
    CASE w.hs = "ReadingHeader" -> ReadHeaders(w)
      [] w.hs = "AllDone" -> readLine(w)
      [] OTHER -> ReadStatus([w EXCEPT !.hs = "ReadingStatus"])

\* Mutant: what an earlier answer had in its headers is kept.
processHandshakeKept(w) ==
    IF w.hs = "ReadingHeader" THEN ReadHeaders(w)
    ELSE ReadStatus([w EXCEPT !.hs = "ReadingStatus"])

processHandshake(w) ==
    IF w.hs = "ReadingHeader" THEN ReadHeaders(w)
    ELSE IF w.hs = "ReadingStatus" THEN ReadStatus(w)
    ELSE ReadStatus([w EXCEPT !.headers = NoHeaders, !.hs = "ReadingStatus"])

\* One turn of the loop in processData; what follows the handshake is frames.
processData(w) ==
    IF w.sock = "none" \/ w.read = w.arrived THEN [w EXCEPT !.posted = FALSE]
    ELSE IF w.state = "Connecting" THEN processHandshake(w)
    ELSE Emptied(w)

(***************************************************************************)
(* Steps.                                                                  *)
(***************************************************************************)
ProcessData ==
    /\ ws.posted
    /\ ws' = processData(ws)
    /\ UNCHANGED <<origin, owner, opens>>

Established ==
    /\ ws.sock = "connecting"
    /\ \E r \in Responses : ws' = SocketConnected(ws, r)
    /\ UNCHANGED <<origin, owner, opens>>

ConnectFails ==
    /\ ws.sock = "connecting"
    /\ ws' = SocketUnconnected(Emit(ws, "error"))
    /\ UNCHANGED <<origin, owner, opens>>

Arrive ==
    /\ ws.sock = "connected" /\ ~ws.posted
    /\ ws.answer # NoAnswer
    /\ \E n \in (ws.arrived + 1)..End : ws' = [ws EXCEPT !.arrived = n, !.posted = TRUE]
    /\ UNCHANGED <<origin, owner, opens>>

\* The server's next answer, where the last one failed the handshake: the socket
\* is still there, and listens to it.
ArriveAgain ==
    /\ ws.sock = "connected" /\ ~ws.posted
    /\ ws.state = "Connecting" /\ ws.read = End
    /\ \E r \in Responses, n \in Status..End :
         ws' = [ws EXCEPT !.answer = r, !.arrived = n, !.read = 0, !.posted = TRUE,
                          !.stale = FALSE]
    /\ UNCHANGED <<origin, owner, opens>>

ServerCloses ==
    /\ ws.sock = "connected" /\ ~ws.posted
    /\ ws' = SocketUnconnected(ws)
    /\ UNCHANGED <<origin, owner, opens>>

SocketEnds ==
    /\ ws.sock = "closing" /\ ~ws.posted
    /\ ws' = SocketUnconnected(ws)
    /\ UNCHANGED <<origin, owner, opens>>

\* The user's calls.
open(url) ==
    /\ opens < MaxOpens
    /\ opens' = opens + 1
    /\ ws' = openSocket(ws, url)
    /\ UNCHANGED <<origin, owner>>

close ==
    /\ ws.sock \in {"connecting", "connected", "closing"}
    /\ ws' = closeSocket(ws)
    /\ UNCHANGED <<origin, owner, opens>>

abort ==
    /\ ws.sock \in {"connecting", "connected", "closing"}
    /\ ws' = SocketUnconnected(Emptied(ws))
    /\ UNCHANGED <<origin, owner, opens>>

EventLoop == ProcessData \/ SocketEnds

Tcp == Established \/ ConnectFails

Server == Arrive \/ ArriveAgain \/ ServerCloses

System == EventLoop \/ Tcp \/ Server

UserCalls == \/ \E url \in Urls : open(url)
             \/ close \/ abort
=============================================================================
