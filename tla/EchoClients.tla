----------------------------- MODULE EchoClients -----------------------------
(***************************************************************************)
(* The example clients around a QWebSocket: one that says hello to the     *)
(* echo server and closes when the echo is there, and one over TLS, which  *)
(* simply ends then.  Both open their socket once, in the constructor; the *)
(* TLS below it, whose errors the second one ignores, is part of the TCP   *)
(* connection here.                                                        *)
(***************************************************************************)
EXTENDS QQmlWebSocket

VARIABLES
    hello,         \* "none", "sent" or "received"
    running        \* FALSE once quit() was called

clientVars == <<vars, hello, running>>

Programs == {"echo", "sslecho"}

\* Their urls have a scheme that a QWebSocket speaks, and nothing to encode.
ASSUME ProgramsAssumption == "ws" \in Urls

ClientInit ==
    /\ QmlInit
    /\ owner \in Programs => origin = "" /\ ws = New
    /\ hello = "none"
    /\ running = TRUE

\* The slots of connected() and of disconnected(); the echo client is the only
\* one that has a slot for the latter, closed(), which quits.
Told(signal) == signal \in ws'.told \ ws.told

Slots ==
    /\ hello' = IF Told("connected") THEN "sent" ELSE hello
    /\ running' = ~(owner = "echo" /\ Told("disconnected"))

\* The constructors.
Client ==
    /\ opens = 0
    /\ open("ws")
    /\ UNCHANGED qmlVars
    /\ Slots

\* The echo of the hello; a server that says it twice is not told apart.
EchoArrives ==
    /\ hello = "sent" /\ hello' = "received"
    /\ ws.state = "Connected" /\ ws.sock = "connected"

onTextMessageReceived ==
    /\ EchoArrives
    /\ owner = "echo"
    /\ close
    /\ UNCHANGED <<running, qmlVars>>

onTextMessageReceivedSsl ==
    /\ EchoArrives
    /\ owner = "sslecho"
    /\ running' = FALSE
    /\ UNCHANGED vars

ClientNext ==
    \/ owner \notin Programs /\ Next /\ UNCHANGED <<hello, running>>
    \/ owner \in Programs /\ running /\
           \/ Client
           \/ SystemStep /\ Slots
           \/ onTextMessageReceived
           \/ onTextMessageReceivedSsl

ClientSpec == ClientInit /\ [][ClientNext]_clientVars

\* A program that was started calls its constructor, the event loop runs, and TCP
\* connects or gives up, which TLS need not.  Nothing is assumed of servers.
ClientFairness ==
    /\ WF_clientVars(owner \notin Programs /\ OwnStep /\ UNCHANGED <<hello, running>>)
    /\ WF_clientVars(owner = "echo" /\ running /\ (Client \/ (OwnStep /\ Slots)))
    /\ WF_clientVars(owner = "sslecho" /\ running /\
                        (Client \/ (EventLoop /\ Slots /\ UNCHANGED qmlVars)))

ClientFairSpec == ClientSpec /\ ClientFairness

(***************************************************************************)
(* Properties.                                                             *)
(***************************************************************************)
\* The server could answer, echo or close its connection; the program reads nothing.
ServersTurn == ws.sock = "connected" /\ ~ws.posted /\ hello # "received"

\* Every attempt to connect ends in a signal or waits for the server; and so does
\* the echo client end, however far its attempt came: no connection, an answer
\* that was cut, an echo.  While the server keeps the connection it waits, be
\* it before the answer, after a refusal or where the echo should come.  The
\* client over TLS has no slot for any of these and is only ended by the echo.
ProgramsEnd ==
    /\ AttemptsEnd
    /\ owner = "echo" ~> ~running \/ ServersTurn
=============================================================================
