--------------------------- MODULE QWebSocketPeers ---------------------------
(***************************************************************************)
(* A web socket connection after the opening handshake: the QWebSocket of  *)
(* the server and, at the other end of a TCP connection, either another    *)
(* QWebSocket or a peer of another make that may send any frame ("raw").   *)
(*                                                                         *)
(* Each end lives on one thread: the user's calls, the frames that         *)
(* processData takes from the socket, and the socket's state changes are   *)
(* the steps of an end.  readFrame blocks that thread while a frame is     *)
(* incomplete; inside[e] says so.  TCP is modelled from its use: bytes     *)
(* arrive in order, an end that has closed answers them with a reset that  *)
(* may overtake what it sent, and abort() may cut what was written short.  *)
(***************************************************************************)
EXTENDS QWebSocketDataProcessor

CONSTANTS
    Kinds,       \* which peers the client end may be: subset of {"qt", "raw"}
    Messages,    \* messages that a QWebSocket sends: [op, data]
    Pings,       \* payloads of pings
    Closings,    \* what the users of close() give it: [code, reason]
    RawFrames,   \* frames that a raw peer sends
    MaskKey,     \* what nextMask() of the client's mask generator returns: 0 or 1
    MaxSent,     \* bound: messages sent, by end
    MaxPings,    \* bound: pings sent, by end
    MaxRaw,      \* bound: frames sent by a raw peer
    Aborting,    \* the ends whose users may call abort()
    Farewells    \* messages that users may send when aboutToClose() is emitted, by end

Ends == {"client", "server"}
Other(e) == IF e = "client" THEN "server" ELSE "client"
States == {"Connected", "Closing", "Unconnected"}

ASSUME KindsAssumption == Kinds \subseteq {"qt", "raw"}

\* What a QString encodes to is legal UTF-8, and a QByteArray has at most
\* MAX_MESSAGE_SIZE_IN_BYTES bytes.
ASSUME MessagesAssumption ==
    \A m \in Messages :
        /\ m \in [op : {"text", "binary"}, data : Seq(Nat)]
        /\ Len(m.data) <= MaxMessage
        /\ m.op = "text" => LegalText(m.data, TRUE)

ASSUME FarewellsAssumption == \A e \in Ends : Farewells[e] \subseteq Messages

ASSUME PingsAssumption == Pings \subseteq Seq(Nat)

ASSUME ClosingsAssumption ==
    \A c \in Closings : c \in [code : Nat, reason : Seq(Nat)] /\ LegalText(c.reason, TRUE)

ASSUME MaskKeyAssumption == MaskKey \in {0, 1}

Opcodes == {"text", "binary", "continue", "reserved3"} \cup Control

\* Frames are what a stream of bytes can be divided into: a length fits the form
\* it is written in, and a frame that is read whole has as many bytes as it says.
ASSUME RawFramesAssumption ==
    \A f \in RawFrames :
        /\ f \in [fin : BOOLEAN, rsv : BOOLEAN, op : Opcodes, form : {"7", "16", "64"},
                  n : Nat, masked : BOOLEAN, values : Seq(Nat)]
        /\ f.form = "7" => f.n <= Len7
        /\ f.form = "16" => f.n <= Len16
        /\ WellFormed(f) /\ f.n <= MaxFrame => f.n = Len(f.values)

VARIABLES
    kind,         \* what the client end is
    state,        \* m_socketState, which follows the state of the TCP socket
    reader,       \* the socket's read buffer and the call of readFrame under way
    inside,       \* the thread is in readFrame, waiting for bytes
    processor,    \* m_dataProcessor
    closeSent,    \* m_isClosingHandshakeSent
    closeRcvd,    \* m_isClosingHandshakeReceived
    closeCode,    \* m_closeCode
    net,          \* net[e]: bytes on their way to e
    fin,          \* fin[e]: nothing follows the bytes in net[e]
    sent,               \* history: messages sent before the close frame, those that raw
                        \* frames amount to included
    rcvd,               \* history: messages handed to the user
    pinged, ponged,     \* history: payloads of pings sent and of pongs received
    disconnected,       \* history: how often disconnected() was emitted
    raw                 \* history: frames sent by a raw peer

vars == <<kind, state, reader, inside, processor, closeSent, closeRcvd, closeCode,
          net, fin, sent, rcvd, pinged, ponged, disconnected, raw>>

Init ==
    /\ kind \in Kinds
    /\ state = [e \in Ends |-> "Connected"]
    /\ reader = [e \in Ends |-> NewReader(<<>>)]
    /\ inside = [e \in Ends |-> FALSE]
    /\ processor = [e \in Ends |-> NewProcessor]
    /\ closeSent = [e \in Ends |-> FALSE]
    /\ closeRcvd = [e \in Ends |-> FALSE]
    /\ closeCode = [e \in Ends |-> CloseCodeNormal]
    /\ net = [e \in Ends |-> <<>>]
    /\ fin = [e \in Ends |-> FALSE]
    /\ sent = [e \in Ends |-> <<>>]
    /\ rcvd = [e \in Ends |-> <<>>]
    /\ pinged = [e \in Ends |-> <<>>]
    /\ ponged = [e \in Ends |-> <<>>]
    /\ disconnected = [e \in Ends |-> 0]
    /\ raw = <<>>

QtEnds == IF kind = "qt" THEN Ends ELSE {"server"}

\* The socket's device is open, for close() makes it Closing at once.
Open(e) == state[e] = "Connected"

\* The client masks what it sends, with a key that may turn out to be 0.
Key(e) == IF e = "client" THEN MaskKey ELSE 0

\* The thread runs the user's code, not readFrame.
Free(e) == e \in QtEnds /\ ~inside[e]

\* Bytes written to a socket that is no longer open are lost; what a raw peer
\* reads is its own business.
Written(e, bytes) ==
    IF Open(e) /\ Other(e) \in QtEnds THEN [net EXCEPT ![Other(e)] = @ \o bytes] ELSE net

(***************************************************************************)
(* close(): the first call sends the close frame and emits aboutToClose(),  *)
(* to which a user may react with a last message, the socket being still   *)
(* Connected; every call closes the socket, which drops what it has read   *)
(* and ends once all is written.                                           *)
(***************************************************************************)
doWriteFrames(e, m) == MessageBytes(m.op, m.data, [i \in 1..NumFrames(m.data) |-> Key(e)])

LastWords(e) == {<<>>} \cup {doWriteFrames(e, m) : m \in Farewells[e]}

\* Mutant: the close frame is sent and the socket stays open.
StateAfterCloseKept(e) == state[e]

StateAfterClose(e) == IF state[e] = "Connected" THEN "Closing" ELSE state[e]

CloseSocket(e, code, reason) ==
    /\ closeSent' = [closeSent EXCEPT ![e] = TRUE]
    /\ closeCode' = [closeCode EXCEPT ![e] = code]
    /\ \E last \in LastWords(e) :
         net' = Written(e, FrameBytes("close", <<code, LowByte>> \o reason, Key(e), TRUE) \o last)
    /\ fin' = [fin EXCEPT ![Other(e)] = TRUE]
    /\ state' = [state EXCEPT ![e] = StateAfterClose(e)]
    /\ reader' = [reader EXCEPT ![e] = NewReader(<<>>)]
    /\ inside' = [inside EXCEPT ![e] = FALSE]

(***************************************************************************)
(* The user's calls.                                                       *)
(***************************************************************************)
\* sendTextMessage, sendBinaryMessage
SendMessage(e) ==
    /\ Free(e)
    /\ state[e] = "Connected"
    /\ Len(sent[e]) < MaxSent[e]
    /\ \E m \in Messages :
         /\ net' = Written(e, doWriteFrames(e, m))
         /\ sent' = [sent EXCEPT ![e] = Append(@, m)]
    /\ UNCHANGED <<kind, state, reader, inside, processor, closeSent, closeRcvd, closeCode,
                   fin, rcvd, pinged, ponged, disconnected, raw>>

\* The payload is cut to what fits a control frame.
Ping(e) ==
    /\ Free(e)
    /\ Len(pinged[e]) < MaxPings[e]
    /\ Open(e)
    /\ \E payload \in Pings :
         LET cut == SubSeq(payload, 1, IF Len(payload) <= Len7 THEN Len(payload) ELSE Len7) IN
         /\ net' = Written(e, FrameBytes("ping", cut, Key(e), TRUE))
         /\ pinged' = [pinged EXCEPT ![e] = Append(@, cut)]
    /\ UNCHANGED <<kind, state, reader, inside, processor, closeSent, closeRcvd, closeCode,
                   fin, sent, rcvd, ponged, disconnected, raw>>

Close(e) ==
    /\ Free(e)
    /\ ~closeSent[e]
    /\ \E c \in Closings : CloseSocket(e, c.code, c.reason)
    /\ UNCHANGED <<kind, processor, closeRcvd, sent, rcvd, pinged, ponged, disconnected, raw>>

\* abort() discards the write buffer, of which any part may have gone out.
Abort(e) ==
    /\ e \in Aborting
    /\ Free(e)
    /\ state[e] # "Unconnected"
    /\ \E k \in 0..Len(net[Other(e)]) :
         net' = [net EXCEPT ![Other(e)] = SubSeq(@, 1, k)]
    /\ fin' = [fin EXCEPT ![Other(e)] = TRUE]
    /\ state' = [state EXCEPT ![e] = "Unconnected"]
    /\ disconnected' = [disconnected EXCEPT ![e] = @ + 1]
    /\ reader' = [reader EXCEPT ![e] = NewReader(<<>>)]
    /\ UNCHANGED <<kind, inside, processor, closeSent, closeRcvd, closeCode, sent, rcvd,
                   pinged, ponged, raw>>

(***************************************************************************)
(* processData: frames are read and processed while there are bytes.       *)
(***************************************************************************)
\* The signal of the processor, delivered to the connected slot.
Receive(e, signal) ==
    CASE signal.kind = "none" ->
           UNCHANGED <<state, closeSent, closeCode, net, fin, closeRcvd, rcvd, ponged>>
      [] signal.kind = "message" ->
           /\ rcvd' = [rcvd EXCEPT ![e] = Append(@, [op |-> signal.op, data |-> signal.data])]
           /\ UNCHANGED <<state, closeSent, closeCode, net, fin, closeRcvd, ponged>>
      [] signal.kind = "ping" ->
           /\ net' = Written(e, FrameBytes("pong", signal.data, Key(e), TRUE))
           /\ UNCHANGED <<state, closeSent, closeCode, fin, closeRcvd, rcvd, ponged>>
      [] signal.kind = "pong" ->
           /\ ponged' = [ponged EXCEPT ![e] = Append(@, signal.data)]
           /\ UNCHANGED <<state, closeSent, closeCode, net, fin, closeRcvd, rcvd>>

\* closeReceived and errorEncountered lead to close().
Closes(signal) == signal.kind \in {"close", "error"}

Process(e) ==
    /\ e \in QtEnds
    /\ Open(e)
    /\ IF inside[e] THEN CanRead(reader[e]) ELSE reader[e].in # <<>>
    /\ \E r \in {readFrame(reader[e])} : \E outcome \in {processFrame(processor[e], r)} :
           IF r.st # "done"
           THEN /\ reader' = [reader EXCEPT ![e] = r]
                /\ inside' = [inside EXCEPT ![e] = TRUE]
                /\ UNCHANGED <<state, processor, closeSent, closeRcvd, closeCode, net, fin,
                               rcvd, ponged>>
           ELSE /\ processor' = [processor EXCEPT ![e] = outcome.p]
                /\ IF Closes(outcome.signal)
                   THEN /\ closeRcvd' = [closeRcvd EXCEPT
                                            ![e] = @ \/ outcome.signal.kind = "close"]
                        /\ CloseSocket(e, outcome.signal.code, outcome.signal.data)
                        /\ UNCHANGED <<rcvd, ponged>>
                   ELSE /\ reader' = [reader EXCEPT ![e] = NewReader(r.in)]
                        /\ inside' = [inside EXCEPT ![e] = ~outcome.done]
                        /\ Receive(e, outcome.signal)
    /\ UNCHANGED <<kind, sent, pinged, disconnected, raw>>

\* Mutant: the wait for the rest of a frame has no time limit.
ReadTimeoutNever(e) == FALSE /\ UNCHANGED vars

\* waitForReadyRead gives up after five seconds without a byte.
ReadTimeout(e) ==
    /\ inside[e]
    /\ Open(e)
    /\ ~CanRead(reader[e])
    /\ processor' = [processor EXCEPT ![e] = clear]
    /\ CloseSocket(e, CloseCodeGoingAway, <<>>)
    /\ UNCHANGED <<kind, closeRcvd, sent, rcvd, pinged, ponged, disconnected, raw>>

(***************************************************************************)
(* The TCP socket: bytes arrive, the connection ends.                      *)
(***************************************************************************)
Deliver(e) ==
    /\ net[e] # <<>>
    /\ IF e \in QtEnds /\ Open(e)
       THEN /\ reader' = [reader EXCEPT ![e].in = Append(@, Head(net[e]))]
            /\ net' = [net EXCEPT ![e] = Tail(@)]
       ELSE /\ \/ net' = [net EXCEPT ![e] = <<>>]
               \/ net' = [d \in Ends |-> <<>>]     \* the reset overtakes
            /\ UNCHANGED reader
    /\ UNCHANGED <<kind, state, inside, processor, closeSent, closeRcvd, closeCode, fin,
                   sent, rcvd, pinged, ponged, disconnected, raw>>

\* All bytes are written: the socket ends, processStateChanged passes it on.
Closed(e) ==
    /\ state[e] = "Closing"
    /\ state' = [state EXCEPT ![e] = "Unconnected"]
    /\ disconnected' = [disconnected EXCEPT ![e] = @ + 1]
    /\ UNCHANGED <<kind, reader, inside, processor, closeSent, closeRcvd, closeCode, net, fin,
                   sent, rcvd, pinged, ponged, raw>>

\* The peer has closed and all it sent was read.  A call of readFrame that waits
\* returns an invalid frame; the close() that follows finds the socket gone.
RemoteClosed(e) ==
    /\ e \in QtEnds
    /\ Open(e)
    /\ net[e] = <<>> /\ fin[e]
    /\ IF inside[e] THEN ~CanRead(reader[e]) ELSE reader[e].in = <<>>
    /\ state' = [state EXCEPT ![e] = "Unconnected"]
    /\ disconnected' = [disconnected EXCEPT ![e] = @ + 1]
    /\ fin' = [fin EXCEPT ![Other(e)] = TRUE]
    /\ IF inside[e]
       THEN /\ processor' = [processor EXCEPT ![e] = clear]
            /\ closeSent' = [closeSent EXCEPT ![e] = TRUE]
            /\ closeCode' = [closeCode EXCEPT ![e] = CloseCodeGoingAway]
            /\ inside' = [inside EXCEPT ![e] = FALSE]
            /\ reader' = [reader EXCEPT ![e] = NewReader(<<>>)]
       ELSE UNCHANGED <<processor, closeSent, closeCode, inside, reader>>
    /\ UNCHANGED <<kind, closeRcvd, net, sent, rcvd, pinged, ponged, raw>>

(***************************************************************************)
(* A raw peer.                                                             *)
(***************************************************************************)
RawBytes(f) ==
    <<[fin |-> f.fin, rsv |-> f.rsv, op |-> f.op],
      [masked |-> f.masked,
       len |-> CASE f.form = "7" -> f.n [] f.form = "16" -> Len7 + 1 [] OTHER -> Len7 + 2]>>
    \o (IF f.form = "7" THEN <<>> ELSE <<[n |-> f.n]>>)
    \o (IF f.masked THEN <<[key |-> 1]>> ELSE <<>>)
    \o Mask(Plain(f.values), IF f.masked THEN 1 ELSE 0)

RawSend ==
    /\ kind = "raw"
    /\ state["client"] = "Connected"
    /\ Len(raw) < MaxRaw
    /\ \E f \in RawFrames :
         /\ net' = [net EXCEPT !["server"] = @ \o RawBytes(f)]
         /\ raw' = Append(raw, f)
         /\ sent' = [sent EXCEPT !["client"] = MessagesOf(raw')]
    /\ UNCHANGED <<kind, state, reader, inside, processor, closeSent, closeRcvd, closeCode, fin,
                   rcvd, pinged, ponged, disconnected>>

RawClose ==
    /\ kind = "raw"
    /\ state["client"] = "Connected"
    /\ state' = [state EXCEPT !["client"] = "Unconnected"]
    /\ fin' = [fin EXCEPT !["server"] = TRUE]
    /\ UNCHANGED <<kind, reader, inside, processor, closeSent, closeRcvd, closeCode, net,
                   sent, rcvd, pinged, ponged, disconnected, raw>>

Next ==
    \/ \E e \in Ends :
         \/ SendMessage(e) \/ Ping(e) \/ Close(e) \/ Abort(e)
         \/ Process(e) \/ ReadTimeout(e)
         \/ Deliver(e) \/ Closed(e) \/ RemoteClosed(e)
    \/ RawSend \/ RawClose

Spec == Init /\ [][Next]_vars

\* The event loop serves the socket, TCP delivers, the wait of readFrame is timed.
SystemStep ==
    \E e \in Ends : Process(e) \/ ReadTimeout(e) \/ Deliver(e) \/ Closed(e) \/ RemoteClosed(e)

Fairness == WF_vars(SystemStep)

FairSpec == Spec /\ Fairness

(***************************************************************************)
(* Properties.                                                             *)
(***************************************************************************)
\* A user is told once, and only when the TCP connection is over, that the web
\* socket is disconnected, whoever closed and however often.
DisconnectedOnce ==
    \A e \in QtEnds : disconnected[e] = IF state[e] = "Unconnected" THEN 1 ELSE 0

\* A thread waits in readFrame only while its socket is connected, and an end
\* is Connected until its close() or the end of its TCP connection; and
\* disconnected() is the last that it says.
PeersTypeOK ==
    /\ kind \in {"qt", "raw"}
    /\ state \in [Ends -> States]
    /\ \A e \in QtEnds :
         /\ inside[e] => Open(e)
         /\ closeRcvd[e] => closeSent[e]
         /\ closeSent[e] => ~Open(e)
         /\ ~Open(e) => fin[Other(e)]
    /\ DisconnectedOnce

(***************************************************************************)
(* Whatever way a message is cut into frames and the frames into segments, *)
(* with control frames between its fragments, users are given the messages *)
(* of the peer whole, once, in order, of the right kind, and nothing of an *)
(* illegal frame or of what follows it: the pair of ends implements the    *)
(* channel.                                                                *)
(***************************************************************************)
Channel == INSTANCE QWebSocketChannel
           WITH sent <- sent, rcvd <- rcvd, open <- [e \in Ends |-> Open(e)]

ChannelSpec == Channel!Spec

\* The close code an end reports after the closing handshake is the one the
\* peer gave to close(), or 1002 when that must not appear on the wire.
CloseCodeFromPeer ==
    \A e \in Ends :
        kind = "qt" /\ closeRcvd[e] =>
            closeCode[e] = IF isCloseCodeValid(closeCode[Other(e)])
                           THEN closeCode[Other(e)] ELSE CloseCodeProtocolError

\* An end that has received the close frame has received every message that the
\* peer sent before it; and none that the peer's user sent when aboutToClose() was
\* emitted, although that signal is meant for data that is still to be written:
\* what is sent then goes out behind the close frame and is lost.
AllReceivedAtClose ==
    \A e \in Ends : kind = "qt" /\ closeRcvd[e] => rcvd[e] = sent[Other(e)]

(***************************************************************************)
(* A connection is failed with the code of what was wrong: a frame, or the *)
(* payload of a close frame, that breaks the rule that the code stands for,*)
(* unless it is the peer that closes with that code.                       *)
(***************************************************************************)
\* A close frame fails the connection by its payload, or gives the code itself.
ClosesWith(values, code) ==
    \/ /\ code = CloseCodeProtocolError
       /\ Len(values) = 1 \/ (Len(values) > 1 /\ ~isCloseCodeValid(values[1]))
    \/ code = CloseCodeWrongDatatype /\ ~LegalText(SubSeq(values, 3, Len(values)), TRUE)
    \/ Len(values) > 1 /\ code = values[1]

Wrong(code) ==
    \E i \in DOMAIN raw :
        \/ code = CloseCodeProtocolError /\ BreaksProtocol(raw, i)
        \/ code = CloseCodeTooMuchData /\ TooLarge(raw, i)
        \/ code = CloseCodeWrongDatatype /\ BadText(raw, i)
        \/ raw[i].op = "close" /\ ClosesWith(raw[i].values, code)

FailureCodes == {CloseCodeProtocolError, CloseCodeWrongDatatype, CloseCodeTooMuchData}

FailedWithReason ==
    kind = "raw" /\ closeCode["server"] \in FailureCodes => Wrong(closeCode["server"])

(***************************************************************************)
(* The connection always comes to rest again: no thread is left waiting in *)
(* readFrame for a frame that never ends; when one end is closed the other *)
(* is disconnected as well; a peer that broke the protocol is gone; and    *)
(* while both ends are open every message has been received and every ping *)
(* answered.                                                               *)
(***************************************************************************)
AtRest ==
    /\ \A e \in QtEnds : ~inside[e]
    /\ kind = "raw" /\ Open("server") => LegalFrames(raw) = DOMAIN raw
    /\ kind = "qt" =>
         \/ \A e \in Ends : state[e] = "Unconnected"
         \/ \A e \in Ends : Open(e) /\ sent[e] = rcvd[Other(e)] /\ pinged[e] = ponged[e]

ConnectionSettles == []<>AtRest
=============================================================================
