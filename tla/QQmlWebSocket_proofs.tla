------------------------- MODULE QQmlWebSocket_proofs -------------------------
(***************************************************************************)
(* Proofs of the safety properties of a QWebSocket that is opened, closed  *)
(* and opened again, for any answers of any servers and any number of      *)
(* calls: by a C++ user, by the example clients and by the QML element.    *)
(***************************************************************************)
EXTENDS EchoClients, TLAPS

\* The records that the operators of QWebSocketClient work on.
Heads == [key : {"none", "right", "wrong"}, upgrade : BOOLEAN, connection : BOOLEAN]

Tellable == {"connected", "disconnected", "error"}

Sockets ==
    [state : {"Unconnected", "Connecting", "Connected", "Closing"},
     sock : {"none", "connecting", "connected", "closing", "unconnected"},
     hs : {"NothingDone", "ReadingStatus", "ReadingHeader", "AllDone"},
     parsed : [status : Nat \cup {NoNumber}, http : Nat \cup {NoNumber}],
     headers : Heads,
     arrived : 0..End, read : 0..End, posted : BOOLEAN, closeSent : BOOLEAN,
     status : {"Closed", "Connecting", "Open", "Closing", "Error"},
     answer : Responses \cup {NoAnswer}, told : SUBSET Tellable, stale : BOOLEAN]

(***************************************************************************)
(* What is read, and what was said.                                        *)
(***************************************************************************)
\* Only a connected socket has something to read, and then processData will.
Readable(w) ==
    /\ w.read <= w.arrived
    /\ w.arrived # w.read => w.posted /\ w.sock = "connected"

\* Of a connection that is being made nothing is known yet.
Fresh(w) ==
    w.sock = "connecting" => w.read = 0 /\ w.arrived = 0 /\ w.answer = NoAnswer

\* While headers are read, the right accept key is the one that this answer has.
OwnKey(w) ==
    w.hs = "ReadingHeader" /\ w.headers.key = "right" => w.answer.headers.key = "right"

\* And so is all the rest that was read, if this answer found nothing there.
OwnRest(w) ==
    w.hs = "ReadingHeader" /\ ~w.stale =>
        /\ w.parsed.status = w.answer.status /\ w.parsed.http = w.answer.http
        /\ w.headers.upgrade => w.answer.headers.upgrade
        /\ w.headers.connection => w.answer.headers.connection

\* A handshake that was cut within its headers is known as stale when the next
\* answer is read, and m_handshakeState never rests at the status line, nor
\* within the headers of an answer that is read.
Cut(w) ==
    /\ w.hs # "ReadingStatus"
    /\ w.read = End => w.hs # "ReadingHeader"
    /\ w.read = 0 /\ w.hs = "ReadingHeader" => w.stale

\* A right answer is read as what it is.
RightRead(w) ==
    Right(w.answer) /\ ~w.stale =>
        /\ w.read \in {Status, Fields} =>
               w.hs = "ReadingHeader" /\ w.parsed.status = 101 /\ w.parsed.http = 11
        /\ w.read = Fields =>
               w.headers.key = "right" /\ w.headers.upgrade /\ w.headers.connection
        /\ w.read = End => "connected" \in w.told

Sound(w) ==
    /\ w \in Sockets
    /\ Readable(w)
    /\ Fresh(w)
    /\ OwnKey(w)
    /\ OwnRest(w)
    /\ Cut(w)
    /\ RightRead(w)

(***************************************************************************)
(* The QML element: what it holds open, and why.                           *)
(***************************************************************************)
OpenIsOpen(w) == w.status = "Open" => w.state = "Connected" /\ w.sock = "connected"

HeldByActive ==
    ws.sock \in {"connecting", "connected"} => m_isActive /\ m_componentCompleted

\* The inductive invariant.
QmlInv ==
    /\ Sound(ws)
    /\ owner = "qml" =>
           /\ OpenIsOpen(ws)
           /\ HeldByActive
           /\ m_url \in {"ws", "invalid", "encoded", "ftp", Idle}

-----------------------------------------------------------------------------
(* Signals, and the operators that read nothing: what they leave alone.    *)

Reading(v, w) ==
    /\ v.hs = w.hs /\ v.parsed = w.parsed /\ v.headers = w.headers
    /\ v.read = w.read /\ v.posted = w.posted
    /\ v.answer = w.answer /\ v.stale = w.stale

\* A step of the socket that is not heard from the server.
Quiet(v, w) ==
    /\ v \in Sockets
    /\ Reading(v, w)
    /\ w.told \subseteq v.told
    /\ v.state = "Connected" => w.state = "Connected"
    /\ v.arrived \in {w.arrived, w.read}

LEMMA EmitIs ==
    ASSUME NEW w \in Sockets, NEW signal
    PROVE  /\ Emit(w, signal) \in Sockets
           /\ Reading(Emit(w, signal), w)
           /\ Emit(w, signal).state = w.state
           /\ Emit(w, signal).sock = w.sock
           /\ Emit(w, signal).arrived = w.arrived
           /\ Emit(w, signal).closeSent = w.closeSent
           /\ Emit(w, signal).told = w.told \cup ({signal} \cap Tellable)
           /\ Emit(w, signal).status = IF owner = "qml" THEN StatusAfter(w.status, signal)
                                       ELSE w.status
<1>1. StatusAfter(w.status, signal) \in {"Closed", "Connecting", "Open", "Closing", "Error"}
  BY DEF StatusAfter, Sockets
<1> QED
  BY <1>1 DEF Emit, Sockets, Reading, Tellable

LEMMA SetStateIs ==
    ASSUME NEW w \in Sockets, NEW s \in {"Unconnected", "Connecting", "Connected", "Closing"},
           NEW v, v = setSocketState(w, s)
    PROVE  /\ v \in Sockets
           /\ Reading(v, w)
           /\ v.state = s
           /\ v.sock = w.sock
           /\ v.arrived = w.arrived
           /\ v.told = w.told
           /\ v.closeSent = w.closeSent
           /\ w.state = s => v = w
           /\ owner = "qml" => v.status = IF w.state = s THEN w.status
                                          ELSE StatusAfter(w.status, s)
<1> DEFINE u == [w EXCEPT !.state = s]
<1>1. CASE w.state = s
  <2>1. v = w
    BY <1>1 DEF setSocketState
  <2> QED
    BY <1>1, <2>1 DEF Reading
<1>2. CASE w.state # s
  <2>1. /\ u \in Sockets
        /\ Reading(u, w)
        /\ u.state = s /\ u.sock = w.sock /\ u.arrived = w.arrived /\ u.told = w.told
        /\ u.status = w.status /\ u.closeSent = w.closeSent
    BY DEF Sockets, Reading
  <2>2. v = Emit(u, s)
    BY <1>2 DEF setSocketState
  <2>3. {s} \cap Tellable = {}
    BY DEF Tellable
  <2> HIDE DEF u
  <2>4. /\ v \in Sockets
        /\ Reading(v, u)
        /\ v.state = u.state /\ v.sock = u.sock /\ v.arrived = u.arrived
        /\ v.closeSent = u.closeSent
        /\ v.told = u.told \cup ({s} \cap Tellable)
        /\ v.status = IF owner = "qml" THEN StatusAfter(u.status, s) ELSE u.status
    BY <2>1, <2>2, EmitIs
  <2>5. v.told = w.told
    BY <2>1, <2>3, <2>4
  <2> QED
    BY <1>2, <2>1, <2>4, <2>5 DEF Reading
<1> QED
  BY <1>1, <1>2

LEMMA UnconnectedIs ==
    ASSUME NEW w \in Sockets, NEW v, v = SocketUnconnected(w)
    PROVE  /\ v \in Sockets
           /\ Reading(v, w)
           /\ v.state = "Unconnected"
           /\ v.sock = "unconnected"
           /\ v.arrived = w.arrived
           /\ w.told \subseteq v.told
           /\ owner = "qml" => v.status = IF w.state = "Unconnected" THEN w.status
                                          ELSE "Closed"
<1> DEFINE g == [w EXCEPT !.sock = "unconnected"]
           u == setSocketState(g, "Unconnected")
<1>1. /\ g \in Sockets
      /\ Reading(g, w)
      /\ g.state = w.state /\ g.sock = "unconnected" /\ g.arrived = w.arrived
      /\ g.told = w.told /\ g.status = w.status
  BY DEF Sockets, Reading
<1>2. v = IF w.state = "Unconnected" THEN g ELSE Emit(u, "disconnected")
  BY DEF SocketUnconnected
<1> HIDE DEF g
<1>3. /\ u \in Sockets
      /\ Reading(u, g)
      /\ u.state = "Unconnected" /\ u.sock = g.sock /\ u.arrived = g.arrived
      /\ u.told = g.told
      /\ owner = "qml" /\ g.state # "Unconnected" => u.status = StatusAfter(g.status, "Unconnected")
  BY <1>1, SetStateIs
<1> HIDE DEF u
<1>4. StatusAfter(w.status, "Unconnected") = "Closed" /\ StatusAfter("Closed", "disconnected") = "Closed"
  BY DEF StatusAfter
<1>5. CASE w.state = "Unconnected"
  BY <1>1, <1>2, <1>5 DEF Reading
<1>6. CASE w.state # "Unconnected"
  <2>1. v = Emit(u, "disconnected")
    BY <1>2, <1>6
  <2>2. /\ v \in Sockets
        /\ Reading(v, u)
        /\ v.state = u.state /\ v.sock = u.sock /\ v.arrived = u.arrived
        /\ u.told \subseteq v.told
        /\ owner = "qml" => v.status = StatusAfter(u.status, "disconnected")
    BY <2>1, <1>3, EmitIs
  <2>3. owner = "qml" => v.status = "Closed"
    BY <1>1, <1>3, <1>4, <1>6, <2>2
  <2> QED
    BY <1>1, <1>3, <1>6, <2>2, <2>3 DEF Reading
<1> QED
  BY <1>5, <1>6

LEMMA ClosingIs ==
    ASSUME NEW w \in Sockets, NEW v, v = SocketClosing(w)
    PROVE  /\ v \in Sockets
           /\ Reading(v, w)
           /\ v.state = IF w.state = "Connected" THEN "Closing" ELSE w.state
           /\ v.sock = "closing"
           /\ v.arrived = w.arrived
           /\ v.told = w.told
           /\ owner = "qml" => v.status = IF w.state = "Connected" THEN "Closing"
                                          ELSE w.status
<1> DEFINE g == [w EXCEPT !.sock = "closing"]
<1>1. /\ g \in Sockets
      /\ Reading(g, w)
      /\ g.state = w.state /\ g.sock = "closing" /\ g.arrived = w.arrived
      /\ g.told = w.told /\ g.status = w.status
  BY DEF Sockets, Reading
<1>2. v = IF w.state = "Connected" THEN setSocketState(g, "Closing") ELSE g
  BY DEF SocketClosing
<1>3. StatusAfter(w.status, "Closing") = "Closing"
  BY DEF StatusAfter
<1> HIDE DEF g
<1>4. CASE w.state = "Connected"
  <2>1. v = setSocketState(g, "Closing")
    BY <1>2, <1>4
  <2>2. /\ v \in Sockets
        /\ Reading(v, g)
        /\ v.state = "Closing" /\ v.sock = g.sock /\ v.arrived = g.arrived /\ v.told = g.told
        /\ owner = "qml" /\ g.state # "Closing" => v.status = StatusAfter(g.status, "Closing")
    BY <2>1, <1>1, SetStateIs
  <2> QED
    BY <1>1, <1>3, <1>4, <2>2 DEF Reading
<1>5. CASE w.state # "Connected"
  BY <1>1, <1>2, <1>5
<1> QED
  BY <1>4, <1>5

\* What is not heard from the server keeps the invariant, unless it loses sight
\* of bytes that have arrived.
LEMMA QuietIsSound ==
    ASSUME NEW w, Sound(w), NEW v, Quiet(v, w),
           v.arrived # v.read => v.sock = "connected",
           v.sock = "connecting" => w.sock = "connecting"
    PROVE  Sound(v)
<1>1. v.read <= v.arrived /\ w.read \in Nat
  BY DEF Sound, Readable, Quiet, Reading, Sockets, End
<1>2. Readable(v)
  BY <1>1 DEF Sound, Readable, Quiet, Reading
<1>3. Fresh(v) /\ OwnKey(v) /\ OwnRest(v) /\ Cut(v)
  BY DEF Sound, Fresh, OwnKey, OwnRest, Cut, Quiet, Reading
<1>4. RightRead(v)
  BY DEF Sound, RightRead, Quiet, Reading
<1> QED
  BY <1>2, <1>3, <1>4 DEF Sound, Quiet

LEMMA EmptiedIs ==
    ASSUME NEW w \in Sockets, NEW v, v = Emptied(w)
    PROVE  /\ v \in Sockets
           /\ Reading(v, w)
           /\ v.state = w.state /\ v.sock = w.sock /\ v.status = w.status
           /\ v.told = w.told
           /\ v.arrived = w.read
  BY DEF Emptied, Sockets, Reading

LEMMA ReleasedIs ==
    ASSUME NEW w \in Sockets, NEW v, v = Released(w)
    PROVE  /\ v \in Sockets
           /\ v.state = w.state /\ v.sock = "none" /\ v.status = w.status
           /\ v.hs = w.hs /\ v.parsed = w.parsed /\ v.posted = w.posted
           /\ v.arrived = 0 /\ v.read = 0
           /\ v.headers.key # "right"
           /\ v.answer = NoAnswer
           /\ w.hs = "ReadingHeader" => v.stale
<1>1. generateKey(w.headers) \in Heads /\ generateKey(w.headers).key # "right"
  BY DEF generateKey, Sockets, Heads
<1>2. 0 \in 0..End /\ NoAnswer \in Responses \cup {NoAnswer}
  BY DEF End
<1> QED
  BY <1>1, <1>2 DEF Released, Sockets

LEMMA ReleasedIsSound ==
    ASSUME NEW w, Sound(w), NEW v, v = Released(w)
    PROVE  Sound(v)
<1>1. w \in Sockets
  BY DEF Sound
<1>2. ~Right(NoAnswer)
  BY DEF Right, NoAnswer, NoNumber
<1>3. /\ v \in Sockets /\ v.sock = "none" /\ v.hs = w.hs
      /\ v.arrived = 0 /\ v.read = 0 /\ v.headers.key # "right" /\ v.answer = NoAnswer
      /\ w.hs = "ReadingHeader" => v.stale
  BY <1>1, ReleasedIs
<1> QED
  BY <1>2, <1>3 DEF Sound, Readable, Fresh, OwnKey, OwnRest, Cut, RightRead, End

\* close(): nothing is read any more, and the socket is not held.
LEMMA CloseIs ==
    ASSUME NEW w, Sound(w), NEW v, v = closeSocket(w)
    PROVE  /\ Sound(v)
           /\ Quiet(v, w)
           /\ v.sock \notin {"connecting", "connected"}
           /\ owner = "qml" /\ OpenIsOpen(w) => v.status # "Open"
<1> DEFINE c == [w EXCEPT !.closeSent = TRUE]
           s == IF w.closeSent THEN w ELSE Emit(c, "aboutToClose")
           e == Emptied(s)
           n == [e EXCEPT !.sock = "closing"]
<1>1. w \in Sockets
  BY DEF Sound
<1>2. CASE w.sock = "none"
  <2>1. v = w
    BY <1>2 DEF closeSocket
  <2> QED
    BY <1>1, <1>2, <2>1 DEF OpenIsOpen, Quiet, Reading
<1>3. CASE w.sock # "none"
  <2>1. /\ c \in Sockets
        /\ Reading(c, w)
        /\ c.state = w.state /\ c.sock = w.sock /\ c.arrived = w.arrived
        /\ c.told = w.told /\ c.status = w.status
    BY <1>1 DEF Sockets, Reading
  <2> HIDE DEF c
  <2>2. StatusAfter(w.status, "aboutToClose") = w.status
    BY DEF StatusAfter
  <2>3. /\ s \in Sockets
        /\ Reading(s, w)
        /\ s.state = w.state /\ s.sock = w.sock /\ s.arrived = w.arrived
        /\ w.told \subseteq s.told /\ s.status = w.status
    <3>1. CASE w.closeSent
      BY <1>1, <3>1 DEF Reading
    <3>2. CASE ~w.closeSent
      <4>1. s = Emit(c, "aboutToClose")
        BY <3>2
      <4> HIDE DEF s
      <4> QED
        BY <2>1, <2>2, <4>1, EmitIs DEF Reading
    <3> QED
      BY <3>1, <3>2
  <2>4. v = CASE w.sock = "connected" -> SocketClosing(e)
              [] w.sock = "connecting" -> n
              [] OTHER -> e
    BY <1>3 DEF closeSocket, c
  <2> HIDE DEF s
  <2>5. /\ e \in Sockets
        /\ Reading(e, w)
        /\ e.state = w.state /\ e.sock = w.sock /\ e.arrived = w.read
        /\ w.told \subseteq e.told /\ e.status = w.status
    BY <2>3, EmptiedIs DEF Reading
  <2> HIDE DEF e
  <2>6. CASE w.sock = "connected"
    <3>1. v = SocketClosing(e)
      BY <2>4, <2>6
    <3>2. /\ v \in Sockets
          /\ Reading(v, e)
          /\ v.state = IF e.state = "Connected" THEN "Closing" ELSE e.state
          /\ v.sock = "closing" /\ v.arrived = e.arrived /\ v.told = e.told
          /\ owner = "qml" => v.status = IF e.state = "Connected" THEN "Closing" ELSE e.status
      BY <2>5, <3>1, ClosingIs
    <3>3. Quiet(v, w) /\ v.arrived = v.read
      BY <2>5, <3>2 DEF Quiet, Reading
    <3>4. Sound(v)
      BY <3>2, <3>3, QuietIsSound
    <3> QED
      BY <2>5, <3>2, <3>3, <3>4 DEF OpenIsOpen
  <2>7. CASE w.sock = "connecting"
    <3>1. v = n
      BY <2>4, <2>7
    <3>2. /\ v \in Sockets
          /\ Reading(v, e)
          /\ v.state = e.state /\ v.sock = "closing" /\ v.arrived = e.arrived
          /\ v.told = e.told /\ v.status = e.status
      BY <2>5, <3>1 DEF Sockets, Reading
    <3>3. Quiet(v, w) /\ v.arrived = v.read
      BY <2>5, <3>2 DEF Quiet, Reading
    <3>4. Sound(v)
      BY <3>2, <3>3, QuietIsSound
    <3> QED
      BY <2>5, <2>7, <3>2, <3>3, <3>4 DEF OpenIsOpen
  <2>8. CASE w.sock \notin {"connected", "connecting"}
    <3>1. v = e
      BY <2>4, <2>8
    <3>2. Quiet(v, w) /\ v.arrived = v.read
      BY <2>5, <3>1 DEF Quiet, Reading
    <3>3. Sound(v)
      BY <2>5, <2>8, <3>1, <3>2, QuietIsSound
    <3> QED
      BY <2>5, <2>8, <3>1, <3>2, <3>3 DEF OpenIsOpen
  <2> QED
    BY <2>6, <2>7, <2>8
<1> QED
  BY <1>2, <1>3

\* open(): nothing of the connections before it makes the new one.
LEMMA OpenIs ==
    ASSUME NEW w, Sound(w), NEW url \in {"ws", "invalid", "encoded", "ftp"},
           NEW v, v = openSocket(w, url)
    PROVE  /\ Sound(v)
           /\ v.state = "Connected" => w.state = "Connected"
           /\ owner = "qml" /\ w.status # "Open" => v.status # "Open"
<1> DEFINE r == Released(w)
           c == [r EXCEPT !.sock = "connecting"]
<1>1. w \in Sockets
  BY DEF Sound
<1>2. StatusAfter(w.status, "error") = "Error" /\ StatusAfter(w.status, "Connecting") = "Connecting"
  BY DEF StatusAfter
<1>3. /\ Sound(r) /\ r \in Sockets
      /\ r.state = w.state /\ r.sock = "none" /\ r.status = w.status
      /\ r.arrived = 0 /\ r.read = 0 /\ r.answer = NoAnswer
  BY <1>1, ReleasedIs, ReleasedIsSound
<1> HIDE DEF r
<1>4. CASE url = "invalid"
  <2>1. v = Emit(w, "error")
    BY <1>4 DEF openSocket
  <2>2. /\ v \in Sockets /\ Reading(v, w) /\ v.state = w.state /\ v.sock = w.sock
        /\ v.arrived = w.arrived /\ w.told \subseteq v.told
        /\ owner = "qml" => v.status = StatusAfter(w.status, "error")
    BY <1>1, <2>1, EmitIs
  <2>3. Quiet(v, w) /\ (v.arrived # v.read => v.sock = "connected")
    BY <2>2 DEF Quiet, Sound, Readable, Reading
  <2>4. Sound(v)
    BY <2>2, <2>3, QuietIsSound
  <2> QED
    BY <1>2, <2>2, <2>4
<1>5. CASE url \in {"encoded", "ftp"}
  <2>1. v = Emit(r, "error")
    BY <1>5 DEF openSocket, r
  <2>2. /\ v \in Sockets /\ Reading(v, r) /\ v.state = r.state /\ v.sock = r.sock
        /\ v.arrived = r.arrived /\ r.told \subseteq v.told
        /\ owner = "qml" => v.status = StatusAfter(r.status, "error")
    BY <1>3, <2>1, EmitIs
  <2>3. Quiet(v, r) /\ v.arrived = v.read
    BY <1>3, <2>2 DEF Quiet, Reading
  <2>4. Sound(v)
    BY <1>3, <2>2, <2>3, QuietIsSound
  <2> QED
    BY <1>2, <1>3, <2>2, <2>4
<1>6. CASE url = "ws"
  <2>1. v = setSocketState(c, "Connecting")
    BY <1>6 DEF openSocket, r
  <2>2. /\ c \in Sockets /\ Reading(c, r) /\ c.state = r.state /\ c.sock = "connecting"
        /\ c.arrived = 0 /\ c.told = r.told /\ c.status = r.status
    BY <1>3 DEF Sockets, Reading
  <2> HIDE DEF c
  <2>3. /\ v \in Sockets /\ Reading(v, c) /\ v.state = "Connecting" /\ v.sock = c.sock
        /\ v.arrived = c.arrived /\ v.told = c.told
        /\ owner = "qml" => v.status = IF c.state = "Connecting" THEN c.status
                                       ELSE StatusAfter(c.status, "Connecting")
    BY <2>1, <2>2, SetStateIs
  <2>4. /\ v.sock = "connecting" /\ v.arrived = 0 /\ v.read = 0 /\ v.answer = NoAnswer
        /\ v.hs = r.hs /\ v.headers = r.headers /\ v.stale = r.stale
    BY <1>3, <2>2, <2>3 DEF Reading
  <2>5. ~Right(NoAnswer)
    BY DEF Right, NoAnswer, NoNumber
  <2>6. Sound(v)
    BY <1>3, <2>3, <2>4, <2>5 DEF Sound, Readable, Fresh, OwnKey, OwnRest, Cut, RightRead
  <2> QED
    BY <1>2, <1>3, <2>2, <2>3, <2>6
<1> QED
  BY <1>4, <1>5, <1>6

-----------------------------------------------------------------------------
(* processHandshake, from the status line on.                              *)

\* What the reading of the handshake may rely on, and what it leaves.
BeingRead(w) ==
    /\ w \in Sockets
    /\ w.state = "Connecting" /\ w.sock = "connected" /\ w.posted
    /\ w.read <= w.arrived

OwnAnswer(v) ==
    /\ v.read = End
    /\ v.answer.headers.key = "right"
    /\ v.stale \/ Upgrades(v.answer)

Judged(v, w) ==
    /\ Sound(v)
    /\ v.sock = "connected"
    /\ v.state = "Connected" => OwnAnswer(v)
    /\ owner = "qml" /\ w.status # "Open" => OpenIsOpen(v)

\* What the verdict on an answer leaves alone.
Carried(v, w) ==
    /\ v.parsed = w.parsed /\ v.headers = w.headers
    /\ v.read = w.read /\ v.arrived = w.arrived /\ v.posted = w.posted
    /\ v.answer = w.answer /\ v.stale = w.stale

LEMMA FailedIs ==
    ASSUME NEW w \in Sockets, NEW v, v = HandshakeFailed(w)
    PROVE  /\ v \in Sockets
           /\ v.hs = "AllDone" /\ v.state = w.state /\ v.sock = w.sock
           /\ Carried(v, w)
           /\ w.told \subseteq v.told
           /\ owner = "qml" => v.status = "Error"
<1> DEFINE d == [w EXCEPT !.hs = "AllDone"]
<1>1. /\ d \in Sockets
      /\ d.hs = "AllDone" /\ d.state = w.state /\ d.sock = w.sock
      /\ Carried(d, w) /\ d.told = w.told
  BY DEF Sockets, Carried
<1>2. v = Emit(d, "error")
  BY DEF HandshakeFailed
<1> HIDE DEF d
<1>3. StatusAfter(d.status, "error") = "Error"
  BY DEF StatusAfter
<1> QED
  BY <1>1, <1>2, <1>3, EmitIs DEF Reading, Carried

LEMMA SucceededIs ==
    ASSUME NEW w \in Sockets, w.state # "Connected", NEW v, v = HandshakeSucceeded(w)
    PROVE  /\ v \in Sockets
           /\ v.hs = "AllDone" /\ v.state = "Connected" /\ v.sock = w.sock
           /\ Carried(v, w)
           /\ "connected" \in v.told
<1> DEFINE d == [w EXCEPT !.hs = "AllDone"]
           u == setSocketState(d, "Connected")
<1>1. /\ d \in Sockets
      /\ d.hs = "AllDone" /\ d.state = w.state /\ d.sock = w.sock
      /\ Carried(d, w)
  BY DEF Sockets, Carried
<1>2. v = Emit(u, "connected")
  BY DEF HandshakeSucceeded
<1> HIDE DEF d
<1>3. /\ u \in Sockets /\ Reading(u, d) /\ u.state = "Connected"
      /\ u.sock = d.sock /\ u.arrived = d.arrived
  BY <1>1, SetStateIs
<1> HIDE DEF u
<1>4. /\ v \in Sockets /\ Reading(v, u) /\ v.state = u.state
      /\ v.sock = u.sock /\ v.arrived = u.arrived
      /\ v.told = u.told \cup ({"connected"} \cap Tellable)
  BY <1>2, <1>3, EmitIs
<1>5. "connected" \in v.told
  BY <1>4 DEF Tellable
<1> QED
  BY <1>1, <1>3, <1>4, <1>5 DEF Reading, Carried

LEMMA AnswersTyped ==
    ASSUME NEW w \in Sockets
    PROVE  /\ w.answer.headers \in Heads
           /\ w.answer.status \in Nat \cup {NoNumber}
           /\ w.answer.http \in Nat \cup {NoNumber}
<1>1. w.answer \in Responses \cup {NoAnswer}
  BY DEF Sockets
<1>2. CASE w.answer = NoAnswer
  BY <1>2 DEF NoAnswer, NoHeaders, Heads
<1>3. CASE w.answer \in Responses
  BY <1>3, ResponsesAssumption DEF Heads
<1> QED
  BY <1>1, <1>2, <1>3

LEMMA ReadHeadersIs ==
    ASSUME NEW w, BeingRead(w), w.read < End, w.hs = "ReadingHeader",
           OwnKey(w), OwnRest(w), Cut(w), RightRead(w),
           NEW v, v = ReadHeaders(w)
    PROVE  Judged(v, w)
<1> DEFINE merged == w.read < Fields /\ w.arrived >= Fields
           H == IF merged THEN Merge(w.headers, w.answer.headers) ELSE w.headers
           t == [w EXCEPT !.headers = H, !.read = w.arrived]
           right == Right(w.answer) /\ ~w.stale
<1>1. /\ w.headers \in Heads /\ w.answer.headers \in Heads
      /\ w.read \in 0..3 /\ w.arrived \in 0..3 /\ w.read <= w.arrived
      /\ w.parsed.status \in Nat \cup {NoNumber} /\ w.parsed.http \in Nat \cup {NoNumber}
  BY AnswersTyped DEF BeingRead, Sockets, End
<1>2. H \in Heads
  BY <1>1 DEF Merge, Heads
<1>3. H.key = "right" => w.answer.headers.key = "right"
  BY <1>1 DEF Merge, OwnKey
<1>11. ~w.stale =>
           /\ w.parsed.status = w.answer.status /\ w.parsed.http = w.answer.http
           /\ H.upgrade => w.answer.headers.upgrade
           /\ H.connection => w.answer.headers.connection
  BY <1>1 DEF Merge, OwnRest
<1>4. right => w.read \in {1, 2} /\ w.parsed.status = 101 /\ w.parsed.http = 11
  BY <1>1 DEF Cut, RightRead, Status, Fields, End
<1>5. right /\ w.arrived >= 2 => H.key = "right" /\ H.upgrade /\ H.connection
  <2>1. CASE right /\ w.arrived >= 2 /\ w.read < 2
    BY <1>1, <2>1 DEF Right, Merge, Fields
  <2>2. CASE right /\ w.arrived >= 2 /\ w.read = 2
    BY <1>1, <2>2 DEF RightRead, Fields
  <2> QED
    BY <1>1, <1>4, <2>1, <2>2
<1> HIDE DEF H
<1>6. /\ t \in Sockets
      /\ t.headers = H /\ t.read = w.arrived /\ t.arrived = w.arrived
      /\ t.hs = "ReadingHeader" /\ t.state = "Connecting" /\ t.sock = "connected"
      /\ t.posted /\ t.parsed = w.parsed /\ t.answer = w.answer /\ t.stale = w.stale
      /\ t.status = w.status /\ t.told = w.told
  BY <1>2 DEF BeingRead, Sockets
<1>7. v = IF w.arrived = End THEN ParseHeaders(t)
          ELSE IF w.sock # "connected" THEN HandshakeFailed(t) ELSE t
  BY DEF ReadHeaders, H
<1> HIDE DEF t
<1>8. CASE w.arrived # End
  <2>1. v = t
    BY <1>7, <1>8 DEF BeingRead
  <2>2. Readable(v) /\ Fresh(v) /\ OwnKey(v) /\ OwnRest(v)
    BY <1>1, <1>3, <1>6, <1>11, <2>1 DEF Readable, Fresh, OwnKey, OwnRest
  <2>3. Cut(v)
    BY <1>1, <1>6, <1>8, <2>1 DEF Cut
  <2>4. RightRead(v)
    BY <1>1, <1>4, <1>5, <1>6, <1>8, <2>1 DEF RightRead, Status, Fields, End
  <2> QED
    BY <1>6, <2>1, <2>2, <2>3, <2>4 DEF Judged, Sound, OpenIsOpen
<1>9. CASE w.arrived = End /\ Accepts(t.parsed.status, t.parsed.http, t.headers)
  <2>1. v = HandshakeSucceeded(t)
    BY <1>7, <1>9 DEF ParseHeaders
  <2>2. /\ v \in Sockets
        /\ v.hs = "AllDone" /\ v.state = "Connected" /\ v.sock = t.sock
        /\ Carried(v, t)
        /\ "connected" \in v.told
    BY <1>6, <2>1, SucceededIs
  <2>3. v.headers.key = "right" /\ v.answer.headers.key = "right"
    BY <1>3, <1>6, <1>9, <2>2 DEF Accepts, Carried
  <2>4. Readable(v) /\ Fresh(v) /\ OwnKey(v) /\ OwnRest(v) /\ Cut(v)
    BY <1>1, <1>6, <2>2, <2>3 DEF Readable, Fresh, OwnKey, OwnRest, Cut, Carried
  <2>5. RightRead(v)
    BY <1>6, <1>9, <2>2 DEF RightRead, Status, Fields, End, Carried
  <2>6. v.stale \/ Upgrades(v.answer)
    <3>1. /\ t.parsed.status = 101 /\ t.parsed.http >= 11
          /\ t.headers.upgrade /\ t.headers.connection
      BY <1>9 DEF Accepts
    <3>2. ~w.stale => Upgrades(w.answer)
      BY <1>6, <1>11, <3>1 DEF Upgrades
    <3> QED
      BY <1>6, <2>2, <3>2 DEF Carried
  <2> QED
    BY <1>6, <1>9, <2>2, <2>3, <2>4, <2>5, <2>6 DEF Judged, OwnAnswer, Sound, OpenIsOpen, Carried
<1>10. CASE w.arrived = End /\ ~Accepts(t.parsed.status, t.parsed.http, t.headers)
  <2>1. v = HandshakeFailed(t)
    BY <1>7, <1>10 DEF ParseHeaders
  <2>2. /\ v \in Sockets
        /\ v.hs = "AllDone" /\ v.state = t.state /\ v.sock = t.sock
        /\ Carried(v, t)
        /\ owner = "qml" => v.status = "Error"
    BY <1>6, <2>1, FailedIs
  <2>3. ~right
    BY <1>4, <1>5, <1>6, <1>10 DEF Accepts, End
  <2>4. Readable(v) /\ Fresh(v) /\ OwnKey(v) /\ OwnRest(v) /\ Cut(v)
    BY <1>1, <1>3, <1>6, <2>2 DEF Readable, Fresh, OwnKey, OwnRest, Cut, Carried
  <2>5. RightRead(v)
    BY <1>6, <2>2, <2>3 DEF RightRead, Carried
  <2> QED
    BY <1>6, <2>2, <2>4, <2>5 DEF Judged, Sound, OpenIsOpen
<1> QED
  BY <1>8, <1>9, <1>10

LEMMA ReadStatusIs ==
    ASSUME NEW w, BeingRead(w), w.read < w.arrived, w.hs = "ReadingStatus",
           w.headers = NoHeaders, Right(w.answer) /\ ~w.stale => w.read = 0,
           NEW v, v = ReadStatus(w)
    PROVE  Judged(v, w)
<1> DEFINE t == readLine(w)
           h == [t EXCEPT !.hs = "ReadingHeader",
                          !.parsed = [status |-> w.answer.status, http |-> w.answer.http]]
           bad == t.read # Status \/ ~parseStatusLine(w.answer)
<1>1. /\ w.read \in 0..3 /\ w.arrived \in 0..3 /\ w.read + 1 \in 0..3
      /\ w.answer.status \in Nat \cup {NoNumber} /\ w.answer.http \in Nat \cup {NoNumber}
  BY AnswersTyped DEF BeingRead, Sockets, End
<1>2. /\ t \in Sockets
      /\ t.read = w.read + 1 /\ t.arrived = w.arrived /\ t.hs = w.hs /\ t.headers = w.headers
      /\ t.state = "Connecting" /\ t.sock = "connected" /\ t.posted
      /\ t.answer = w.answer /\ t.stale = w.stale /\ t.status = w.status
  BY <1>1 DEF readLine, BeingRead, Sockets, End
<1>3. v = IF bad THEN HandshakeFailed(t) ELSE ReadHeaders(h)
  BY DEF ReadStatus
<1> HIDE DEF t
<1>4. CASE bad
  <2>1. /\ v \in Sockets
        /\ v.hs = "AllDone" /\ v.state = t.state /\ v.sock = t.sock
        /\ Carried(v, t)
        /\ owner = "qml" => v.status = "Error"
    BY <1>2, <1>3, <1>4, FailedIs
  <2>2. ~(Right(w.answer) /\ ~w.stale)
    BY <1>2, <1>4 DEF Right, parseStatusLine, NoNumber, Status
  <2>3. Readable(v) /\ Fresh(v) /\ OwnKey(v) /\ OwnRest(v) /\ Cut(v)
    BY <1>1, <1>2, <2>1 DEF Readable, Fresh, OwnKey, OwnRest, Cut, Carried
  <2>4. RightRead(v)
    BY <1>2, <2>1, <2>2 DEF RightRead, Carried
  <2> QED
    BY <1>2, <2>1, <2>3, <2>4 DEF Judged, Sound, OpenIsOpen
<1>5. CASE ~bad
  <2>1. /\ h \in Sockets
        /\ h.hs = "ReadingHeader" /\ h.read = 1 /\ h.arrived = t.arrived
        /\ h.headers = t.headers /\ h.state = "Connecting" /\ h.sock = "connected"
        /\ h.posted /\ h.answer = t.answer /\ h.stale = t.stale /\ h.status = t.status
        /\ h.parsed.status = w.answer.status /\ h.parsed.http = w.answer.http
    BY <1>1, <1>2, <1>5 DEF Sockets, Status
  <2> HIDE DEF h
  <2>2. BeingRead(h) /\ h.read < End /\ OwnKey(h) /\ OwnRest(h) /\ Cut(h)
    BY <1>1, <1>2, <2>1 DEF BeingRead, OwnKey, OwnRest, NoHeaders, Cut, End
  <2>3. RightRead(h)
    BY <1>2, <2>1 DEF RightRead, Right, Status, Fields, End
  <2>4. Judged(v, h)
    BY <1>3, <1>5, <2>1, <2>2, <2>3, ReadHeadersIs
  <2> QED
    BY <1>2, <2>1, <2>4 DEF Judged
<1> QED
  BY <1>4, <1>5

\* One turn of the loop in processData.
LEMMA ProcessedIs ==
    ASSUME NEW w, Sound(w), NEW v, v = processData(w)
    PROVE  /\ Sound(v)
           /\ v.sock = w.sock
           /\ v.state = "Connected" /\ w.state # "Connected" => v.sock = "connected" /\ OwnAnswer(v)
           /\ owner = "qml" /\ OpenIsOpen(w) => OpenIsOpen(v)
<1> DEFINE b == [w EXCEPT !.headers = NoHeaders, !.hs = "ReadingStatus"]
           p == [w EXCEPT !.posted = FALSE]
<1>1. w \in Sockets /\ w.read \in 0..3 /\ w.arrived \in 0..3
  BY DEF Sound, Sockets, End
<1>2. CASE w.sock = "none" \/ w.read = w.arrived
  <2>1. v = p
    BY <1>2 DEF processData
  <2>2. /\ v \in Sockets
        /\ v.state = w.state /\ v.sock = w.sock /\ v.hs = w.hs /\ v.parsed = w.parsed
        /\ v.headers = w.headers /\ v.read = w.read /\ v.arrived = w.arrived
        /\ v.answer = w.answer /\ v.stale = w.stale /\ v.told = w.told /\ v.status = w.status
    BY <1>1, <2>1 DEF Sockets
  <2>3. v.read = v.arrived
    BY <1>2, <2>2 DEF Sound, Readable
  <2> QED
    BY <1>1, <2>2, <2>3
    DEF Sound, Readable, Fresh, OwnKey, OwnRest, Cut, RightRead, OpenIsOpen
<1>3. CASE w.sock # "none" /\ w.read # w.arrived /\ w.state # "Connecting"
  <2>1. v = Emptied(w)
    BY <1>3 DEF processData
  <2>2. /\ v \in Sockets /\ Reading(v, w)
        /\ v.state = w.state /\ v.sock = w.sock /\ v.status = w.status /\ v.told = w.told
        /\ v.arrived = w.read
    BY <1>1, <2>1, EmptiedIs
  <2>3. Quiet(v, w) /\ v.arrived = v.read
    BY <2>2 DEF Quiet, Reading
  <2>4. Sound(v)
    BY <2>2, <2>3, QuietIsSound
  <2> QED
    BY <2>2, <2>4 DEF OpenIsOpen
<1>4. CASE w.read # w.arrived /\ w.state = "Connecting"
  <2>1. v = processHandshake(w) /\ BeingRead(w) /\ w.read < w.arrived
    BY <1>1, <1>4 DEF processData, Sound, Readable, BeingRead
  <2>2. CASE w.hs = "ReadingHeader"
    <3>1. v = ReadHeaders(w)
      BY <2>1, <2>2 DEF processHandshake
    <3>2. Judged(v, w)
      BY <1>1, <2>1, <2>2, <3>1, ReadHeadersIs DEF Sound, End
    <3> QED
      BY <1>4, <2>1, <3>2 DEF Judged, BeingRead, OpenIsOpen
  <2>3. CASE w.hs # "ReadingHeader"
    <3>1. v = ReadStatus(b)
      BY <2>1, <2>3 DEF processHandshake, Sound, Cut
    <3>2. /\ b \in Sockets
          /\ b.hs = "ReadingStatus" /\ b.headers = NoHeaders
          /\ b.read = w.read /\ b.arrived = w.arrived
          /\ b.state = "Connecting" /\ b.sock = "connected" /\ b.posted
          /\ b.answer = w.answer /\ b.stale = w.stale /\ b.status = w.status
      BY <1>1, <2>1 DEF Sockets, BeingRead, NoHeaders, Heads
    <3> HIDE DEF b
    <3>3. BeingRead(b) /\ b.read < b.arrived
      BY <2>1, <3>2 DEF BeingRead
    <3>4. Right(b.answer) /\ ~b.stale => b.read = 0
      BY <1>1, <2>1, <2>3, <3>2 DEF Sound, RightRead, Status, Fields
    <3>5. Judged(v, b)
      BY <3>1, <3>2, <3>3, <3>4, ReadStatusIs
    <3> QED
      BY <1>4, <2>1, <3>2, <3>5 DEF Judged, BeingRead, OpenIsOpen
  <2> QED
    BY <2>2, <2>3
<1> QED
  BY <1>2, <1>3, <1>4

-----------------------------------------------------------------------------
(* The steps of the socket.                                                *)

LEMMA GoneIs ==
    ASSUME NEW w, Sound(w), w.arrived = w.read, NEW v, v = SocketUnconnected(w)
    PROVE  /\ Sound(v)
           /\ v.state # "Connected" /\ v.sock = "unconnected"
           /\ owner = "qml" /\ OpenIsOpen(w) => v.status # "Open"
<1>1. w \in Sockets
  BY DEF Sound
<1>2. /\ v \in Sockets /\ Reading(v, w)
      /\ v.state = "Unconnected" /\ v.sock = "unconnected" /\ v.arrived = w.arrived
      /\ w.told \subseteq v.told
      /\ owner = "qml" => v.status = IF w.state = "Unconnected" THEN w.status ELSE "Closed"
  BY <1>1, UnconnectedIs
<1>3. Quiet(v, w) /\ v.arrived = v.read
  BY <1>2 DEF Quiet, Reading
<1>4. Sound(v)
  BY <1>2, <1>3, QuietIsSound
<1> QED
  BY <1>2, <1>4 DEF OpenIsOpen

LEMMA ErrorIs ==
    ASSUME NEW w, Sound(w), NEW v, v = Emit(w, "error")
    PROVE  /\ Sound(v)
           /\ v.state = w.state /\ v.sock = w.sock /\ v.arrived = w.arrived /\ v.read = w.read
           /\ owner = "qml" => v.status = "Error"
<1>1. w \in Sockets /\ StatusAfter(w.status, "error") = "Error"
  BY DEF Sound, StatusAfter
<1>2. /\ v \in Sockets /\ Reading(v, w) /\ v.state = w.state /\ v.sock = w.sock
      /\ v.arrived = w.arrived /\ w.told \subseteq v.told
      /\ owner = "qml" => v.status = StatusAfter(w.status, "error")
  BY <1>1, EmitIs
<1>3. Quiet(v, w) /\ (v.arrived # v.read => v.sock = "connected")
  BY <1>2 DEF Quiet, Reading, Sound, Readable
<1>4. Sound(v)
  BY <1>2, <1>3, QuietIsSound
<1> QED
  BY <1>1, <1>2, <1>4 DEF Reading

\* TCP is up: the request goes out to a server that will answer r.
LEMMA ConnectedIs ==
    ASSUME NEW w, Sound(w), w.sock = "connecting", NEW r \in Responses,
           NEW v, v = SocketConnected(w, r)
    PROVE  /\ Sound(v)
           /\ v.state = "Connected" => w.state = "Connected"
           /\ v.sock \in {"connected", "unconnected"}
           /\ owner = "qml" /\ OpenIsOpen(w) => v.status # "Open"
<1> DEFINE c == [w EXCEPT !.sock = "connected"]
           u == SocketUnconnected(c)
           a == [c EXCEPT !.answer = r]
           refused == createHandShakeRequest(origin = "break", origin).words = 0
<1>1. w \in Sockets /\ w.read = 0 /\ w.arrived = 0 /\ w.answer = NoAnswer
  BY DEF Sound, Fresh
<1>2. /\ c \in Sockets /\ Reading(c, w) /\ c.state = w.state /\ c.sock = "connected"
      /\ c.arrived = 0 /\ c.told = w.told /\ c.status = w.status
  BY <1>1 DEF Sockets, Reading
<1>3. /\ a \in Sockets /\ a.state = c.state /\ a.sock = "connected" /\ a.status = c.status
      /\ a.hs = c.hs /\ a.headers = c.headers /\ a.stale = c.stale
      /\ a.read = c.read /\ a.arrived = c.arrived /\ a.answer = r
  BY <1>2 DEF Sockets
<1>4. v = IF w.state # "Connecting" THEN c
          ELSE IF refused THEN Emit(u, "error") ELSE a
  BY DEF SocketConnected
<1> HIDE DEF c, a
<1>5. Sound(c)
  <2>1. Quiet(c, w) /\ c.arrived = c.read
    BY <1>1, <1>2 DEF Quiet, Reading
  <2> QED
    BY <1>2, <2>1, QuietIsSound
<1>6. Sound(a)
  <2>1. w.hs = "ReadingHeader" => w.headers.key # "right" /\ w.stale
    BY <1>1 DEF Sound, OwnKey, Cut, NoAnswer, NoHeaders
  <2>2. a.read = 0 /\ a.arrived = 0 /\ a.headers = w.headers /\ a.hs = w.hs /\ a.stale = w.stale
    BY <1>1, <1>2, <1>3 DEF Reading
  <2> QED
    BY <1>1, <1>3, <2>1, <2>2
    DEF Sound, Readable, Fresh, OwnKey, OwnRest, Cut, RightRead, Status, Fields, End
<1>7. CASE w.state # "Connecting"
  BY <1>2, <1>4, <1>5, <1>7 DEF OpenIsOpen
<1>8. CASE w.state = "Connecting" /\ refused
  <2>1. c.arrived = c.read
    BY <1>1, <1>2 DEF Reading
  <2>2. Sound(u) /\ u.state # "Connected" /\ u.sock = "unconnected"
    BY <1>5, <2>1, GoneIs
  <2>3. v = Emit(u, "error")
    BY <1>4, <1>8
  <2> HIDE DEF u
  <2> QED
    BY <2>2, <2>3, ErrorIs
<1>9. CASE w.state = "Connecting" /\ ~refused
  <2>1. v = a
    BY <1>4, <1>9
  <2> QED
    BY <1>2, <1>3, <1>6, <1>9, <2>1 DEF OpenIsOpen
<1> QED
  BY <1>7, <1>8, <1>9

\* What ConnectedByOwnAnswer says of a step.
ByOwnAnswer ==
    ws'.state = "Connected" /\ ws.state # "Connected" =>
        /\ ws'.sock = "connected"
        /\ ws'.read = 3
        /\ ws'.answer.headers.key = "right"
        /\ ws'.stale \/ Upgrades(ws'.answer)

SocketStep ==
    /\ Sound(ws')
    /\ ByOwnAnswer
    /\ owner = "qml" /\ OpenIsOpen(ws) => OpenIsOpen(ws')
    /\ ws'.sock \in {"connecting", "connected"} => ws.sock \in {"connecting", "connected"}

LEMMA SystemSteps ==
    ASSUME Sound(ws), System
    PROVE  SocketStep /\ owner' = owner
<1> DEFINE w == ws
<1>0. ws \in Sockets
  BY DEF Sound
<1>1. CASE ProcessData
  <2>1. ws' = processData(ws) /\ owner' = owner
    BY <1>1 DEF ProcessData
  <2> QED
    BY <2>1, ProcessedIs DEF SocketStep, ByOwnAnswer, OwnAnswer, End
<1>2. CASE Established
  <2>1. PICK r \in Responses : ws' = SocketConnected(ws, r)
    BY <1>2 DEF Established
  <2>2. ws.sock = "connecting" /\ owner' = owner
    BY <1>2 DEF Established
  <2> QED
    BY <2>1, <2>2, ConnectedIs DEF SocketStep, ByOwnAnswer, OpenIsOpen
<1>3. CASE ConnectFails
  <2> DEFINE e == Emit(ws, "error")
  <2>1. ws.sock = "connecting" /\ ws' = SocketUnconnected(e) /\ owner' = owner
    BY <1>3 DEF ConnectFails
  <2>2. /\ Sound(e) /\ e.state = ws.state /\ e.arrived = ws.arrived /\ e.read = ws.read
        /\ owner = "qml" => e.status = "Error"
    BY ErrorIs
  <2> HIDE DEF e
  <2>3. e.arrived = e.read
    BY <2>1, <2>2 DEF Sound, Fresh
  <2> QED
    BY <2>1, <2>2, <2>3, GoneIs DEF SocketStep, ByOwnAnswer, OpenIsOpen
<1>4. CASE Arrive
  <2>1. PICK n \in (ws.arrived + 1)..End : ws' = [ws EXCEPT !.arrived = n, !.posted = TRUE]
    BY <1>4 DEF Arrive
  <2>2. ws.sock = "connected" /\ owner' = owner /\ ws.answer # NoAnswer
    BY <1>4 DEF Arrive
  <2>3. ws.arrived \in 0..3 /\ ws.read \in 0..3 /\ ws.read <= ws.arrived
    BY <1>0 DEF Sockets, End, Sound, Readable
  <2>4. n \in 0..End /\ ws.read <= n
    BY <2>3 DEF End
  <2>5. /\ ws' \in Sockets /\ ws'.state = ws.state /\ ws'.sock = ws.sock
        /\ ws'.status = ws.status /\ ws'.hs = ws.hs /\ ws'.parsed = ws.parsed
        /\ ws'.headers = ws.headers /\ ws'.read = ws.read /\ ws'.arrived = n /\ ws'.posted
        /\ ws'.answer = ws.answer /\ ws'.stale = ws.stale /\ ws'.told = ws.told
    BY <1>0, <2>1, <2>4 DEF Sockets
  <2>6. Sound(ws')
    BY <2>2, <2>4, <2>5 DEF Sound, Readable, Fresh, OwnKey, OwnRest, Cut, RightRead
  <2> QED
    BY <2>2, <2>5, <2>6 DEF SocketStep, ByOwnAnswer, OpenIsOpen
<1>5. CASE ServerCloses \/ SocketEnds
  <2>1. ~ws.posted /\ ws' = SocketUnconnected(ws) /\ owner' = owner
    BY <1>5 DEF ServerCloses, SocketEnds
  <2>2. ws.arrived = ws.read
    BY <2>1 DEF Sound, Readable
  <2> QED
    BY <2>1, <2>2, GoneIs DEF SocketStep, ByOwnAnswer, OpenIsOpen
<1>6. CASE ArriveAgain
  <2>1. PICK r \in Responses, n \in Status..End :
            ws' = [ws EXCEPT !.answer = r, !.arrived = n, !.read = 0, !.posted = TRUE,
                             !.stale = FALSE]
    BY <1>6 DEF ArriveAgain
  <2>2. ws.sock = "connected" /\ owner' = owner /\ ws.state = "Connecting" /\ ws.read = End
    BY <1>6 DEF ArriveAgain
  <2>3. n \in 0..End /\ 0 \in 0..End
    BY DEF Status, End
  <2>4. /\ ws' \in Sockets /\ ws'.state = ws.state /\ ws'.sock = ws.sock
        /\ ws'.status = ws.status /\ ws'.hs = ws.hs /\ ws'.parsed = ws.parsed
        /\ ws'.headers = ws.headers /\ ws'.read = 0 /\ ws'.arrived = n /\ ws'.posted
        /\ ws'.answer = r /\ ~ws'.stale /\ ws'.told = ws.told
    BY <1>0, <2>1, <2>3 DEF Sockets
  <2>5. ws.hs # "ReadingHeader" /\ ws.hs # "ReadingStatus"
    BY <2>2 DEF Sound, Cut
  <2>6. Sound(ws')
    BY <2>2, <2>3, <2>4, <2>5
    DEF Sound, Readable, Fresh, OwnKey, OwnRest, Cut, RightRead, Status, Fields, End
  <2> QED
    BY <2>2, <2>4, <2>6 DEF SocketStep, ByOwnAnswer, OpenIsOpen
<1> QED
  BY <1>1, <1>2, <1>3, <1>4, <1>5, <1>6 DEF System, EventLoop, Tcp, Server

LEMMA UserSteps ==
    ASSUME Sound(ws), UserCalls
    PROVE  Sound(ws') /\ ByOwnAnswer /\ owner' = owner
<1>0. ws \in Sockets
  BY DEF Sound
<1>1. ASSUME NEW url \in Urls, open(url) PROVE Sound(ws') /\ ByOwnAnswer /\ owner' = owner
  <2>1. ws' = openSocket(ws, url) /\ owner' = owner
    BY <1>1 DEF open
  <2>2. url \in {"ws", "invalid", "encoded", "ftp"}
    BY UrlsAssumption
  <2> QED
    BY <2>1, <2>2, OpenIs DEF ByOwnAnswer
<1>2. CASE close
  <2>1. ws' = closeSocket(ws) /\ owner' = owner
    BY <1>2 DEF close
  <2> QED
    BY <2>1, CloseIs DEF ByOwnAnswer, Quiet
<1>3. CASE abort
  <2> DEFINE e == Emptied(ws)
  <2>1. ws' = SocketUnconnected(e) /\ owner' = owner
    BY <1>3 DEF abort
  <2>2. /\ e \in Sockets /\ Reading(e, ws) /\ e.state = ws.state /\ e.sock = ws.sock
        /\ e.told = ws.told /\ e.arrived = ws.read
    BY <1>0, EmptiedIs
  <2> HIDE DEF e
  <2>3. Quiet(e, ws) /\ e.arrived = e.read
    BY <2>2 DEF Quiet, Reading
  <2>4. Sound(e)
    BY <2>2, <2>3, QuietIsSound
  <2> QED
    BY <2>1, <2>3, <2>4, GoneIs DEF ByOwnAnswer
<1> QED
  BY <1>1, <1>2, <1>3 DEF UserCalls

-----------------------------------------------------------------------------
(* The steps of the element.                                               *)

QmlStep == QmlInv' /\ ByOwnAnswer /\ owner' = owner

\* open() of the element, on a socket that is not Open.
LEMMA OpensIs ==
    ASSUME owner = "qml", NEW w, Sound(w), w.status # "Open",
           w.state = "Connected" => ws.state = "Connected",
           w.sock \in {"connecting", "connected"} => m_isActive' /\ m_componentCompleted',
           NEW url \in {"ws", "invalid", "encoded", "ftp", Idle},
           m_url' \in {"ws", "invalid", "encoded", "ftp", Idle},
           Opens(w, url), owner' = owner
    PROVE  QmlStep
<1>1. CASE m_isActive' /\ m_componentCompleted' /\ url \notin {Idle, "invalid"}
  <2>1. ws' = openSocket(w, url)
    BY <1>1 DEF Opens
  <2>2. /\ Sound(ws')
        /\ ws'.state = "Connected" => w.state = "Connected"
        /\ ws'.status # "Open"
    BY <1>1, <2>1, OpenIs
  <2> QED
    BY <1>1, <2>2 DEF QmlStep, QmlInv, OpenIsOpen, HeldByActive, ByOwnAnswer
<1>2. CASE ~(m_isActive' /\ m_componentCompleted' /\ url \notin {Idle, "invalid"})
  <2>1. ws' = w
    BY <1>2 DEF Opens
  <2> QED
    BY <2>1 DEF QmlStep, QmlInv, OpenIsOpen, HeldByActive, ByOwnAnswer
<1> QED
  BY <1>1, <1>2

LEMMA ElementSteps ==
    ASSUME QmlInv,
           \/ componentComplete
           \/ \E url \in Urls : setUrl(url)
           \/ \E active \in BOOLEAN : setActive(active)
           \/ sendMessage
    PROVE  QmlStep
<1>1. Sound(ws) /\ ws \in Sockets
  BY DEF QmlInv, Sound
<1>2. CASE componentComplete
  <2>1. /\ owner = "qml" /\ ~m_componentCompleted /\ m_componentCompleted' = TRUE
        /\ m_url' = m_url /\ owner' = owner /\ Opens(ws, m_url)
    BY <1>2 DEF componentComplete
  <2>2. ws.sock \notin {"connecting", "connected"} /\ ws.status # "Open"
    BY <2>1 DEF QmlInv, HeldByActive, OpenIsOpen
  <2>3. m_url \in {"ws", "invalid", "encoded", "ftp", Idle}
    BY <2>1 DEF QmlInv
  <2> QED
    BY <1>1, <2>1, <2>2, <2>3, OpensIs
<1>3. ASSUME NEW url \in Urls, setUrl(url) PROVE QmlStep
  <2> DEFINE c == closeSocket(ws)
  <2>1. /\ owner = "qml" /\ m_url' = url /\ owner' = owner
        /\ m_isActive' = m_isActive /\ m_componentCompleted' = m_componentCompleted
        /\ Opens(IF ws.status = "Open" THEN c ELSE ws, url)
    BY <1>3 DEF setUrl
  <2>2. url \in {"ws", "invalid", "encoded", "ftp"}
    BY UrlsAssumption
  <2>3. OpenIsOpen(ws) /\ HeldByActive
    BY <2>1 DEF QmlInv
  <2>4. CASE ws.status = "Open"
    <3>1. Opens(c, url)
      BY <2>1, <2>4
    <3>2. /\ Sound(c) /\ (c.state = "Connected" => ws.state = "Connected")
          /\ c.sock \notin {"connecting", "connected"} /\ c.status # "Open"
      BY <1>1, <2>1, <2>3, CloseIs DEF Quiet
    <3> HIDE DEF c
    <3> QED
      BY <2>1, <2>2, <3>1, <3>2, OpensIs
  <2>5. CASE ws.status # "Open"
    <3>1. Opens(ws, url)
      BY <2>1, <2>5
    <3>2. ws.sock \in {"connecting", "connected"} => m_isActive' /\ m_componentCompleted'
      BY <2>1, <2>3 DEF HeldByActive
    <3> QED
      BY <1>1, <2>1, <2>2, <2>5, <3>1, <3>2, OpensIs
  <2> QED
    BY <2>4, <2>5
<1>4. ASSUME NEW active \in BOOLEAN, setActive(active) PROVE QmlStep
  <2>1. /\ owner = "qml" /\ m_isActive' = active /\ active # m_isActive
        /\ m_url' = m_url /\ owner' = owner
        /\ m_componentCompleted' = m_componentCompleted
        /\ IF ~m_componentCompleted THEN ws' = ws /\ UNCHANGED opens
           ELSE IF active THEN Opens(ws, m_url)
           ELSE ws' = closeSocket(ws) /\ UNCHANGED opens
    BY <1>4 DEF setActive
  <2>2. OpenIsOpen(ws) /\ HeldByActive /\ m_url \in {"ws", "invalid", "encoded", "ftp", Idle}
    BY <2>1 DEF QmlInv
  <2>3. CASE ~m_componentCompleted
    <3>1. ws' = ws /\ ws.sock \notin {"connecting", "connected"}
      BY <2>1, <2>2, <2>3 DEF HeldByActive
    <3> QED
      BY <1>1, <2>1, <2>2, <3>1 DEF QmlStep, QmlInv, OpenIsOpen, HeldByActive, ByOwnAnswer
  <2>4. CASE m_componentCompleted /\ active
    <3>1. Opens(ws, m_url) /\ ~m_isActive
      BY <2>1, <2>4
    <3>2. ws.sock \notin {"connecting", "connected"} /\ ws.status # "Open"
      BY <2>2, <3>1 DEF HeldByActive, OpenIsOpen
    <3> QED
      BY <1>1, <2>1, <2>2, <3>1, <3>2, OpensIs
  <2>5. CASE m_componentCompleted /\ ~active
    <3>1. ws' = closeSocket(ws)
      BY <2>1, <2>5
    <3>2. /\ Sound(ws') /\ (ws'.state = "Connected" => ws.state = "Connected")
          /\ ws'.sock \notin {"connecting", "connected"} /\ ws'.status # "Open"
      BY <1>1, <2>1, <2>2, <3>1, CloseIs DEF Quiet
    <3> QED
      BY <2>1, <2>2, <3>2 DEF QmlStep, QmlInv, OpenIsOpen, HeldByActive, ByOwnAnswer
  <2> QED
    BY <2>3, <2>4, <2>5
<1>5. CASE sendMessage
  <2> DEFINE status == IF ws.status = "Open" THEN ws.status ELSE "Error"
  <2>1. /\ owner = "qml" /\ owner' = owner
        /\ ws' = [ws EXCEPT !.status = status]
        /\ m_url' = m_url /\ m_isActive' = m_isActive
        /\ m_componentCompleted' = m_componentCompleted
    BY <1>5 DEF sendMessage
  <2>2. status \in {"Closed", "Connecting", "Open", "Closing", "Error"}
    BY <1>1 DEF Sockets
  <2>3. status = "Open" => ws.status = "Open"
    OBVIOUS
  <2> HIDE DEF status
  <2>4. /\ ws' \in Sockets /\ Reading(ws', ws) /\ ws'.state = ws.state /\ ws'.sock = ws.sock
        /\ ws'.arrived = ws.arrived /\ ws'.told = ws.told /\ ws'.status = status
    BY <1>1, <2>1, <2>2 DEF Sockets, Reading
  <2>5. Quiet(ws', ws) /\ (ws'.arrived # ws'.read => ws'.sock = "connected")
    BY <1>1, <2>4 DEF Quiet, Reading, Sound, Readable
  <2>6. Sound(ws')
    BY <1>1, <2>4, <2>5, QuietIsSound
  <2> QED
    BY <2>1, <2>3, <2>4, <2>6 DEF QmlStep, QmlInv, OpenIsOpen, HeldByActive, ByOwnAnswer
<1> QED
  BY <1>2, <1>3, <1>4, <1>5

-----------------------------------------------------------------------------
(* Results.                                                                *)

LEMMA InitiallySound == QmlInit => QmlInv
<1> SUFFICES ASSUME QmlInit PROVE QmlInv
  OBVIOUS
<1>1. NoAnswer.headers.key = "none" /\ NoHeaders \in Heads /\ ~Right(NoAnswer)
  BY DEF NoAnswer, NoHeaders, Heads, Right, NoNumber
<1>2. /\ New \in Sockets
      /\ New.sock = "none" /\ New.read = 0 /\ New.arrived = 0 /\ New.hs = "NothingDone"
      /\ New.headers = NoHeaders /\ New.answer = NoAnswer /\ New.status = "Closed"
  BY <1>1 DEF New, Sockets, End, NoNumber, Tellable
<1>3. Sound(New)
  BY <1>1, <1>2
  DEF Sound, Readable, Fresh, OwnKey, OwnRest, Cut, RightRead, NoHeaders, Status, Fields, End
<1> DEFINE status == IF owner = "qml" THEN "Open" ELSE New.status
<1>4. Accepted = [New EXCEPT !.state = "Connected", !.sock = "connected", !.status = status]
  BY DEF Accepted
<1>5. status \in {"Closed", "Connecting", "Open", "Closing", "Error"}
  BY <1>2
<1> HIDE DEF status
<1>6. /\ Accepted \in Sockets /\ Accepted.state = "Connected" /\ Accepted.sock = "connected"
      /\ Accepted.read = New.read /\ Accepted.arrived = New.arrived
      /\ Accepted.hs = New.hs /\ Accepted.headers = New.headers
      /\ Accepted.answer = New.answer
  BY <1>2, <1>4, <1>5 DEF Sockets
<1>7. Sound(Accepted)
  BY <1>1, <1>2, <1>6
  DEF Sound, Readable, Fresh, OwnKey, OwnRest, Cut, RightRead, NoHeaders, Status, Fields, End
<1>8. ws \in {New, Accepted} /\ m_componentCompleted = (owner = "qml" /\ ws = Accepted)
      /\ m_isActive = m_componentCompleted
      /\ m_url = IF m_componentCompleted THEN "ws" ELSE Idle
  BY DEF QmlInit, Init
<1>9. CASE ws = New
  BY <1>2, <1>3, <1>8, <1>9 DEF QmlInv, OpenIsOpen, HeldByActive
<1>10. CASE ws = Accepted
  BY <1>6, <1>7, <1>8, <1>10 DEF QmlInv, OpenIsOpen, HeldByActive
<1> QED
  BY <1>8, <1>9, <1>10

LEMMA Steps == QmlInv /\ [Next]_vars => QmlInv' /\ ByOwnAnswer
<1> SUFFICES ASSUME QmlInv, [Next]_vars PROVE QmlInv' /\ ByOwnAnswer
  OBVIOUS
<1>1. CASE SystemStep
  <2>1. SocketStep /\ owner' = owner /\ UNCHANGED qmlVars
    BY <1>1, SystemSteps DEF QmlInv, SystemStep, qmlVars
  <2> QED
    BY <2>1 DEF SocketStep, QmlInv, HeldByActive, qmlVars
<1>2. CASE owner # "qml" /\ UserCalls
  BY <1>2, UserSteps DEF QmlInv
<1>3. CASE \/ componentComplete
           \/ \E url \in Urls : setUrl(url)
           \/ \E active \in BOOLEAN : setActive(active)
           \/ sendMessage
  BY <1>3, ElementSteps DEF QmlStep
<1>4. CASE UNCHANGED vars
  BY <1>4 DEF vars, qmlVars, QmlInv, HeldByActive, ByOwnAnswer
<1> QED
  BY <1>1, <1>2, <1>3, <1>4 DEF Next

(* What is known of a socket is an invariant of every use of it.           *)
THEOREM SocketInvariance == Spec => []QmlInv
  BY InitiallySound, Steps, PTL DEF Spec

(* The example clients are users like any other: opening the socket in the *)
(* constructor and closing it when the echo arrives are calls of open()    *)
(* and close(), and all else that they do is their own.                    *)
THEOREM ProgramsAreUsers == ClientSpec => Spec
<1>1. ClientInit => QmlInit
  BY DEF ClientInit
<1>2. [ClientNext]_clientVars => [Next]_vars
  <2> SUFFICES ASSUME [ClientNext]_clientVars PROVE [Next]_vars
    OBVIOUS
  <2>1. CASE owner \in Programs /\ Client
    <3>1. UserCalls /\ owner # "qml" /\ UNCHANGED qmlVars
      BY <2>1, ProgramsAssumption DEF Client, UserCalls, Programs
    <3> QED
      BY <3>1 DEF Next
  <2>2. CASE owner \in Programs /\ onTextMessageReceived
    <3>1. UserCalls /\ owner # "qml" /\ UNCHANGED qmlVars
      BY <2>2 DEF onTextMessageReceived, UserCalls, Programs
    <3> QED
      BY <3>1 DEF Next
  <2>3. CASE onTextMessageReceivedSsl
    BY <2>3 DEF onTextMessageReceivedSsl
  <2>4. CASE SystemStep \/ Next
    BY <2>4 DEF Next
  <2>5. CASE UNCHANGED clientVars
    BY <2>5 DEF clientVars
  <2> QED
    BY <2>1, <2>2, <2>3, <2>4, <2>5 DEF ClientNext
<1> QED
  BY <1>1, <1>2, PTL DEF ClientSpec, Spec

(* No web socket becomes Connected but by an answer that has the accept    *)
(* key of this open()'s request, read to its end on its own connection,    *)
(* and that, unless an earlier one was cut, says all that makes it one.    *)
THEOREM OwnAnswersConnect == ClientSpec => ConnectedByOwnAnswer
<1>1. QmlInv /\ [Next]_vars =>
          [ws'.state = "Connected" /\ ws.state # "Connected" =>
               /\ ws'.sock = "connected"
               /\ ws'.read = 3
               /\ ws'.answer.headers.key = "right"
               /\ ws'.stale \/ Upgrades(ws'.answer)]_vars
  BY Steps DEF ByOwnAnswer
<1> QED
  BY ProgramsAreUsers, SocketInvariance, <1>1, PTL DEF Spec, ConnectedByOwnAnswer

(* And every right answer that was read does connect, whatever became of   *)
(* the attempts before, unless the last one was cut within its headers.    *)
THEOREM RightAnswersConnect == ClientSpec => []RightAnswerConnects
<1>1. QmlInv => RightAnswerConnects
  BY DEF QmlInv, Sound, RightRead, RightAnswerConnects, End
<1> QED
  BY ProgramsAreUsers, SocketInvariance, <1>1, PTL

(* An element that says Open can send.                                     *)
THEOREM OpenIsTrue == ClientSpec => []OpenMeansOpen
<1>1. QmlInv => OpenMeansOpen
  BY DEF QmlInv, OpenIsOpen, OpenMeansOpen
<1> QED
  BY ProgramsAreUsers, SocketInvariance, <1>1, PTL
=============================================================================
