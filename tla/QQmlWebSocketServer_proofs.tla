---------------------- MODULE QQmlWebSocketServer_proofs ----------------------
(***************************************************************************)
(* Proofs about QWebSocketServer, the QML element and the examples: who may *)
(* become a web socket, that nobody who was told 101 is lost, that nobody  *)
(* legal is refused for nothing, and where the element's server listens.   *)
(***************************************************************************)
EXTENDS EchoServers, SequenceTheorems, TLAPS

-----------------------------------------------------------------------------
(* The invariant, for a connection c with record k.                        *)

Connection ==
    [stage : {"none", "waiting", "handshake", "done"},
     tls : {"none", "running", "done"},
     sock : {"none", "open", "closing", "gone", "deleted"},
     request : {"none"} \cup UNION {Requests[c] : c \in Conns},
     got : {Nothing, FirstLine, EmptyLine},
     posted : BOOLEAN, linked : BOOLEAN, doomed : BOOLEAN,
     heard : {Nothing, FirstLine, EmptyLine},
     answer : {<<>>, <<400>>, <<403>>, <<101>>, <<101, 400>>},
     ws : {"none", "pending", "taken", "lost", "deleted"}]

\* A complete legal request that the server could read.
Servable(k) ==
    /\ k.stage = "done" /\ k.heard = EmptyLine
    /\ LegalRequest(k.request) /\ Readable(k.request)

\* allowed(), said of the server of a given user.
Allows(who, o) == who \in {"slot", "later"} => o \in AllowedOrigins

Refused(k, who) ==
    /\ k.answer \in {<<>>, <<403>>, <<101, 400>>}
    /\ k.answer = <<403>> => ~Allows(who, k.request.origin)

Upgraded(k, who) ==
    /\ k.ws \in {"pending", "taken", "deleted"}
    /\ ToleratedRequest(k.request) /\ Readable(k.request)
    /\ Allows(who, k.request.origin)
    /\ k.heard = EmptyLine

ErrorSet == user # "qml" => error # "normal"

Sound(c, k, breaks, who, erred) ==
    /\ k \in Connection
    /\ k.stage # "none" => k.request \in Requests[c]
    /\ k.stage = "none" => k.sock = "none" /\ ~k.doomed
    /\ k.posted => k.stage = "handshake"
    /\ k.stage # "done" => k.ws = "none" /\ k.answer = <<>> /\ k.heard = Nothing
    /\ k.ws # "none" => k.answer = <<101>>
    /\ k.answer = <<101>> => Upgraded(k, who)
    /\ k.answer = <<101, 400>> => breaks
    /\ Servable(k) /\ k.ws = "none" => Refused(k, who) /\ erred

ConnsInv ==
    /\ conn = [c \in Conns |-> conn[c]]
    /\ \A c \in Conns : Sound(c, conn[c], nameBreaks, user, ErrorSet)
    /\ pending \in Seq(Conns)
    /\ \A i \in DOMAIN pending : conn[pending[i]].ws # "none"

\* A step that neither starts a connection nor answers one.
Minor(k, l) ==
    /\ l \in Connection
    /\ l.request = k.request /\ l.heard = k.heard /\ l.answer = k.answer
    /\ l.ws = k.ws \/ (k.ws # "none" /\ l.ws \in {"taken", "deleted"})
    /\ \/ l.stage = k.stage
       \/ k.stage = "waiting" /\ l.stage = "handshake"
       \/ k.stage # "none" /\ l.stage = "done"
    /\ l.stage = "none" => l.sock = "none" /\ ~l.doomed
    /\ l.posted => l.stage = "handshake"

LEMMA MinorSound ==
    ASSUME NEW c \in Conns, NEW breaks, NEW who, NEW before, NEW after,
           before => after, NEW k, NEW l, Sound(c, k, breaks, who, before), Minor(k, l)
    PROVE  Sound(c, l, breaks, who, after)
<1>1. CASE k.stage = "done"
  <2>1. l.stage = "done" /\ l.request = k.request /\ l.heard = k.heard /\ l.answer = k.answer
        /\ (l.ws = "none" <=> k.ws = "none") /\ l \in Connection
    BY <1>1 DEF Minor
  <2>2. Servable(l) => Servable(k)
    BY <1>1, <2>1 DEF Servable
  <2>3. Refused(k, who) => Refused(l, who)
    BY <2>1 DEF Refused
  <2>4. Upgraded(k, who) => Upgraded(l, who)
    BY DEF Upgraded, Minor
  <2>5. k.request \in Requests[c]
    BY <1>1 DEF Sound
  <2>6. ~l.posted
    BY <2>1 DEF Minor, Connection
  <2>7. QED
    BY <2>1, <2>2, <2>3, <2>4, <2>5, <2>6 DEF Sound
<1>2. CASE k.stage # "done"
  <2>1. l.ws = "none" /\ l.answer = <<>> /\ l.heard = Nothing /\ ~Servable(l)
    BY <1>2 DEF Sound, Minor, Servable, Nothing, EmptyLine
  <2>2. l.stage # "none" => l.request \in Requests[c]
    BY <1>2 DEF Sound, Minor
  <2>3. l.answer # <<101>> /\ l.answer # <<101, 400>>
    BY <2>1
  <2>4. QED
    BY <2>1, <2>2, <2>3 DEF Sound, Minor
<1>3. QED
  BY <1>1, <1>2

(* A step that does nothing more to any connection.                        *)
MinorStep ==
    /\ conn' = [c \in Conns |-> conn'[c]]
    /\ \A c \in Conns : Minor(conn[c], conn'[c])
    /\ nameBreaks' = nameBreaks /\ user' = user
    /\ ErrorSet => ErrorSet'

LEMMA MinorKeeps ==
    ASSUME ConnsInv, MinorStep
    PROVE  /\ conn' = [c \in Conns |-> conn'[c]]
           /\ \A c \in Conns : Sound(c, conn'[c], nameBreaks', user', ErrorSet')
           /\ \A c \in Conns : conn[c].ws # "none" => conn'[c].ws # "none"
<1>1. ASSUME NEW c \in Conns PROVE Sound(c, conn'[c], nameBreaks', user', ErrorSet')
  <2>1. Sound(c, conn[c], nameBreaks, user, ErrorSet) /\ Minor(conn[c], conn'[c])
    BY DEF ConnsInv, MinorStep
  <2>2. (ErrorSet => ErrorSet') /\ nameBreaks' = nameBreaks /\ user' = user
    BY DEF MinorStep
  <2>3. QED
    BY <2>1, <2>2, MinorSound
<1>2. \A c \in Conns : conn[c].ws # "none" => conn'[c].ws # "none"
  BY DEF MinorStep, Minor
<1>3. QED
  BY <1>1, <1>2 DEF MinorStep

LEMMA SameIsMinor ==
    ASSUME NEW c, NEW k, NEW breaks, NEW who, NEW erred, Sound(c, k, breaks, who, erred)
    PROVE  Minor(k, k)
BY DEF Sound, Minor

LEMMA MinorAgain ==
    ASSUME NEW k, NEW l, NEW m, Minor(k, l), Minor(l, m)
    PROVE  Minor(k, m)
BY DEF Minor

(* Changes of one field that are minor.                                    *)
LEMMA MinorFields ==
    ASSUME NEW k \in Connection, Minor(k, k)
    PROVE  /\ k.stage # "none" =>
                \A s \in {"none", "open", "closing", "gone", "deleted"} : Minor(k, [k EXCEPT !.sock = s])
           /\ k.stage # "none" => \A b \in BOOLEAN : Minor(k, [k EXCEPT !.doomed = b])
           /\ \A b \in BOOLEAN : Minor(k, [k EXCEPT !.linked = b])
           /\ \A b \in BOOLEAN : (b => k.stage = "handshake") => Minor(k, [k EXCEPT !.posted = b])
           /\ \A g \in {Nothing, FirstLine, EmptyLine} : Minor(k, [k EXCEPT !.got = g])
           /\ \A t \in {"none", "running", "done"} : Minor(k, [k EXCEPT !.tls = t])
           /\ k.ws # "none" => \A w \in {"taken", "deleted"} : Minor(k, [k EXCEPT !.ws = w])
           /\ k.stage # "none" /\ ~k.posted => Minor(k, [k EXCEPT !.stage = "done"])
           /\ k.stage = "waiting" => Minor(k, [k EXCEPT !.stage = "handshake"])
<1>1. k.stage # "none" =>
                \A s \in {"none", "open", "closing", "gone", "deleted"} : Minor(k, [k EXCEPT !.sock = s])
  BY DEF Minor, Connection
<1>2. k.stage # "none" => \A b \in BOOLEAN : Minor(k, [k EXCEPT !.doomed = b])
  BY DEF Minor, Connection
<1>3. \A b \in BOOLEAN : Minor(k, [k EXCEPT !.linked = b])
  BY DEF Minor, Connection
<1>4. \A b \in BOOLEAN : (b => k.stage = "handshake") => Minor(k, [k EXCEPT !.posted = b])
  BY DEF Minor, Connection
<1>5. \A g \in {Nothing, FirstLine, EmptyLine} : Minor(k, [k EXCEPT !.got = g])
  BY DEF Minor, Connection
<1>6. \A t \in {"none", "running", "done"} : Minor(k, [k EXCEPT !.tls = t])
  BY DEF Minor, Connection
<1>7. k.ws # "none" => \A w \in {"taken", "deleted"} : Minor(k, [k EXCEPT !.ws = w])
  BY DEF Minor, Connection
<1>8. k.stage # "none" /\ ~k.posted => Minor(k, [k EXCEPT !.stage = "done"])
  BY DEF Minor, Connection
<1>9. k.stage = "waiting" => Minor(k, [k EXCEPT !.stage = "handshake"])
  BY DEF Minor, Connection
<1>10. QED
  BY <1>1, <1>2, <1>3, <1>4, <1>5, <1>6, <1>7, <1>8, <1>9

LEMMA MinorSelf ==
    ASSUME NEW k, NEW l, Minor(k, l)
    PROVE  /\ l \in Connection /\ Minor(l, l)
           /\ k.stage # "none" => l.stage # "none"
           /\ k.ws # "none" => l.ws # "none"
BY DEF Minor

(* Closing a socket, and deleting a web socket, are minor.                 *)
LEMMA CloseOfType ==
    ASSUME NEW s \in {"none", "open", "closing", "gone", "deleted"}
    PROVE  CloseOf(s) \in {"none", "open", "closing", "gone", "deleted"}
BY DEF CloseOf

LEMMA ReleasedMinor ==
    ASSUME NEW k \in Connection, Minor(k, k), k.ws # "none", k.stage # "none",
           NEW flushed \in BOOLEAN
    PROVE  Minor(k, Released(k, flushed))
<1>1. PICK b \in BOOLEAN : b = (k.doomed \/ (k.sock = "open" /\ flushed /\ k.linked))
  OBVIOUS
<1>2. PICK s \in {"none", "open", "closing", "gone", "deleted"} :
          s = IF k.sock = "open" /\ flushed THEN "gone" ELSE CloseOf(k.sock)
  <2>1. k.sock \in {"none", "open", "closing", "gone", "deleted"}
    BY DEF Connection
  <2>2. QED
    BY <2>1, CloseOfType
<1> DEFINE l1 == [k EXCEPT !.ws = "deleted"]
           l2 == [l1 EXCEPT !.sock = s]
           l3 == [l2 EXCEPT !.doomed = b]
           l4 == [l3 EXCEPT !.linked = FALSE]
<1>3. Minor(k, l1)
  BY MinorFields
<1>4. l1.sock = k.sock /\ l1.doomed = k.doomed
  BY DEF Connection
<1> HIDE DEF l1
<1>5. Minor(l1, l2) /\ l2.doomed = l1.doomed
  <2>1. l1 \in Connection /\ Minor(l1, l1) /\ l1.stage # "none"
    BY <1>3, MinorSelf
  <2>2. l2.doomed = l1.doomed
    BY <2>1 DEF Connection
  <2>3. QED
    BY <2>1, <2>2, MinorFields
<1> HIDE DEF l2
<1>6. Minor(l2, l3)
  <2>1. l2 \in Connection /\ Minor(l2, l2) /\ l2.stage # "none"
    BY <1>3, <1>5, MinorSelf
  <2>2. QED
    BY <2>1, MinorFields
<1> HIDE DEF l3
<1>7. Minor(l3, l4)
  <2>1. l3 \in Connection /\ Minor(l3, l3)
    BY <1>6, MinorSelf
  <2>2. QED
    BY <2>1, MinorFields
<1> HIDE DEF l4
<1>8. Minor(k, l4)
  BY <1>3, <1>5, <1>6, <1>7, MinorAgain
<1>9. Released(k, flushed) = l4
  BY <1>1, <1>2, <1>4, <1>5 DEF Released, l4, l3, l2, l1
<1>10. QED
  BY <1>8, <1>9

LEMMA MinorAt ==
    ASSUME ConnsInv, NEW c \in Conns, NEW l, Minor(conn[c], l),
           conn' = [conn EXCEPT ![c] = l],
           nameBreaks' = nameBreaks, user' = user, ErrorSet => ErrorSet'
    PROVE  MinorStep
<1>1. conn = [b \in Conns |-> conn[b]]
  BY DEF ConnsInv
<1>2. \A b \in Conns : Minor(conn[b], conn[b])
  BY SameIsMinor DEF ConnsInv
<1>3. conn' = [b \in Conns |-> conn'[b]] /\ \A b \in Conns : conn'[b] = IF b = c THEN l ELSE conn[b]
  BY <1>1
<1>4. QED
  BY <1>2, <1>3 DEF MinorStep

(* The steps of one connection that are minor.                             *)
LEMMA ConnSteps ==
    ASSUME ConnsInv, NEW c \in Conns,
           \/ Encrypted(c) \/ PeerCloses(c) \/ Arrive(c) \/ SocketEnds(c) \/ DeleteSocket(c)
           \/ CloseWebSocket(c) \/ DeleteWebSocket(c)
    PROVE  MinorStep /\ UNCHANGED pending
<1> DEFINE k == conn[c]
<1>1. Sound(c, k, nameBreaks, user, ErrorSet)
  BY DEF ConnsInv
<1>2. /\ k \in Connection /\ Minor(k, k)
      /\ k.sock # "none" \/ k.doomed \/ k.ws # "none" => k.stage # "none"
      /\ k.posted => k.stage = "handshake"
  BY <1>1, SameIsMinor DEF Sound
<1>3. UNCHANGED <<pending, user, error, nameBreaks>>
  BY DEF Encrypted, PeerCloses, Arrive, SocketEnds, DeleteSocket, CloseWebSocket,
         DeleteWebSocket, serverVars
<1>4. ErrorSet => ErrorSet'
  BY <1>3 DEF ErrorSet
<1>5. \E l : Minor(k, l) /\ conn' = [conn EXCEPT ![c] = l]
  <2>1. CASE Encrypted(c)
    BY <1>2, <2>1, MinorFields DEF Encrypted
  <2>2. CASE PeerCloses(c) \/ SocketEnds(c)
    <3>1. PICK b \in BOOLEAN : b = (k.doomed \/ k.linked)
      OBVIOUS
    <3> DEFINE l1 == [k EXCEPT !.sock = "gone"]
               l2 == [l1 EXCEPT !.doomed = b]
    <3>2. k.stage # "none"
      BY <1>2, <2>2 DEF PeerCloses, SocketEnds
    <3>3. Minor(k, l1)
      BY <1>2, <3>2, MinorFields
    <3>4. l1.doomed = k.doomed
      BY <1>2 DEF Connection
    <3>5. conn' = [conn EXCEPT ![c] = l2]
      BY <2>2, <3>1, <3>4 DEF PeerCloses, SocketEnds
    <3> HIDE DEF l1
    <3>6. Minor(l1, l2)
      BY <3>2, <3>3, MinorSelf, MinorFields
    <3>7. QED
      BY <3>3, <3>5, <3>6, MinorAgain
  <2>3. CASE Arrive(c)
    <3>1. PICK b \in BOOLEAN : b = (k.stage = "handshake")
      OBVIOUS
    <3>2. PICK g \in (k.got + 1)..EmptyLine :
              conn' = [conn EXCEPT ![c] = [k EXCEPT !.got = g, !.posted = b]]
      BY <2>3, <3>1 DEF Arrive
    <3>3. g \in {Nothing, FirstLine, EmptyLine}
      BY <1>2, <3>2 DEF Connection, Nothing, FirstLine, EmptyLine
    <3> DEFINE l1 == [k EXCEPT !.got = g]
               l2 == [l1 EXCEPT !.posted = b]
    <3>4. Minor(k, l1)
      BY <1>2, <3>3, MinorFields
    <3>5. conn' = [conn EXCEPT ![c] = l2] /\ l1.stage = k.stage
      BY <1>2, <3>2 DEF Connection
    <3> HIDE DEF l1
    <3>6. Minor(l1, l2)
      BY <3>1, <3>4, <3>5, MinorSelf, MinorFields
    <3>7. QED
      BY <3>4, <3>5, <3>6, MinorAgain
  <2>4. CASE DeleteSocket(c)
    BY <1>2, <2>4, MinorFields DEF DeleteSocket
  <2>5. CASE CloseWebSocket(c)
    BY <1>2, <2>5, MinorFields DEF CloseWebSocket
  <2>6. CASE DeleteWebSocket(c)
    <3>1. PICK flushed \in BOOLEAN : conn' = [conn EXCEPT ![c] = Released(k, flushed)]
      BY <2>6 DEF DeleteWebSocket
    <3>2. k.ws # "none"
      BY <2>6 DEF DeleteWebSocket
    <3>3. QED
      BY <1>2, <3>1, <3>2, ReleasedMinor
  <2>7. QED
    BY <2>1, <2>2, <2>3, <2>4, <2>5, <2>6
<1>6. QED
  BY <1>3, <1>4, <1>5, MinorAt

LEMMA QueueTail ==
    ASSUME NEW s \in Seq(Conns), s # <<>>
    PROVE  /\ Tail(s) \in Seq(Conns)
           /\ \A i \in DOMAIN Tail(s) : \E j \in DOMAIN s : Tail(s)[i] = s[j]
           /\ Head(s) \in Conns /\ \E j \in DOMAIN s : Head(s) = s[j]
           /\ \A j \in DOMAIN s : s[j] \in Conns
<1>1. Tail(s) \in Seq(Conns) /\ Len(Tail(s)) = Len(s) - 1 /\ Len(s) \in Nat \ {0}
      /\ DOMAIN s = 1..Len(s)
  OBVIOUS
<1>2. \A i \in 1..Len(Tail(s)) : i + 1 \in DOMAIN s /\ Tail(s)[i] = s[i + 1]
  BY <1>1
<1>3. Head(s) = s[1] /\ 1 \in DOMAIN s
  BY <1>1
<1>4. \A j \in DOMAIN s : s[j] \in Conns
  OBVIOUS
<1>5. DOMAIN Tail(s) = 1..Len(Tail(s))
  BY <1>1
<1>6. QED
  BY <1>1, <1>2, <1>3, <1>4, <1>5

(* After a minor step the queue still holds connections that were made.    *)
LEMMA MinorInv ==
    ASSUME ConnsInv, MinorStep,
           \/ UNCHANGED pending
           \/ pending' = <<>>
           \/ pending # <<>> /\ pending' = Tail(pending)
    PROVE  ConnsInv'
<1>1. pending \in Seq(Conns) /\ \A i \in DOMAIN pending : conn[pending[i]].ws # "none"
  BY DEF ConnsInv
<1>2. pending' \in Seq(Conns) /\ \A i \in DOMAIN pending' : \E j \in DOMAIN pending : pending'[i] = pending[j]
  <2>1. CASE UNCHANGED pending
    BY <1>1, <2>1
  <2>2. CASE pending' = <<>>
    BY <2>2
  <2>3. CASE pending # <<>> /\ pending' = Tail(pending)
    BY <1>1, <2>3, QueueTail
  <2>4. QED
    BY <2>1, <2>2, <2>3
<1>3. \A i \in DOMAIN pending' : conn'[pending'[i]].ws # "none"
  <2>1. \A j \in DOMAIN pending : pending[j] \in Conns
    BY <1>1
  <2>2. QED
    BY <1>1, <1>2, <2>1, MinorKeeps
<1>4. QED
  BY <1>2, <1>3, MinorKeeps DEF ConnsInv

(* Steps of all connections at once.                                       *)
LEMMA AllMinor ==
    ASSUME ConnsInv
    PROVE  /\ conn = [c \in Conns |-> conn[c]]
           /\ \A c \in Conns :
                 /\ conn[c] \in Connection /\ Minor(conn[c], conn[c])
                 /\ conn[c].sock # "none" \/ conn[c].ws # "none" => conn[c].stage # "none"
                 /\ InPending(c) => conn[c].ws # "none"
                 /\ conn[c].posted => conn[c].stage = "handshake"
<1>1. \A c \in Conns : Sound(c, conn[c], nameBreaks, user, ErrorSet)
  BY DEF ConnsInv
<1>2. conn = [c \in Conns |-> conn[c]]
  BY DEF ConnsInv
<1>3. ASSUME NEW c \in Conns
      PROVE  /\ conn[c] \in Connection /\ Minor(conn[c], conn[c])
             /\ conn[c].sock # "none" \/ conn[c].ws # "none" => conn[c].stage # "none"
             /\ conn[c].posted => conn[c].stage = "handshake"
  BY <1>1, SameIsMinor DEF Sound
<1>4. \A c \in Conns : InPending(c) => conn[c].ws # "none"
  BY DEF ConnsInv, InPending
<1>5. QED
  BY <1>2, <1>3, <1>4

LEMMA DrainMinor ==
    ASSUME ConnsInv, onNewConnection
    PROVE  ConnsInv'
<1>1. UNCHANGED <<user, nameBreaks, error, pending>>
  BY DEF onNewConnection, serverVars
<1>2. ASSUME NEW c \in Conns PROVE Minor(conn[c], conn'[c])
  <2>1. CASE c \in Backlog
    <3> DEFINE l1 == [conn[c] EXCEPT !.stage = "handshake"]
               l2 == [l1 EXCEPT !.linked = TRUE]
    <3>1. conn'[c] = l2
      BY <2>1 DEF onNewConnection
    <3>2. Minor(conn[c], l1)
      BY <2>1, AllMinor, MinorFields DEF Backlog
    <3> HIDE DEF l1
    <3>3. Minor(l1, l2)
      BY <3>2, MinorSelf, MinorFields
    <3>4. QED
      BY <3>1, <3>2, <3>3, MinorAgain
  <2>2. CASE c \notin Backlog
    BY <2>2, AllMinor DEF onNewConnection
  <2>3. QED
    BY <2>1, <2>2
<1>3. conn' = [c \in Conns |-> conn'[c]]
  BY DEF onNewConnection
<1>4. MinorStep
  BY <1>1, <1>2, <1>3 DEF MinorStep, ErrorSet
<1>5. QED
  BY <1>1, <1>4, MinorInv

LEMMA CloseMinor ==
    ASSUME ConnsInv, NEW flushed \in BOOLEAN, CloseServer(flushed),
           UNCHANGED <<user, nameBreaks, error>>
    PROVE  ConnsInv'
<1>1. ASSUME NEW c \in Conns PROVE Minor(conn[c], conn'[c])
  <2>1. CASE InPending(c)
    BY <2>1, AllMinor, ReleasedMinor DEF CloseServer
  <2>2. CASE ~InPending(c) /\ c \in Backlog
    <3> DEFINE l1 == [conn[c] EXCEPT !.sock = "deleted"]
               l2 == [l1 EXCEPT !.stage = "done"]
    <3>1. conn'[c] = l2
      BY <2>2 DEF CloseServer
    <3>2. Minor(conn[c], l1)
      BY <2>2, AllMinor, MinorFields DEF Backlog
    <3>3. l1.posted = conn[c].posted
      BY AllMinor DEF Connection
    <3>4. ~conn[c].posted /\ conn[c].stage # "none"
      BY <2>2, AllMinor DEF Backlog
    <3> HIDE DEF l1
    <3>5. Minor(l1, l2)
      BY <3>2, <3>3, <3>4, MinorSelf, MinorFields
    <3>6. QED
      BY <3>1, <3>2, <3>5, MinorAgain
  <2>3. CASE ~InPending(c) /\ c \notin Backlog
    BY <2>3, AllMinor DEF CloseServer
  <2>4. QED
    BY <2>1, <2>2, <2>3
<1>2. conn' = [c \in Conns |-> conn'[c]]
  BY DEF CloseServer
<1>3. MinorStep
  BY <1>1, <1>2 DEF MinorStep, ErrorSet
<1>4. QED
  BY <1>3, MinorInv DEF CloseServer

LEMMA TakeMinor ==
    ASSUME ConnsInv, nextPendingConnection
    PROVE  ConnsInv'
<1> DEFINE c == Head(pending)
<1>1. pending \in Seq(Conns) /\ pending # <<>> /\ pending' = Tail(pending)
  BY DEF ConnsInv, nextPendingConnection
<1>2. c \in Conns /\ conn[c].ws # "none"
  BY <1>1, QueueTail DEF ConnsInv
<1>3. conn' = [conn EXCEPT ![c] = [conn[c] EXCEPT !.ws = "taken"]]
      /\ UNCHANGED <<nameBreaks, error, user>>
  BY DEF nextPendingConnection
<1>4. Minor(conn[c], [conn[c] EXCEPT !.ws = "taken"])
  BY <1>2, AllMinor, MinorFields
<1>5. MinorStep
  BY <1>2, <1>3, <1>4, MinorAt DEF ErrorSet
<1>6. QED
  BY <1>1, <1>5, MinorInv

(* A connection that comes in.                                             *)
LEMMA ConnectInv ==
    ASSUME ConnsInv, NEW c \in Conns, Connect(c)
    PROVE  ConnsInv'
<1>1. PICK r \in Requests[c] :
          conn' = [conn EXCEPT ![c] = [Fresh EXCEPT
                     !.request = r, !.sock = "open",
                     !.stage = IF secure THEN "waiting" ELSE "handshake",
                     !.linked = ~secure,
                     !.tls = IF secure THEN "running" ELSE "none"]]
  BY DEF Connect
<1>2. conn[c].stage = "none" /\ UNCHANGED <<pending, user, error, nameBreaks>>
  BY DEF Connect, serverVars
<1>3. conn = [b \in Conns |-> conn[b]]
  BY DEF ConnsInv
<1>4. conn' = [b \in Conns |-> conn'[b]] /\ \A b \in Conns : b # c => conn'[b] = conn[b]
  BY <1>1, <1>3
<1>5. PICK linked \in BOOLEAN : linked = ~secure
  OBVIOUS
<1> DEFINE l == [stage |-> IF secure THEN "waiting" ELSE "handshake",
                 tls |-> IF secure THEN "running" ELSE "none",
                 sock |-> "open", request |-> r, got |-> Nothing,
                 posted |-> FALSE, linked |-> linked, doomed |-> FALSE, heard |-> Nothing,
                 answer |-> <<>>, ws |-> "none"]
<1>6. conn'[c] = l
  BY <1>1, <1>3, <1>5 DEF Fresh
<1>7. l \in Connection
  BY DEF Connection
<1>8. Sound(c, l, nameBreaks, user, ErrorSet)
  BY <1>7 DEF Sound, Servable
<1>9. conn[c].ws = "none"
  BY <1>2 DEF ConnsInv, Sound
<1>10. \A b \in Conns : Sound(b, conn'[b], nameBreaks', user', ErrorSet')
  <2>1. nameBreaks' = nameBreaks /\ user' = user /\ ErrorSet' = ErrorSet
    BY <1>2 DEF ErrorSet
  <2>2. QED
    BY <1>4, <1>6, <1>8, <2>1 DEF ConnsInv
<1>11. \A i \in DOMAIN pending : pending[i] \in Conns /\ pending[i] # c
  <2>1. pending \in Seq(Conns) /\ \A i \in DOMAIN pending : conn[pending[i]].ws # "none"
    BY DEF ConnsInv
  <2>2. QED
    BY <1>9, <2>1, ElementOfSeq
<1>12. QED
  BY <1>2, <1>4, <1>10, <1>11 DEF ConnsInv

-----------------------------------------------------------------------------
(* The handshake.                                                          *)

(* What the server makes of a request, whatever part of it has arrived.    *)
LEMMA Reads ==
    ASSUME NEW c \in Conns, NEW r \in Requests[c], NEW got \in {Nothing, FirstLine, EmptyLine}
    PROVE  LET q == readHandshake(r, got)
           IN  /\ q.valid => Readable(r) /\ got = EmptyLine /\ q.origin = r.origin
               /\ q.valid /\ 13 \in q.versions => ToleratedRequest(r)
               /\ LegalRequest(r) /\ Readable(r) /\ got = EmptyLine
                  => q.valid /\ 13 \in q.versions
<1>1. /\ r.words \in Nat /\ r.http \in Int /\ r.lines \in Nat
      /\ r.uri \in {"relative", "", "host"} /\ r.host \in {"", "host", "user@host"}
  BY RequestsAssumption DEF RequestsAssumption
<1>2. MaxHeaderLines \in Nat
  BY MaxHeaderLinesAssumption DEF MaxHeaderLinesAssumption
<1> DEFINE q == readHandshake(r, got)
           versions == {r.versions[i] : i \in DOMAIN r.versions}
           host == RequestHost(r)
<1>3. ASSUME q.valid
      PROVE  /\ ~Unreadable(r, got) /\ host # "" /\ r.key # "" /\ r.verb = "GET" /\ ~(r.http < 11)
             /\ r.upgrade /\ r.connection
             /\ q = [valid |-> TRUE, versions |-> versions, origin |-> r.origin]
  BY <1>3 DEF readHandshake, Invalid
<1>4. ASSUME ~Unreadable(r, got)
      PROVE  /\ r.words >= 3 /\ got = EmptyLine /\ Readable(r)
             /\ ~(r.uri = "relative" /\ r.host = "user@host")
  <2>1. /\ ~(r.words < 3) /\ ~(got < EmptyLine) /\ r.fields /\ ~r.long
        /\ ~(r.lines > MaxHeaderLines) /\ ~(r.uri = "relative" /\ r.host = "user@host")
        /\ \A i \in DOMAIN r.versions : r.versions[i] # NoNumber
    BY <1>4, Zenon DEF Unreadable
  <2>2. r.words >= 3 /\ r.lines <= MaxHeaderLines
    <3> DEFINE w == r.words
               m == r.lines
    <3>1. w \in Nat /\ ~(w < 3) /\ m \in Nat /\ ~(m > MaxHeaderLines)
      BY <1>1, <2>1
    <3> HIDE DEF w, m
    <3>2. w >= 3 /\ m <= MaxHeaderLines
      BY <1>2, <3>1
    <3>3. QED
      BY <3>2 DEF w, m
  <2>3. got = EmptyLine
    BY <2>1 DEF Nothing, FirstLine, EmptyLine
  <2>4. Readable(r)
    BY <2>1, <2>2, Zenon DEF Readable
  <2>5. QED
    BY <2>1, <2>2, <2>3, <2>4
<1>5. ASSUME q.valid
      PROVE  /\ Readable(r) /\ got = EmptyLine
             /\ q.origin = r.origin /\ q.versions = versions
  <2>1. q.origin = r.origin /\ q.versions = versions
    <3>1. q = [valid |-> TRUE, versions |-> versions, origin |-> r.origin]
      BY <1>3, <1>5, Zenon
    <3> HIDE DEF q, versions
    <3>2. QED
      BY <3>1
  <2>2. ~Unreadable(r, got)
    BY <1>3, <1>5, Zenon
  <2>3. QED
    BY <1>4, <2>1, <2>2, Zenon
<1>6. ASSUME q.valid, 13 \in q.versions
      PROVE  ToleratedRequest(r)
  <2>1. r.key # "" /\ r.verb = "GET" /\ ~(r.http < 11) /\ r.upgrade /\ r.connection /\ host # ""
        /\ ~Unreadable(r, got)
    BY <1>3, <1>6, Zenon
  <2>2. r.http >= 11
    <3> DEFINE v == r.http
    <3>1. v \in Int /\ ~(v < 11)
      BY <1>1, <2>1
    <3> HIDE DEF v
    <3>2. v >= 11
      BY <3>1
    <3>3. QED
      BY <3>2 DEF v
  <2>3. host = "host"
    <3>1. host = IF r.uri = "relative" THEN r.host ELSE r.uri
      BY DEF RequestHost
    <3>2. ~(r.uri = "relative" /\ r.host = "user@host")
      BY <1>4, <2>1, Zenon
    <3> HIDE DEF host
    <3>3. QED
      BY <1>1, <2>1, <3>1, <3>2
  <2>4. \E i \in DOMAIN r.versions : r.versions[i] = 13
    <3>1. 13 \in versions
      BY <1>5, <1>6
    <3>2. QED
      BY <3>1 DEF versions
  <2>5. r.words >= 3
    BY <1>4, <2>1, Zenon
  <2>6. AsksToUpgrade(r)
    BY <2>1, <2>2, <2>4, <2>5, Zenon DEF AsksToUpgrade
  <2>7. QED
    BY <2>1, <2>3, <2>6, Zenon DEF ToleratedRequest
<1>7. ASSUME LegalRequest(r), Readable(r), got = EmptyLine
      PROVE  q.valid /\ 13 \in q.versions
  <2>1. /\ AsksToUpgrade(r) /\ r.uri # "" /\ r.host = "host" /\ r.key = "nonce"
    BY <1>7, Zenon DEF LegalRequest
  <2>2. /\ r.words >= 3 /\ r.verb = "GET" /\ r.http >= 11 /\ r.upgrade /\ r.connection
        /\ \E i \in DOMAIN r.versions : r.versions[i] = 13
    BY <2>1, Zenon DEF AsksToUpgrade
  <2>3. /\ r.fields /\ ~r.long /\ r.lines <= MaxHeaderLines
        /\ \A i \in DOMAIN r.versions : r.versions[i] # NoNumber
    BY <1>7, Zenon DEF Readable
  <2>4. ~(r.words < 3) /\ ~(r.http < 11) /\ ~(r.lines > MaxHeaderLines) /\ r.http # NoNumber
    <3> DEFINE w == r.words
               v == r.http
               m == r.lines
    <3>1. w \in Nat /\ v \in Int /\ m \in Nat /\ w >= 3 /\ v >= 11 /\ m <= MaxHeaderLines
      BY <1>1, <2>2, <2>3
    <3> HIDE DEF w, v, m
    <3>2. ~(w < 3) /\ ~(v < 11) /\ ~(m > MaxHeaderLines) /\ v # NoNumber
      BY <1>2, <3>1 DEF NoNumber
    <3>3. QED
      BY <3>2 DEF w, v, m
  <2>5. ~(got < EmptyLine)
    BY <1>7 DEF EmptyLine
  <2>6. ~Unreadable(r, got)
    <3>1. r.host # "user@host"
      BY <2>1
    <3>2. QED
      BY <2>3, <2>4, <2>5, <3>1, Zenon DEF Unreadable
  <2>7. r.versions # <<>>
    BY <2>2
  <2>8. host # ""
    BY <2>1 DEF RequestHost
  <2>9. q = [valid |-> TRUE, versions |-> versions, origin |-> r.origin]
    <3>1. r.key # ""
      BY <2>1
    <3>2. QED
      BY <2>2, <2>4, <2>6, <2>7, <2>8, <3>1, Zenon DEF readHandshake
  <2>10. 13 \in versions
    BY <2>2 DEF versions
  <2> HIDE DEF q, versions
  <2>11. QED
    BY <2>9, <2>10
<1>8. QED
  BY <1>5, <1>6, <1>7, Zenon

\* The status lines of an answer, if there is one.
Lines == {<<>>, <<400>>, <<403>>, <<101>>, <<101, 400>>}

\* What the answer a to the request r promises, of which got has arrived and
\* which was read as q.
Answered(r, got, q, a, breaks, who) ==
    /\ a.lines \in {<<400>>, <<403>>, <<101>>, <<101, 400>>}
    /\ a.canUpgrade => /\ a.lines = <<101>> /\ ToleratedRequest(r) /\ Readable(r)
                       /\ Allows(who, r.origin) /\ got = EmptyLine
    /\ ~a.canUpgrade => a.error # "normal" /\ a.lines # <<101>>
    /\ a.lines = <<101, 400>> => breaks
    /\ LegalRequest(r) /\ Readable(r) /\ got = EmptyLine
       => /\ q.valid
          /\ ~a.canUpgrade => /\ a.lines \in {<<403>>, <<101, 400>>}
                              /\ a.lines = <<403>> => ~Allows(who, r.origin)

LEMMA Answers ==
    ASSUME NEW c \in Conns, NEW r \in Requests[c], NEW got \in {Nothing, FirstLine, EmptyLine},
           NEW breaks, NEW who
    PROVE  LET q == readHandshake(r, got)
           IN  Answered(r, got, q, getHandshakeResponse(q, Allows(who, q.origin), breaks),
                        breaks, who)
<1> DEFINE q == readHandshake(r, got)
           a == getHandshakeResponse(q, Allows(who, q.origin), breaks)
<1>1. \/ /\ ~Allows(who, q.origin)
         /\ a = [lines |-> <<403>>, canUpgrade |-> FALSE, error |-> "policy"]
      \/ /\ ~q.valid \/ 13 \notin q.versions
         /\ a = [lines |-> <<400>>, canUpgrade |-> FALSE, error |-> "protocol"]
      \/ /\ breaks
         /\ a = [lines |-> <<101, 400>>, canUpgrade |-> FALSE, error |-> "abnormal"]
      \/ /\ Allows(who, q.origin) /\ q.valid /\ 13 \in q.versions
         /\ a = [lines |-> <<101>>, canUpgrade |-> TRUE, error |-> "normal"]
  BY DEF getHandshakeResponse, supportedVersions
<1> HIDE DEF a
<1>2. q.valid => Readable(r) /\ got = EmptyLine /\ q.origin = r.origin
  BY Reads
<1>3. q.valid /\ 13 \in q.versions => ToleratedRequest(r)
  BY Reads
<1>4. LegalRequest(r) /\ Readable(r) /\ got = EmptyLine => q.valid /\ 13 \in q.versions
  BY Reads
<1> HIDE DEF q
<1>6. a.lines \in {<<400>>, <<403>>, <<101>>, <<101, 400>>}
      /\ (a.lines = <<101, 400>> => breaks)
  BY <1>1
<1>7. ~a.canUpgrade => a.error # "normal" /\ a.lines # <<101>>
  BY <1>1
<1>8. a.canUpgrade => a.lines = <<101>> /\ q.valid /\ 13 \in q.versions /\ Allows(who, q.origin)
  BY <1>1
<1>9. ASSUME q.valid, 13 \in q.versions, ~a.canUpgrade
      PROVE  a.lines \in {<<403>>, <<101, 400>>}
             /\ (a.lines = <<403>> => ~Allows(who, q.origin))
  BY <1>1, <1>9
<1>10. Answered(r, got, q, a, breaks, who)
  BY <1>2, <1>3, <1>4, <1>6, <1>7, <1>8, <1>9 DEF Answered
<1>11. QED
  BY <1>10 DEF q, a

-----------------------------------------------------------------------------
(* A handshake that is handled.                                            *)

\* The record of a connection whose handshake was handled with this result.
Handled(l, request, heard, answer, ws) ==
    /\ l \in Connection
    /\ l.stage = "done" /\ ~l.posted
    /\ l.request = request /\ l.heard = heard /\ l.answer = answer /\ l.ws = ws

(* What handling a handshake changes first, ...                            *)
LEMMA HandledFirst ==
    ASSUME NEW k \in Connection
    PROVE  Handled(Heard(k), k.request, k.got, k.answer, k.ws)
<1>0. PICK no \in BOOLEAN : no = FALSE
  OBVIOUS
<1> DEFINE k1 == [k EXCEPT !.posted = no]
           k2 == [k1 EXCEPT !.stage = "done"]
           k3 == [k2 EXCEPT !.heard = k.got]
<1>1. k1 \in Connection /\ k1.posted = no /\ k1.request = k.request /\ k1.answer = k.answer
      /\ k1.ws = k.ws /\ k1.got = k.got
  BY DEF Connection
<1> HIDE DEF k1
<1>2. k2 \in Connection /\ k2.posted = k1.posted /\ k2.request = k1.request /\ k2.answer = k1.answer
      /\ k2.ws = k1.ws /\ k2.stage = "done"
  BY <1>1 DEF Connection
<1> HIDE DEF k2
<1>3. k.got \in {Nothing, FirstLine, EmptyLine}
  BY DEF Connection
<1>4. k3 \in Connection /\ k3.posted = k2.posted /\ k3.request = k2.request /\ k3.answer = k2.answer
      /\ k3.ws = k2.ws /\ k3.stage = "done" /\ k3.heard = k.got
  BY <1>2, <1>3 DEF Connection
<1> HIDE DEF k3
<1>5. Handled(k3, k.request, k.got, k.answer, k.ws)
  BY <1>0, <1>1, <1>2, <1>4 DEF Handled
<1>6. k3 = Heard(k)
  BY <1>0 DEF k3, k2, k1, Heard
<1>7. QED
  BY <1>5, <1>6

(* ... and what it changes then.                                           *)
LEMMA HandledSock ==
    ASSUME NEW k, NEW r, NEW g, NEW a, NEW w, Handled(k, r, g, a, w),
           NEW s \in {"none", "open", "closing", "gone", "deleted"}
    PROVE  Handled([k EXCEPT !.sock = s], r, g, a, w)
BY DEF Handled, Connection

LEMMA HandledAnswer ==
    ASSUME NEW k, NEW r, NEW g, NEW a, NEW w, Handled(k, r, g, a, w),
           NEW b \in Lines
    PROVE  Handled([k EXCEPT !.answer = b], r, g, b, w)
BY DEF Handled, Connection, Lines

LEMMA HandledWs ==
    ASSUME NEW k, NEW r, NEW g, NEW a, NEW w, Handled(k, r, g, a, w),
           NEW v \in {"none", "pending", "taken", "lost", "deleted"}
    PROVE  Handled([k EXCEPT !.ws = v], r, g, a, v)
BY DEF Handled, Connection

LEMMA HandledDoomed ==
    ASSUME NEW k, NEW r, NEW g, NEW a, NEW w, Handled(k, r, g, a, w)
    PROVE  Handled([k EXCEPT !.doomed = TRUE], r, g, a, w)
<1> DEFINE l == [k EXCEPT !.doomed = TRUE]
<1>1. k \in Connection /\ k.stage = "done" /\ ~k.posted /\ k.request = r /\ k.heard = g
      /\ k.answer = a /\ k.ws = w
  BY DEF Handled
<1>2. \A b \in BOOLEAN : [k EXCEPT !.doomed = b] \in Connection
  BY <1>1 DEF Connection
<1>3. l.posted = k.posted
  BY <1>1 DEF Connection
<1>4. l.stage = k.stage /\ l.request = k.request /\ l.heard = k.heard /\ l.answer = k.answer
      /\ l.ws = k.ws
  BY <1>1 DEF Connection
<1>5. QED
  BY <1>1, <1>2, <1>3, <1>4 DEF Handled

(* The result is sound if the answer is.                                   *)
LEMMA HandledSound ==
    ASSUME NEW c \in Conns, NEW l, NEW r \in Requests[c], NEW g, NEW a, NEW w, NEW breaks, NEW who,
           NEW erred,
           Handled(l, r, g, a, w),
           w # "none" => a = << 101 >>,
           a = << 101 >> => /\ w \in {"pending", "taken", "deleted"}
                            /\ ToleratedRequest(r) /\ Readable(r)
                            /\ Allows(who, r.origin) /\ g = EmptyLine,
           a = << 101, 400 >> => breaks,
           /\ LegalRequest(r) /\ Readable(r) /\ g = EmptyLine /\ w = "none"
              => /\ a \in {<<>>, << 403 >>, << 101, 400 >>}
                 /\ a = << 403 >> => ~Allows(who, r.origin)
                 /\ erred
    PROVE  Sound(c, l, breaks, who, erred)
<1>1. /\ l \in Connection /\ l.stage = "done" /\ ~l.posted
      /\ l.request = r /\ l.heard = g /\ l.answer = a /\ l.ws = w
  BY DEF Handled
<1>2. a = <<101>> => Upgraded(l, who)
  BY <1>1 DEF Upgraded
<1>3. Servable(l) /\ w = "none" => Refused(l, who) /\ erred
  BY <1>1 DEF Servable, Refused
<1>4. QED
  BY <1>1, <1>2, <1>3 DEF Sound

(* A step that handles the handshake of one connection.                    *)
LEMMA HandledKeeps ==
    ASSUME ConnsInv, NEW c \in Conns, NEW l, conn[c].ws = "none",
           conn' = [conn EXCEPT ![c] = l],
           nameBreaks' = nameBreaks, user' = user, ErrorSet => ErrorSet',
           Sound(c, l, nameBreaks, user, ErrorSet'),
           \/ UNCHANGED pending
           \/ pending' = Append(pending, c) /\ l.ws # "none"
    PROVE  ConnsInv'
<1>1. conn' = [b \in Conns |-> conn'[b]] /\ \A b \in Conns : conn'[b] = IF b = c THEN l ELSE conn[b]
  BY DEF ConnsInv
<1>2. ASSUME NEW b \in Conns PROVE Sound(b, conn'[b], nameBreaks', user', ErrorSet')
  <2>1. CASE b = c
    BY <1>1, <2>1
  <2>2. CASE b # c
    <3>1. Sound(b, conn[b], nameBreaks, user, ErrorSet) /\ Minor(conn[b], conn[b])
      BY SameIsMinor DEF ConnsInv
    <3>2. QED
      BY <1>1, <2>2, <3>1, MinorSound
  <2>3. QED
    BY <2>1, <2>2
<1>3. pending \in Seq(Conns) /\ \A i \in DOMAIN pending : conn[pending[i]].ws # "none"
  BY DEF ConnsInv
<1>4. \A i \in DOMAIN pending : pending[i] \in Conns /\ conn'[pending[i]].ws # "none"
  BY <1>1, <1>3
<1>5. pending' \in Seq(Conns) /\ \A i \in DOMAIN pending' : conn'[pending'[i]].ws # "none"
  <2>1. CASE UNCHANGED pending
    BY <1>3, <1>4, <2>1
  <2>2. CASE pending' = Append(pending, c) /\ l.ws # "none"
    <3>1. /\ pending' \in Seq(Conns) /\ Len(pending') = Len(pending) + 1
          /\ \A i \in 1..Len(pending) : pending'[i] = pending[i]
          /\ pending'[Len(pending) + 1] = c
      BY <1>3, <2>2, AppendProperties
    <3>2. \A i \in DOMAIN pending' : \/ i \in DOMAIN pending /\ pending'[i] = pending[i]
                                     \/ pending'[i] = c
      BY <1>3, <3>1
    <3>3. conn'[c].ws # "none"
      BY <1>1, <2>2
    <3>4. QED
      BY <1>4, <3>1, <3>2, <3>3
  <2>3. QED
    BY <2>1, <2>2
<1>6. QED
  BY <1>1, <1>2, <1>5 DEF ConnsInv

LEMMA TooManyInv ==
    ASSUME ConnsInv, NEW c \in Conns, conn[c].posted, TooManyPending(c),
           UNCHANGED <<nameBreaks, user>>
    PROVE  ConnsInv'
<1> DEFINE k == conn[c]
           h == Heard(k)
           h1 == [h EXCEPT !.sock = CloseOf(k.sock)]
           l == [h1 EXCEPT !.doomed = TRUE]
<1>1. /\ k \in Connection /\ k.stage = "handshake" /\ k.ws = "none" /\ k.answer = <<>>
      /\ k.request \in Requests[c]
  BY DEF ConnsInv, Sound
<1>2. CloseOf(k.sock) \in {"none", "open", "closing", "gone", "deleted"}
  BY <1>1, CloseOfType DEF Connection
<1>3. Handled(h, k.request, k.got, <<>>, "none")
  BY <1>1, HandledFirst
<1>4. conn' = [conn EXCEPT ![c] = l]
  <2>1. h \in Connection
    BY <1>3 DEF Handled
  <2>2. [h EXCEPT !.sock = CloseOf(k.sock), !.doomed = TRUE] = l
    BY <2>1 DEF Connection
  <2>3. QED
    BY <2>2 DEF TooManyPending
<1> HIDE DEF h
<1>5. Handled(h1, k.request, k.got, <<>>, "none")
  BY <1>2, <1>3, HandledSock
<1> HIDE DEF h1
<1>6. Handled(l, k.request, k.got, <<>>, "none")
  BY <1>5, HandledDoomed
<1> HIDE DEF l
<1>7. ErrorSet' /\ UNCHANGED pending
  BY DEF TooManyPending, setError, ErrorSet
<1>8. Sound(c, l, nameBreaks, user, ErrorSet')
  BY <1>1, <1>6, <1>7, HandledSound
<1>9. QED
  BY <1>1, <1>4, <1>7, <1>8, HandledKeeps

LEMMA RespondInv ==
    ASSUME ConnsInv, NEW c \in Conns, conn[c].posted, ~isFull, Respond(c),
           UNCHANGED <<nameBreaks, user>>
    PROVE  ConnsInv'
<1> DEFINE k == conn[c]
           h == Heard(k)
           q == readHandshake(k.request, k.got)
           r == getHandshakeResponse(q, Allows(user, q.origin), nameBreaks)
           answered == [h EXCEPT !.answer = r.lines]
<1>1. /\ k \in Connection /\ k.stage = "handshake" /\ k.ws = "none" /\ k.answer = <<>>
      /\ k.request \in Requests[c]
  BY DEF ConnsInv, Sound
<1>2. CloseOf(k.sock) \in {"none", "open", "closing", "gone", "deleted"}
      /\ k.got \in {Nothing, FirstLine, EmptyLine}
  BY <1>1, CloseOfType DEF Connection
<1>3. Handled(h, k.request, k.got, <<>>, "none")
  BY <1>1, HandledFirst
<1>4. h.request = k.request /\ h.got = k.got /\ h.sock = k.sock /\ answered.sock = k.sock
  <2>1. h.request = k.request /\ h.got = k.got /\ h.sock = k.sock
    BY <1>1 DEF Connection, Heard
  <2>2. h \in Connection
    BY <1>3 DEF Handled
  <2> HIDE DEF h
  <2>3. answered.sock = h.sock
    BY <2>2 DEF Connection
  <2>4. QED
    BY <2>1, <2>3
<1>5. \/ /\ ~q.valid
         /\ conn' = [conn EXCEPT ![c] = [h EXCEPT !.sock = CloseOf(k.sock)]]
         /\ UNCHANGED <<pending, error>>
      \/ /\ q.valid /\ r.canUpgrade
         /\ addPendingConnection(c, answered) /\ UNCHANGED error
      \/ /\ q.valid /\ ~r.canUpgrade
         /\ conn' = [conn EXCEPT ![c] = [answered EXCEPT !.sock = CloseOf(k.sock)]]
         /\ setError(r.error)
         /\ UNCHANGED pending
  BY <1>4 DEF Respond, allowed, Allows, AnyUser
<1>6. Answered(k.request, k.got, q, r, nameBreaks, user)
  <2>1. k.request \in Requests[c]
    BY <1>1
  <2>2. k.got \in {Nothing, FirstLine, EmptyLine}
    BY <1>2
  <2>3. QED
    BY <2>1, <2>2, Answers
<1> HIDE DEF h, q, r
<1>7. Handled(answered, k.request, k.got, r.lines, "none")
  <2>1. r.lines \in Lines
    BY <1>6 DEF Answered, Lines
  <2>2. \A b \in Lines :
            Handled([h EXCEPT !.answer = b], k.request, k.got, b, "none")
    BY <1>3, HandledAnswer
  <2>3. QED
    BY <2>1, <2>2
<1> HIDE DEF answered
<1>8. CASE /\ ~q.valid
           /\ conn' = [conn EXCEPT ![c] = [h EXCEPT !.sock = CloseOf(k.sock)]]
           /\ UNCHANGED <<pending, error>>
  <2> DEFINE l == [h EXCEPT !.sock = CloseOf(k.sock)]
  <2>1. Handled(l, k.request, k.got, <<>>, "none")
    BY <1>2, <1>3, HandledSock
  <2>2. conn' = [conn EXCEPT ![c] = l] /\ (ErrorSet => ErrorSet')
    BY <1>8 DEF ErrorSet
  <2> HIDE DEF l
  <2>3. Sound(c, l, nameBreaks, user, ErrorSet')
    BY <1>1, <1>6, <1>8, <2>1, HandledSound DEF Answered
  <2>4. QED
    BY <1>1, <1>8, <2>2, <2>3, HandledKeeps
<1>9. CASE /\ q.valid /\ r.canUpgrade
           /\ addPendingConnection(c, answered) /\ UNCHANGED error
  <2>1. PICK w \in {"taken", "pending"} :
            /\ conn' = [conn EXCEPT ![c] = [answered EXCEPT !.ws = w]]
            /\ UNCHANGED pending \/ pending' = Append(pending, c)
    BY <1>9 DEF addPendingConnection
  <2> DEFINE l == [answered EXCEPT !.ws = w]
  <2>2. Handled(l, k.request, k.got, <<101>>, w)
    <3>1. Handled(l, k.request, k.got, r.lines, w)
      BY <1>7, HandledWs
    <3>2. QED
      BY <1>6, <1>9, <3>1 DEF Answered
  <2>3. conn' = [conn EXCEPT ![c] = l] /\ (ErrorSet => ErrorSet')
    BY <1>9, <2>1 DEF ErrorSet
  <2> HIDE DEF l
  <2>4. Sound(c, l, nameBreaks, user, ErrorSet')
    BY <1>1, <1>6, <1>9, <2>2, HandledSound DEF Answered
  <2>5. l.ws # "none"
    BY <2>2 DEF Handled
  <2>6. QED
    BY <1>1, <2>1, <2>3, <2>4, <2>5, HandledKeeps
<1>10. CASE /\ q.valid /\ ~r.canUpgrade
            /\ conn' = [conn EXCEPT ![c] = [answered EXCEPT !.sock = CloseOf(k.sock)]]
            /\ setError(r.error)
            /\ UNCHANGED pending
  <2> DEFINE l == [answered EXCEPT !.sock = CloseOf(k.sock)]
  <2>1. Handled(l, k.request, k.got, r.lines, "none")
    BY <1>2, <1>7, HandledSock
  <2>2. conn' = [conn EXCEPT ![c] = l] /\ ErrorSet'
    BY <1>6, <1>10 DEF ErrorSet, setError, Answered
  <2> HIDE DEF l
  <2>3. Sound(c, l, nameBreaks, user, ErrorSet')
    <3>1. /\ r.lines # <<101>>
          /\ r.lines = <<101, 400>> => nameBreaks
          /\ /\ LegalRequest(k.request) /\ Readable(k.request) /\ k.got = EmptyLine
             => /\ r.lines \in {<<>>, <<403>>, <<101, 400>>}
                /\ r.lines = <<403>> => ~Allows(user, k.request.origin)
      BY <1>6, <1>10 DEF Answered
    <3>2. QED
      BY <1>1, <2>1, <2>2, <3>1, HandledSound
  <2>4. QED
    BY <1>1, <1>10, <2>2, <2>3, HandledKeeps
<1>11. QED
  BY <1>5, <1>8, <1>9, <1>10

LEMMA HandshakeInv ==
    ASSUME ConnsInv, NEW c \in Conns, handshakeReceived(c)
    PROVE  ConnsInv'
<1>1. conn[c].posted /\ UNCHANGED <<nameBreaks, user>>
  BY DEF handshakeReceived
<1>2. CASE conn[c].got < FirstLine
  <2>1. conn' = [conn EXCEPT ![c] = [conn[c] EXCEPT !.posted = FALSE]] /\ UNCHANGED <<pending, error>>
    BY <1>2 DEF handshakeReceived
  <2>2. Minor(conn[c], [conn[c] EXCEPT !.posted = FALSE])
    <3>1. PICK b \in BOOLEAN : b = FALSE
      OBVIOUS
    <3>2. Minor(conn[c], [conn[c] EXCEPT !.posted = b])
      BY <3>1, AllMinor, MinorFields
    <3>3. QED
      BY <3>1, <3>2
  <2>3. MinorStep
    BY <1>1, <2>1, <2>2, MinorAt DEF ErrorSet
  <2>4. QED
    BY <2>1, <2>3, MinorInv
<1>3. CASE ~(conn[c].got < FirstLine) /\ isFull
  BY <1>1, <1>3, TooManyInv DEF handshakeReceived
<1>4. CASE ~(conn[c].got < FirstLine) /\ ~isFull
  BY <1>1, <1>4, RespondInv DEF handshakeReceived
<1>5. QED
  BY <1>2, <1>3, <1>4

-----------------------------------------------------------------------------
(* The other steps, and the theorems.                                      *)

LEMMA IdleInv ==
    ASSUME ConnsInv, UNCHANGED <<conn, pending, nameBreaks, user>>, ErrorSet => ErrorSet'
    PROVE  ConnsInv'
<1>1. MinorStep
  BY AllMinor DEF MinorStep
<1>2. QED
  BY <1>1, MinorInv

(* The element has a new server: all sockets of the old one are deleted.   *)
LEMMA DestroyedMinor ==
    ASSUME NEW k \in Connection, Minor(k, k), k.sock # "none" => k.stage # "none"
    PROVE  Minor(k, Destroyed(k))
<1>1. CASE k.sock = "none"
  BY <1>1 DEF Destroyed
<1>2. CASE k.sock # "none"
  <2>1. PICK no \in BOOLEAN : no = FALSE
    OBVIOUS
  <2> DEFINE l1 == [k EXCEPT !.sock = "deleted"]
             l2 == [l1 EXCEPT !.posted = no]
             l3 == [l2 EXCEPT !.stage = "done"]
  <2>2. Minor(k, l1)
    BY <1>2, MinorFields
  <2> HIDE DEF l1
  <2>3. l1 \in Connection /\ Minor(l1, l1) /\ l1.stage # "none"
    BY <1>2, <2>2, MinorSelf
  <2>4. Minor(l1, l2)
    BY <2>1, <2>3, MinorFields
  <2>5. l2.posted = no
    BY <2>3 DEF Connection
  <2> HIDE DEF l2
  <2>6. l2 \in Connection /\ Minor(l2, l2) /\ l2.stage # "none" /\ ~l2.posted
    BY <2>1, <2>3, <2>4, <2>5, MinorSelf
  <2>7. Minor(l2, l3)
    BY <2>6, MinorFields
  <2> HIDE DEF l3
  <2>8. Minor(k, l3)
    BY <2>2, <2>4, <2>7, MinorAgain
  <2>9. l3 = Destroyed(k)
    BY <1>2, <2>1 DEF l3, l2, l1, Destroyed, Connection
  <2>10. QED
    BY <2>8, <2>9
<1>3. QED
  BY <1>1, <1>2

LEMMA QmlCallsInv ==
    ASSUME ConnsInv, QmlCalls \/ closed
    PROVE  ConnsInv'
<1>1. CASE componentComplete \/ setName
  <2>1. user = "qml" /\ UNCHANGED <<user, nameBreaks, pending>>
    BY <1>1 DEF componentComplete, setName, Called, Kept
  <2>2. conn' = [c \in Conns |-> Destroyed(conn[c])]
    BY <1>1 DEF componentComplete, setName, init
  <2>3. \A c \in Conns : Minor(conn[c], Destroyed(conn[c]))
    BY AllMinor, DestroyedMinor
  <2>4. MinorStep
    BY <2>1, <2>2, <2>3 DEF MinorStep, ErrorSet
  <2>5. QED
    BY <2>1, <2>4, MinorInv
<1>2. CASE \/ \E h \in Hosts : setHost(h)
           \/ \E p \in Ports : setPort(p)
           \/ \E b \in BOOLEAN : setListen(b) \/ setAccept(b)
           \/ closed
  <2>1. UNCHANGED <<conn, pending, nameBreaks, error, user>>
    BY <1>2 DEF setHost, setPort, setListen, setAccept, closed, Kept
  <2>2. QED
    BY <2>1, IdleInv DEF ErrorSet
<1>3. QED
  BY <1>1, <1>2 DEF QmlCalls

LEMMA ServerInv ==
    ASSUME ConnsInv, Next
    PROVE  ConnsInv'
<1>1. CASE EventLoop
  <2>1. CASE onNewConnection
    BY <2>1, DrainMinor
  <2>2. CASE closedSignal
    <3>1. UNCHANGED <<conn, pending, nameBreaks, error, user>>
      BY <2>2 DEF closedSignal
    <3>2. QED
      BY <3>1, IdleInv DEF ErrorSet
  <2>3. CASE \E c \in Conns : handshakeReceived(c)
    BY <2>3, HandshakeInv
  <2>4. CASE \E c \in Conns : SocketEnds(c) \/ DeleteSocket(c)
    BY <2>4, ConnSteps, MinorInv
  <2>5. QED
    BY <1>1, <2>1, <2>2, <2>3, <2>4 DEF EventLoop
<1>2. CASE Network
  <2>1. CASE \E c \in Conns : Connect(c)
    BY <2>1, ConnectInv
  <2>2. CASE \E c \in Conns : Encrypted(c) \/ PeerCloses(c) \/ Arrive(c)
    BY <2>2, ConnSteps, MinorInv
  <2>3. QED
    BY <1>2, <2>1, <2>2 DEF Network
<1>3. CASE UserCalls
  <2>1. CASE nextPendingConnection
    BY <2>1, TakeMinor
  <2>2. CASE close
    <3>1. UNCHANGED <<user, nameBreaks, error>> /\ \E flushed \in BOOLEAN : CloseServer(flushed)
      BY <2>2 DEF close
    <3>2. QED
      BY <3>1, CloseMinor
  <2>3. CASE listen
    <3>1. UNCHANGED <<conn, pending, nameBreaks, user>> /\ (UNCHANGED error \/ error' = "socket")
      BY <2>3 DEF listen, setError
    <3>2. QED
      BY <3>1, IdleInv DEF ErrorSet
  <2>4. CASE (\E n \in Limits : setMaxPendingConnections(n)) \/ pauseAccepting \/ resumeAccepting
    <3>1. UNCHANGED <<conn, pending, nameBreaks, error, user>>
      BY <2>4 DEF setMaxPendingConnections, pauseAccepting, resumeAccepting
    <3>2. QED
      BY <3>1, IdleInv DEF ErrorSet
  <2>5. CASE \E c \in Conns : CloseWebSocket(c) \/ DeleteWebSocket(c)
    BY <2>5, ConnSteps, MinorInv
  <2>6. QED
    BY <1>3, <2>1, <2>2, <2>3, <2>4, <2>5 DEF UserCalls
<1>4. QED
  BY <1>1, <1>2, <1>3 DEF Next

LEMMA InitialInv == QmlInit => ConnsInv
<1> SUFFICES ASSUME QmlInit PROVE ConnsInv
  OBVIOUS
<1>1. conn = [c \in Conns |-> Fresh] /\ pending = <<>>
  BY DEF QmlInit, Init, NewServer
<1>2. Fresh \in Connection
  BY DEF Fresh, Connection, Nothing
<1>3. \A c \in Conns : Sound(c, Fresh, nameBreaks, user, ErrorSet)
  BY <1>2 DEF Fresh, Sound, Servable, Upgraded, Nothing
<1>4. QED
  BY <1>1, <1>3 DEF ConnsInv

THEOREM ConnectionsSound == QmlSpec => []ConnsInv
<1>1. ConnsInv /\ [QmlNext]_allVars => ConnsInv'
  <2> SUFFICES ASSUME ConnsInv, [QmlNext]_allVars PROVE ConnsInv'
    OBVIOUS
  <2>1. CASE UNCHANGED allVars
    <3>1. UNCHANGED <<conn, pending, nameBreaks, error, user>>
      BY <2>1 DEF allVars, vars, serverVars
    <3>2. QED
      BY <3>1, IdleInv DEF ErrorSet
  <2>2. CASE QmlNext
    BY <2>2, ServerInv, QmlCallsInv DEF QmlNext
  <2>3. QED
    BY <2>1, <2>2
<1>2. QED
  BY <1>1, InitialInv, PTL DEF QmlSpec

(* Nobody becomes a web socket whose request is not one that RFC 6455      *)
(* wants, but for its host and its key.                                    *)
THEOREM UpgradesAreLegal == QmlSpec => []UpgradeIsLegal
<1>1. ConnsInv => UpgradeIsLegal
  <2> SUFFICES ASSUME ConnsInv, NEW c \in Conns,
                      \/ conn[c].ws # "none"
                      \/ conn[c].answer # <<>> /\ conn[c].answer[1] = 101 /\ ~nameBreaks
               PROVE  /\ ToleratedRequest(conn[c].request) /\ Readable(conn[c].request)
                      /\ allowed(conn[c].request.origin)
                      /\ conn[c].heard >= EmptyLine
                      /\ conn[c].answer = <<101>>
    BY DEF UpgradeIsLegal
  <2>1. Sound(c, conn[c], nameBreaks, user, ErrorSet)
    BY DEF ConnsInv
  <2>2. conn[c].answer \in {<<>>, <<400>>, <<403>>, <<101>>, <<101, 400>>}
    BY <2>1 DEF Sound, Connection
  <2>3. conn[c].answer = <<101>>
    <3>1. <<400>>[1] = 400 /\ <<403>>[1] = 403
      OBVIOUS
    <3>2. QED
      BY <2>1, <2>2, <3>1 DEF Sound
  <2>4. Upgraded(conn[c], user)
    BY <2>1, <2>3 DEF Sound
  <2>5. QED
    BY <2>3, <2>4 DEF Upgraded, EmptyLine, allowed, Allows, AnyUser
<1>2. QED
  BY <1>1, ConnectionsSound, PTL

(* Who was told 101 is queued or with the user.                            *)
THEOREM NothingIsLost == QmlSpec => []NothingLost
<1>1. ConnsInv => NothingLost
  BY DEF ConnsInv, Sound, Upgraded, NothingLost
<1>2. QED
  BY <1>1, ConnectionsSound, PTL

(* A complete legal request is refused only for what it may be refused.    *)
THEOREM LegalServed == QmlSpec => []LegalIsServed
<1>1. ConnsInv => LegalIsServed
  <2> SUFFICES ASSUME ConnsInv, NEW c \in Conns,
                      conn[c].stage = "done", conn[c].heard >= EmptyLine,
                      LegalRequest(conn[c].request), Readable(conn[c].request),
                      conn[c].ws = "none"
               PROVE  /\ user # "qml" => error # "normal"
                      /\ conn[c].answer \in {<<>>, <<403>>, <<101, 400>>}
                      /\ conn[c].answer = <<403>> => ~allowed(conn[c].request.origin)
    BY DEF LegalIsServed
  <2>1. Sound(c, conn[c], nameBreaks, user, ErrorSet)
    BY DEF ConnsInv
  <2>2. conn[c].heard = EmptyLine
    <3>1. conn[c].heard \in {Nothing, FirstLine, EmptyLine}
      BY <2>1 DEF Sound, Connection
    <3>2. QED
      BY <3>1 DEF Nothing, FirstLine, EmptyLine
  <2>3. Servable(conn[c])
    BY <2>2 DEF Servable
  <2>4. Refused(conn[c], user) /\ ErrorSet
    BY <2>1, <2>3 DEF Sound
  <2>5. QED
    BY <2>4 DEF Refused, ErrorSet, allowed, Allows, AnyUser
<1>2. QED
  BY <1>1, ConnectionsSound, PTL

(* An update of the element listens only if it is told to, and where it    *)
(* says.                                                                   *)
LEMMA UpdateListens ==
    ASSUME NEW isListening, NEW completed, NEW closes, NEW host, NEW port, NEW on \in BOOLEAN,
           Update(isListening, completed, closes, host, port, on), listening'
    PROVE  on = TRUE /\ m_port' # 0 /\ m_host' # "name"
<1> DEFINE before == Times(isListening)
           again == Times(host = "name") + Times(port = 0 /\ completed)
           stopped == [listening |-> FALSE, closed |-> before, host |-> host, port |-> port]
           started == [listening |-> TRUE, closed |-> before + again,
                       host |-> IF host = "name" THEN "address" ELSE host,
                       port |-> IF port = 0 THEN FreePort ELSE port]
<1>1. PICK u \in updateListening(isListening, completed, host, port, on) :
          listening' = u.listening /\ m_host' = u.host /\ m_port' = u.port
  BY DEF Update
<1>2. u = stopped \/ (on /\ u = started)
  BY <1>1 DEF updateListening
<1>3. stopped.listening = FALSE
  OBVIOUS
<1>4. started.port # 0 /\ started.host # "name"
  BY PortsAssumption
<1> HIDE DEF stopped, started
<1>5. QED
  BY <1>1, <1>2, <1>3, <1>4

(* The element listens only while listen says so, and where it says.       *)
THEOREM ElementListens == QmlSpec => []ListensAsItSays
<1> DEFINE Inv == ListensAsItSays /\ m_listen \in BOOLEAN
<1>1. QmlInit => Inv
  BY DEF QmlInit, Init, NewServer, ListensAsItSays
<1>2. Inv /\ [QmlNext]_allVars => Inv'
  <2> SUFFICES ASSUME Inv, [QmlNext]_allVars
               PROVE  Inv'
    OBVIOUS
  <2> DEFINE Where == m_componentCompleted /\ m_listen = TRUE /\ m_port # 0 /\ m_host # "name"
  <2>1. m_listen' \in BOOLEAN
    BY DEF QmlNext, QmlCalls, componentComplete, setName, setHost, setPort, setListen, setAccept,
           closed, SetListen, allVars, qmlVars
  <2>2. SUFFICES ASSUME user' = "qml", listening' PROVE Where'
    BY <2>1 DEF ListensAsItSays
  <2>3. user = "qml" /\ listening => Where
    BY DEF ListensAsItSays
  <2>4. CASE UNCHANGED <<user, listening, qmlVars>>
    BY <2>2, <2>3, <2>4 DEF qmlVars
  <2>5. CASE Next /\ UNCHANGED qmlVars
    <3>1. UNCHANGED user
      BY <2>5 DEF Next, EventLoop, Network, UserCalls, onNewConnection, closedSignal,
            handshakeReceived, SocketEnds, DeleteSocket, Connect, Encrypted, PeerCloses, Arrive,
            nextPendingConnection, setMaxPendingConnections, pauseAccepting, resumeAccepting,
            listen, close, CloseWebSocket, DeleteWebSocket
    <3>2. UNCHANGED listening
      BY <2>2, <2>5, <3>1 DEF Next, EventLoop, Network, UserCalls, onNewConnection, closedSignal,
            handshakeReceived, SocketEnds, DeleteSocket, Connect, Encrypted, PeerCloses, Arrive,
            nextPendingConnection, setMaxPendingConnections, pauseAccepting, resumeAccepting,
            listen, close, CloseWebSocket, DeleteWebSocket, serverVars, AnyUser
    <3>3. QED
      BY <2>4, <2>5, <3>1, <3>2
  <2>6. CASE componentComplete \/ setName
    <3>1. PICK completed \in BOOLEAN : Update(FALSE, completed, 0, m_host, m_port, m_listen)
      BY <2>6 DEF componentComplete, setName, init
    <3>2. m_listen' = m_listen /\ m_componentCompleted'
      <4>1. CASE componentComplete
        BY <4>1 DEF componentComplete
      <4>2. CASE setName
        BY <4>2 DEF setName
      <4>3. QED
        BY <2>6, <4>1, <4>2
    <3>3. m_listen = TRUE /\ m_port' # 0 /\ m_host' # "name"
      BY <2>2, <3>1, UpdateListens
    <3>4. QED
      BY <3>2, <3>3
  <2>7. CASE (\E h \in Hosts : setHost(h)) \/ (\E p \in Ports : setPort(p))
    <3>1. m_listen' = m_listen /\ m_componentCompleted' = m_componentCompleted /\ user = "qml"
      BY <2>7 DEF setHost, setPort, Called
    <3>2. CASE ~(listening /\ m_componentCompleted) /\ listening' = listening
      BY <2>2, <2>3, <3>1, <3>2
    <3>3. CASE \E host, port : /\ m_componentCompleted
                               /\ Update(listening, TRUE, closedPosted, host, port, m_listen)
      BY <2>2, <3>1, <3>3, UpdateListens
    <3>4. CASE \E port : /\ m_componentCompleted
                         /\ Update(TRUE, TRUE, closedPosted, m_host, port, m_listen)
      BY <2>2, <3>1, <3>4, UpdateListens
    <3>5. QED
      BY <2>7, <3>2, <3>3, <3>4 DEF setHost, setPort
  <2>8. CASE (\E b \in BOOLEAN : setListen(b)) \/ closed
    <3>1. m_componentCompleted' = m_componentCompleted /\ user = "qml"
      BY <2>8 DEF setListen, closed, Called
    <3>2. CASE UNCHANGED <<listening, m_host, m_port, m_listen>>
      BY <2>2, <2>3, <3>1, <3>2
    <3>3. CASE \E b \in BOOLEAN, closes \in {closedPosted, closedPosted - 1} : SetListen(b, closes)
      <4>1. PICK b \in BOOLEAN, closes \in {closedPosted, closedPosted - 1} : SetListen(b, closes)
        BY <3>3
      <4>2. m_listen' = b
        BY <4>1 DEF SetListen
      <4>3. CASE m_componentCompleted
        <5>1. Update(listening, TRUE, closes, m_host, m_port, b)
          BY <4>1, <4>3 DEF SetListen
        <5>2. QED
          BY <2>2, <3>1, <4>2, <4>3, <5>1, UpdateListens
      <4>4. CASE ~m_componentCompleted
        BY <2>2, <2>3, <3>1, <4>1, <4>4 DEF SetListen
      <4>5. QED
        BY <4>3, <4>4
    <3>4. QED
      BY <2>8, <3>2, <3>3 DEF setListen, closed
  <2>9. CASE \E b \in BOOLEAN : setAccept(b)
    BY <2>2, <2>3, <2>9 DEF setAccept, Kept
  <2>10. QED
    BY <2>4, <2>5, <2>6, <2>7, <2>8, <2>9
       DEF QmlNext, QmlCalls, allVars, vars, serverVars
<1>3. QED
  BY <1>1, <1>2, PTL DEF QmlSpec

-----------------------------------------------------------------------------
(* The example programs.                                                   *)

(* Each step of a program is a step of some user of the server.            *)
LEMMA ProgramsStep ==
    ASSUME [ExampleNext]_exampleVars
    PROVE  [QmlNext]_allVars
<1>1. CASE UNCHANGED exampleVars
  BY <1>1 DEF exampleVars
<1>2. CASE QmlNext
  BY <1>2
<1>3. CASE Running /\ ProgramStep /\ UNCHANGED qmlVars
  <2>1. Constructor => Next
    BY DEF Constructor, EchoServer, ChatServer, SslEchoServer, Next, UserCalls
  <2>2. Unheard => Next
    BY DEF Unheard, Next, EventLoop, Network, UserCalls
  <2>3. ASSUME NEW c \in Conns, newConnection(c) \/ socketDisconnected(c) \/ deleteLater(c)
        PROVE  Next
    BY <2>3 DEF newConnection, socketDisconnected, deleteLater, Next, EventLoop, Network, UserCalls
  <2>4. Next
    BY <1>3, <2>1, <2>2, <2>3 DEF ProgramStep
  <2>5. QED
    BY <1>3, <2>4 DEF QmlNext
<1>4. QED
  BY <1>1, <1>2, <1>3 DEF ExampleNext

(* The example programs are users of the server as any other: what is      *)
(* proved of every user holds for them.                                    *)
THEOREM ExamplesAreUsers == ExampleSpec => QmlSpec
<1>1. ExampleInit => QmlInit
  BY DEF ExampleInit
<1>2. [ExampleNext]_exampleVars => [QmlNext]_allVars
  BY ProgramsStep
<1>3. QED
  BY <1>1, <1>2, PTL DEF ExampleSpec, QmlSpec

\* What the list of a program relies on, for a client with record k.
Kept1(k) ==
    /\ k.posted /\ ~secure => k.sock = "open"
    /\ k.doomed => k.sock \in {"gone", "deleted"} \/ (k.stage = "done" /\ k.ws = "none")
    /\ k.ws # "pending"

\* Whether k, which is on the list or is not, ought to.
Listed(k, on) ==
    /\ k.ws = "taken" /\ k.sock \in {"open", "closing"} => on
    /\ on => k.ws = "taken" /\ (k.sock \in {"open", "closing"} \/ secure)

ListInv ==
    Running =>
        /\ secure <=> user = "sslecho"
        /\ m_clients \subseteq Conns
        /\ \A c \in Conns : Kept1(conn[c]) /\ Listed(conn[c], c \in m_clients)

LEMMA UserStays ==
    ASSUME [QmlNext]_allVars
    PROVE  user' = user
BY DEF QmlNext, QmlCalls, componentComplete, setName, setHost, setPort, setListen, setAccept,
       closed, Kept, Called, allVars, vars, Next, EventLoop, Network, UserCalls, onNewConnection,
       closedSignal, handshakeReceived, SocketEnds, DeleteSocket, Connect, Encrypted, PeerCloses,
       Arrive, nextPendingConnection, setMaxPendingConnections, pauseAccepting, resumeAccepting,
       listen, close, CloseWebSocket, DeleteWebSocket

(* A step that changes one connection, and whether it is on the list.      *)
LEMMA ListAt ==
    ASSUME ListInv, ConnsInv, Running, UNCHANGED <<user, secure>>, NEW c \in Conns, NEW l,
           conn' = [conn EXCEPT ![c] = l], m_clients' \subseteq Conns,
           \A b \in Conns : b # c => (b \in m_clients' <=> b \in m_clients),
           Kept1(l), Listed(l, c \in m_clients')
    PROVE  ListInv'
<1>1. \A b \in Conns : conn'[b] = IF b = c THEN l ELSE conn[b]
  BY DEF ConnsInv
<1>2. ASSUME NEW b \in Conns PROVE Kept1(conn[b])' /\ Listed(conn[b], b \in m_clients)'
  <2>1. CASE b = c
    BY <1>1, <2>1 DEF Kept1, Listed
  <2>2. CASE b # c
    BY <1>1, <2>2 DEF Kept1, Listed, ListInv
  <2>3. QED
    BY <2>1, <2>2
<1>3. (secure <=> user = "sslecho")'
  BY DEF ListInv
<1>4. QED
  BY <1>2, <1>3 DEF ListInv

LEMMA ListUnheard ==
    ASSUME ListInv, ConnsInv, Running, Unheard
    PROVE  ListInv'
<1>1. m_clients' = m_clients /\ m_clients \subseteq Conns
  BY DEF Unheard, ListInv
<1>2. \A c \in Conns : /\ conn[c] \in Connection
                       /\ Kept1(conn[c]) /\ Listed(conn[c], c \in m_clients)
                       /\ conn[c].stage # "done" => conn[c].ws = "none"
                       /\ conn[c].stage = "none" => c \notin m_clients
  BY DEF ConnsInv, Sound, ListInv, Listed
<1>3. CASE onNewConnection
  <2>1. UNCHANGED <<user, secure>>
    BY <1>3 DEF onNewConnection
  <2>2. ASSUME NEW c \in Conns
        PROVE  /\ conn'[c].posted = conn[c].posted /\ conn'[c].sock = conn[c].sock
               /\ conn'[c].doomed = conn[c].doomed /\ conn'[c].ws = conn[c].ws
               /\ conn[c].stage = "done" => conn'[c].stage = "done"
    <3>1. CASE c \in Backlog
      <4>1. conn'[c] = [conn[c] EXCEPT !.stage = "handshake", !.linked = TRUE]
            /\ conn[c].stage = "waiting"
        BY <1>3, <3>1 DEF onNewConnection, Backlog
      <4>2. QED
        BY <1>2, <4>1 DEF Connection
    <3>2. CASE c \notin Backlog
      BY <1>3, <3>2 DEF onNewConnection
    <3>3. QED
      BY <3>1, <3>2
  <2>3. \A c \in Conns : Kept1(conn[c])' /\ Listed(conn[c], c \in m_clients)'
    BY <1>1, <1>2, <2>1, <2>2 DEF Kept1, Listed
  <2>4. QED
    BY <1>1, <2>1, <2>3 DEF ListInv
<1>4. ASSUME NEW c \in Conns,
             Connect(c) \/ Encrypted(c) \/ Arrive(c) \/ DeleteSocket(c) \/ CloseWebSocket(c)
      PROVE  ListInv'
  <2> DEFINE k == conn[c]
  <2>1. UNCHANGED <<user, secure>>
    BY <1>4 DEF Connect, Encrypted, Arrive, DeleteSocket, CloseWebSocket
  <2>2. /\ k \in Connection /\ Kept1(k) /\ Listed(k, c \in m_clients)
        /\ k.stage # "done" => k.ws = "none"
        /\ k.stage = "none" => c \notin m_clients
    BY <1>2
  <2>3. ASSUME NEW l, conn' = [conn EXCEPT ![c] = l], Kept1(l), Listed(l, c \in m_clients)
        PROVE  ListInv'
    BY <1>1, <2>1, <2>3, ListAt
  <2>4. CASE Connect(c)
    <3>1. PICK r \in Requests[c] :
             conn' = [conn EXCEPT ![c] = [Fresh EXCEPT
                         !.request = r, !.sock = "open",
                         !.stage = IF secure THEN "waiting" ELSE "handshake",
                         !.linked = ~secure,
                         !.tls = IF secure THEN "running" ELSE "none"]]
      BY <2>4 DEF Connect
    <3> DEFINE l == [Fresh EXCEPT
                         !.request = r, !.sock = "open",
                         !.stage = IF secure THEN "waiting" ELSE "handshake",
                         !.linked = ~secure,
                         !.tls = IF secure THEN "running" ELSE "none"]
    <3>2. ~l.posted /\ ~l.doomed /\ l.ws = "none"
      BY DEF Fresh
    <3> HIDE DEF l
    <3>3. k.stage = "none"
      BY <2>4 DEF Connect
    <3>4. Kept1(l) /\ Listed(l, c \in m_clients)
      BY <2>2, <3>2, <3>3 DEF Kept1, Listed
    <3>5. QED
      BY <2>3, <3>1, <3>4 DEF l
  <2>5. CASE Encrypted(c)
    <3>1. conn' = [conn EXCEPT ![c] = [k EXCEPT !.tls = "done"]]
      BY <2>5 DEF Encrypted
    <3>2. Kept1([k EXCEPT !.tls = "done"]) /\ Listed([k EXCEPT !.tls = "done"], c \in m_clients)
      BY <2>2 DEF Kept1, Listed, Connection
    <3>3. QED
      BY <2>3, <3>1, <3>2
  <2>6. CASE Arrive(c)
    <3>1. PICK got : conn' = [conn EXCEPT ![c] = [k EXCEPT !.got = got,
                                                          !.posted = k.stage = "handshake"]]
      BY <2>6 DEF Arrive
    <3> DEFINE l == [k EXCEPT !.got = got, !.posted = k.stage = "handshake"]
    <3>2. l.sock = "open" /\ l.doomed = k.doomed /\ l.ws = k.ws /\ l.stage = k.stage
          /\ k.sock = "open"
      BY <2>2, <2>6 DEF Arrive, Connection
    <3> HIDE DEF l
    <3>3. Kept1(l) /\ Listed(l, c \in m_clients)
      BY <2>2, <3>2 DEF Kept1, Listed
    <3>4. QED
      BY <2>3, <3>1, <3>3 DEF l
  <2>7. CASE DeleteSocket(c)
    <3>1. conn' = [conn EXCEPT ![c] = [k EXCEPT !.sock = "deleted"]] /\ ~k.posted /\ k.doomed
      BY <2>7 DEF DeleteSocket
    <3> DEFINE l == [k EXCEPT !.sock = "deleted"]
    <3>2. l.sock = "deleted" /\ l.posted = k.posted /\ l.doomed = k.doomed /\ l.ws = k.ws
          /\ l.stage = k.stage
      BY <2>2 DEF Connection
    <3> HIDE DEF l
    <3>3. Kept1(l) /\ Listed(l, c \in m_clients)
      BY <2>2, <3>1, <3>2 DEF Kept1, Listed
    <3>4. QED
      BY <2>3, <3>1, <3>3 DEF l
  <2>8. CASE CloseWebSocket(c)
    <3>1. conn' = [conn EXCEPT ![c] = [k EXCEPT !.sock = "closing"]] /\ k.ws = "taken"
          /\ k.sock = "open"
      BY <2>8 DEF CloseWebSocket
    <3>2. ~k.posted
      BY <3>1 DEF ConnsInv, Sound
    <3> DEFINE l == [k EXCEPT !.sock = "closing"]
    <3>3. l.sock = "closing" /\ l.posted = k.posted /\ l.doomed = k.doomed /\ l.ws = k.ws
          /\ l.stage = k.stage
      BY <2>2 DEF Connection
    <3> HIDE DEF l
    <3>4. Kept1(l) /\ Listed(l, c \in m_clients)
      BY <2>2, <3>1, <3>2, <3>3 DEF Kept1, Listed
    <3>5. QED
      BY <2>3, <3>1, <3>4 DEF l
  <2>9. QED
    BY <1>4, <2>4, <2>5, <2>6, <2>7, <2>8
<1>5. QED
  BY <1>3, <1>4 DEF Unheard


LEMMA ListLeft ==
    ASSUME ListInv, ConnsInv, Running, NEW c \in Conns, socketDisconnected(c) \/ deleteLater(c)
    PROVE  ListInv'
<1> DEFINE k == conn[c]
<1>1. /\ k \in Connection /\ Kept1(k) /\ Listed(k, c \in m_clients)
      /\ k.posted => k.stage = "handshake"
      /\ k.stage # "done" => k.ws = "none"
      /\ m_clients \subseteq Conns
  BY DEF ConnsInv, Sound, ListInv
<1>2. UNCHANGED <<user, secure>>
  BY DEF socketDisconnected, deleteLater, PeerCloses, SocketEnds, DeleteWebSocket
<1>3. CASE socketDisconnected(c)
  <2>1. conn' = [conn EXCEPT ![c] = [k EXCEPT !.sock = "gone", !.doomed = k.doomed \/ k.linked]]
    BY <1>3 DEF socketDisconnected, PeerCloses, SocketEnds
  <2>2. k.sock \in {"open", "closing"} /\ (~secure => ~k.posted)
    BY <1>1, <1>3 DEF socketDisconnected, PeerCloses, SocketEnds, Kept1
  <2>3. m_clients' = IF k.ws = "taken" THEN m_clients \ {c} ELSE m_clients
    BY <1>3 DEF socketDisconnected, removeAll
  <2> DEFINE l == [k EXCEPT !.sock = "gone", !.doomed = k.doomed \/ k.linked]
  <2>4. l.sock = "gone" /\ l.posted = k.posted /\ l.ws = k.ws /\ l.stage = k.stage
    BY <1>1 DEF Connection
  <2> HIDE DEF l
  <2>5. c \notin m_clients'
    BY <1>1, <2>3 DEF Listed
  <2>6. Kept1(l) /\ Listed(l, c \in m_clients')
    BY <1>1, <2>2, <2>4, <2>5 DEF Kept1, Listed
  <2>7. QED
    BY <1>1, <1>2, <2>1, <2>3, <2>6, ListAt DEF l
<1>4. CASE deleteLater(c)
  <2>1. PICK flushed \in BOOLEAN : conn' = [conn EXCEPT ![c] = Released(k, flushed)]
    BY <1>4 DEF deleteLater, DeleteWebSocket
  <2>2. /\ c \notin m_clients /\ m_clients' = m_clients
        /\ k.ws = "taken" /\ k.sock \notin {"open", "closing"}
    BY <1>4 DEF deleteLater, DeleteWebSocket, Running
  <2> DEFINE l == Released(k, flushed)
  <2>3. l.ws = "deleted" /\ l.sock = k.sock /\ l.posted = k.posted /\ l.doomed = k.doomed
    BY <1>1, <2>2 DEF Released, CloseOf, Connection
  <2> HIDE DEF l
  <2>4. Kept1(l) /\ Listed(l, c \in m_clients')
    BY <1>1, <2>2, <2>3 DEF Kept1, Listed
  <2>5. QED
    BY <1>1, <1>2, <2>1, <2>2, <2>4, ListAt DEF l
<1>5. QED
  BY <1>3, <1>4

(* The slot of newConnection() runs within the handling of the handshake.  *)
LEMMA ListEntered ==
    ASSUME ListInv, ConnsInv, Running, NEW c \in Conns, newConnection(c)
    PROVE  ListInv'
<1> DEFINE k == conn[c]
           h == Heard(k)
<1>1. /\ k \in Connection /\ Kept1(k) /\ Listed(k, c \in m_clients)
      /\ k.posted /\ k.stage = "handshake" /\ k.ws = "none"
      /\ m_clients \subseteq Conns
  BY DEF ConnsInv, Sound, ListInv, newConnection, handshakeReceived
<1>2. UNCHANGED <<user, secure>> /\ TakenInSlot
  BY DEF newConnection, handshakeReceived, Running, Programs, TakenInSlot
<1>3. /\ c \notin m_clients
      /\ m_clients' = IF conn'[c].ws = "taken" THEN m_clients \cup {c} ELSE m_clients
  BY <1>1 DEF newConnection, Accepted, Listed
<1>4. ASSUME NEW l, conn' = [conn EXCEPT ![c] = l], ~l.posted,
             l.doomed => k.doomed \/ l.ws = "none",
             l.ws = "none" => l.stage = "done" \/ ~l.doomed,
             l.sock \in {k.sock, CloseOf(k.sock)},
             l.ws = "taken" => l.sock = k.sock,
             l.ws \in {"none", "taken"}
      PROVE  ListInv'
  <2>1. conn'[c] = l
    BY <1>4 DEF ConnsInv
  <2>2. c \in m_clients' <=> l.ws = "taken"
    BY <1>3, <2>1
  <2>3. l.ws = "taken" => l.sock \in {"open", "closing"} \/ secure
    BY <1>1, <1>4 DEF Kept1
  <2>4. Kept1(l) /\ Listed(l, c \in m_clients')
    BY <1>1, <1>4, <2>2, <2>3 DEF Kept1, Listed
  <2>5. QED
    BY <1>1, <1>2, <1>3, <1>4, <2>4, ListAt
<1>5. /\ h.stage = "done" /\ ~h.posted /\ h.ws = "none" /\ h.sock = k.sock /\ h.doomed = k.doomed
  BY <1>1 DEF Heard, Connection
<1>6. CASE k.got < FirstLine
  <2>1. conn' = [conn EXCEPT ![c] = [k EXCEPT !.posted = FALSE]]
    BY <1>6 DEF newConnection, handshakeReceived
  <2> DEFINE l == [k EXCEPT !.posted = FALSE]
  <2>2. ~l.posted /\ l.doomed = k.doomed /\ l.ws = k.ws /\ l.sock = k.sock /\ l.stage = k.stage
    BY <1>1 DEF Connection
  <2> HIDE DEF l
  <2>3. Kept1(l) /\ Listed(l, c \in m_clients')
    <3>1. conn'[c] = l
      BY <2>1 DEF ConnsInv, l
    <3>2. m_clients' = m_clients
      BY <1>1, <1>3, <2>2, <3>1
    <3>3. QED
      BY <1>1, <2>2, <3>2 DEF Kept1, Listed
  <2>4. QED
    BY <1>1, <1>2, <1>3, <2>1, <2>3, ListAt DEF l
<1>7. CASE ~(k.got < FirstLine) /\ isFull
  <2>1. conn' = [conn EXCEPT ![c] = [h EXCEPT !.sock = CloseOf(k.sock), !.doomed = TRUE]]
    BY <1>7 DEF newConnection, handshakeReceived, TooManyPending
  <2> DEFINE l == [h EXCEPT !.sock = CloseOf(k.sock), !.doomed = TRUE]
  <2>2. ~l.posted /\ l.ws = "none" /\ l.sock = CloseOf(k.sock) /\ l.stage = "done"
    BY <1>1 DEF Heard, Connection
  <2> HIDE DEF l
  <2>3. QED
    BY <1>4, <2>1, <2>2 DEF l
<1>8. CASE ~(k.got < FirstLine) /\ ~isFull
  <2>1. Respond(c)
    BY <1>8 DEF newConnection, handshakeReceived
  <2> DEFINE request == readHandshake(h.request, h.got)
             response == getHandshakeResponse(request, allowed(request.origin), nameBreaks)
             lines == response.lines
             answered == [h EXCEPT !.answer = lines]
  <2>2. \/ conn' = [conn EXCEPT ![c] = [h EXCEPT !.sock = CloseOf(h.sock)]]
        \/ addPendingConnection(c, answered)
        \/ conn' = [conn EXCEPT ![c] = [answered EXCEPT !.sock = CloseOf(h.sock)]]
    BY <2>1, Zenon DEF Respond
  <2> HIDE DEF request, response, lines
  <2> DEFINE l1 == [h EXCEPT !.sock = CloseOf(h.sock)]
             l2 == [[h EXCEPT !.answer = lines] EXCEPT !.ws = "taken"]
             l3 == [[h EXCEPT !.answer = lines] EXCEPT !.sock = CloseOf(h.sock)]
  <2>3. /\ ~l1.posted /\ l1.ws = "none" /\ l1.sock = CloseOf(k.sock) /\ l1.stage = "done"
        /\ ~l2.posted /\ l2.ws = "taken" /\ l2.sock = k.sock /\ l2.doomed = k.doomed
        /\ ~l3.posted /\ l3.ws = "none" /\ l3.sock = CloseOf(k.sock) /\ l3.stage = "done"
    BY <1>1 DEF Heard, Connection
  <2>4. conn' = [conn EXCEPT ![c] = l1] \/ conn' = [conn EXCEPT ![c] = l2]
        \/ conn' = [conn EXCEPT ![c] = l3]
    BY <1>2, <1>8, <2>2 DEF addPendingConnection
  <2> HIDE DEF l1, l2, l3
  <2>5. CASE conn' = [conn EXCEPT ![c] = l1]
    BY <1>4, <2>3, <2>5
  <2>6. CASE conn' = [conn EXCEPT ![c] = l2]
    BY <1>4, <2>3, <2>6
  <2>7. CASE conn' = [conn EXCEPT ![c] = l3]
    BY <1>4, <2>3, <2>7
  <2>8. QED
    BY <2>4, <2>5, <2>6, <2>7
<1>9. QED
  BY <1>6, <1>7, <1>8

THEOREM ListsAreTrue == ExampleSpec => []ListInv
<1>1. ExampleInit => ListInv
  <2> SUFFICES ASSUME ExampleInit, Running PROVE ListInv
    BY DEF ListInv
  <2>1. conn = [c \in Conns |-> Fresh] /\ m_clients = {} /\ (secure <=> user = "sslecho")
    BY DEF ExampleInit, QmlInit, Init, Running, Programs
  <2>2. QED
    BY <2>1 DEF ListInv, Kept1, Listed, Fresh
<1>2. ConnsInv /\ ListInv /\ [ExampleNext]_exampleVars => ListInv'
  <2> SUFFICES ASSUME ConnsInv, ListInv, [ExampleNext]_exampleVars PROVE ListInv'
    OBVIOUS
  <2>1. user' = user
    BY ProgramsStep, UserStays
  <2>2. CASE ~Running
    BY <2>1, <2>2 DEF ListInv, Running
  <2>3. CASE UNCHANGED exampleVars
    BY <2>3 DEF exampleVars, allVars, vars, ListInv, Running, Kept1, Listed
  <2>4. CASE Running /\ Constructor
    <3>1. UNCHANGED <<m_clients, conn, user, secure>>
      BY <2>4 DEF Constructor, EchoServer, ChatServer, SslEchoServer, listen
    <3>2. QED
      BY <3>1 DEF ListInv, Running, Kept1, Listed
  <2>5. CASE Running /\ Unheard
    BY <2>5, ListUnheard
  <2>6. CASE Running /\ \E c \in Conns : newConnection(c) \/ socketDisconnected(c) \/ deleteLater(c)
    BY <2>6, ListEntered, ListLeft
  <2>7. QED
    BY <2>2, <2>3, <2>4, <2>5, <2>6 DEF ExampleNext, ProgramStep
<1>3. QED
  BY <1>1, <1>2, ExamplesAreUsers, ConnectionsSound, PTL DEF ExampleSpec

(* The list of a program follows its clients: who can be written to is on  *)
(* it, nobody on it was deleted, and a chat message reaches everybody else *)
(* who is there.                                                           *)
THEOREM NobodyIsLost == ExampleSpec => []NobodyLost
<1>1. NothingLost /\ ListInv => NobodyLost
  <2> SUFFICES ASSUME NothingLost, ListInv, Running, NEW c \in Conns
               PROVE  /\ InTouch(c) => c \in m_clients
                      /\ c \in m_clients => conn[c].ws = "taken" /\ (InTouch(c) \/ secure)
                      /\ InTouch(c) =>
                            Recipients(c) = IF user = "chat"
                                            THEN {d \in Conns : InTouch(d)} \ {c} ELSE {c}
    BY DEF NobodyLost
  <2>1. \A d \in Conns : Listed(conn[d], d \in m_clients)
    BY DEF ListInv
  <2>2. user = "chat" => m_clients = {d \in Conns : InTouch(d)}
    BY <2>1 DEF ListInv, Listed, InTouch
  <2>3. QED
    BY <2>1, <2>2 DEF Listed, InTouch, Recipients, Others, Echo
<1>2. QED
  BY <1>1, ListsAreTrue, NothingIsLost, ExamplesAreUsers, PTL

(* What is proved of every user, said of the system with the programs.     *)
THEOREM ProgramsServeLegally ==
    ExampleSpec => [](UpgradeIsLegal /\ LegalIsServed /\ ListensAsItSays)
BY ExamplesAreUsers, UpgradesAreLegal, LegalServed, ElementListens, PTL
=============================================================================
