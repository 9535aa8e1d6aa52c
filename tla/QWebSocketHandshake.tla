------------------------- MODULE QWebSocketHandshake -------------------------
(***************************************************************************)
(* The opening handshake as text: what a client writes                     *)
(* (createHandShakeRequest), how much of it a server must have to accept   *)
(* it (QWebSocketHandshakeRequest::readHandshake), what the server answers *)
(* (QWebSocketHandshakeResponse::getHandshakeResponse) and how the client  *)
(* judges the answer (QWebSocketPrivate::processHandshake).                *)
(*                                                                         *)
(* A request is a record of the facts the code looks at:                   *)
(*   words     words on the request line     verb, http   its parts, http  *)
(*             10 * major + minor, or NoNumber                               *)
(*   lines     number of header lines        long   a line is too long     *)
(*   fields    every line has a ": "                                       *)
(*   uri       "relative", or what host an absolute URI names, "" for none *)
(*   host      the Host header: "", a host, or one with a user in front    *)
(*   versions  Sec-WebSocket-Version, NoNumber for what is none            *)
(*   key       "" when absent, "nonce", or what is no nonce                *)
(*   upgrade, connection     the header is there and says so               *)
(*   origin    "" when absent                                              *)
(***************************************************************************)
EXTENDS Integers, Sequences

CONSTANT MaxHeaderLines      \* MAX_HEADERLINES

ASSUME MaxHeaderLinesAssumption == MaxHeaderLines \in Nat \ {0}

NoNumber == -1

\* Mutant: only a draft is spoken.
supportedVersionsDraft == {8}

supportedVersions == {13}

\* How much of a request has arrived: canReadLine() is true from FirstLine on;
\* of what is there up to the empty line the last line feed may be missing.
Nothing == 0
FirstLine == 1
EmptyLine == 2

\* The request that open() writes; the empty request when a part of it has a
\* line break in it.
createHandShakeRequest(breaks, origin) ==
    [words |-> IF breaks THEN 0 ELSE 3, verb |-> "GET", http |-> 11, lines |-> 5, long |-> FALSE,
     fields |-> TRUE, uri |-> "relative", host |-> "host", versions |-> <<13>>, key |-> "nonce",
     upgrade |-> TRUE, connection |-> TRUE, origin |-> origin]

(***************************************************************************)
(* readHandshake: the stream ends where the bytes that have arrived end.   *)
(***************************************************************************)
\* m_requestUrl.host().
RequestHost(r) == IF r.uri = "relative" THEN r.host ELSE r.uri

Invalid == [valid |-> FALSE, versions |-> {}, origin |-> ""]

\* Mutant: the end of what has arrived is taken for the end of the headers.
UnreadableAtEnd(r, got) ==
    \/ r.long
    \/ r.words < 3
    \/ r.http = NoNumber
    \/ ~r.fields
    \/ r.lines > MaxHeaderLines
    \/ r.uri = "relative" /\ r.host = "user@host"
    \/ \E i \in DOMAIN r.versions : r.versions[i] = NoNumber

\* clear() and return, before the fields are looked at.
Unreadable(r, got) ==
    \/ r.long
    \/ r.words < 3
    \/ r.http = NoNumber
    \/ got < EmptyLine           \* a null line where a header should be
    \/ ~r.fields
    \/ r.lines > MaxHeaderLines
    \/ r.uri = "relative" /\ r.host = "user@host"
    \/ \E i \in DOMAIN r.versions : r.versions[i] = NoNumber

readHandshake(r, got) ==
    IF \/ Unreadable(r, got)
       \/ RequestHost(r) = ""
       \/ r.versions = <<>>
       \/ r.key = ""
       \/ r.verb # "GET"
       \/ r.http < 11
       \/ ~r.upgrade \/ ~r.connection
    THEN Invalid
    ELSE [valid |-> TRUE, versions |-> {r.versions[i] : i \in DOMAIN r.versions},
          origin |-> r.origin]

(***************************************************************************)
(* getHandshakeResponse: the status lines of the answer, whether it        *)
(* upgrades the connection, the error, and the version it accepts.  A line *)
(* break in the server's name is found after the 101 was put down, which   *)
(* stays there, above a 400.                                               *)
(***************************************************************************)
getHandshakeResponse(request, allowed, breaks) ==
    LET matching == request.versions \cap supportedVersions
        refuse(lines, error) ==
            [lines |-> lines, canUpgrade |-> FALSE, error |-> error]
    IN  IF ~allowed THEN refuse(<<403>>, "policy")
        ELSE IF ~request.valid THEN refuse(<<400>>, "protocol")
        ELSE IF matching = {} THEN refuse(<<400>>, "protocol")
        ELSE IF breaks THEN refuse(<<101, 400>>, "abnormal")
        ELSE [lines |-> <<101>>, canUpgrade |-> TRUE, error |-> "normal"]

(***************************************************************************)
(* The client's side.  A response is a record of                           *)
(*   status     the code on the status line, NoNumber when it is none,       *)
(*   http       10 * major + minor,                                        *)
(*   key        "none", "right" or "wrong": the accept key,                *)
(*   upgrade, connection    the header is there and says so.               *)
(***************************************************************************)
parseStatusLine(response) == response.status # NoNumber

\* ParsingHeaderState: whether the headers, under the status line that was
\* read last, complete the handshake.
Accepts(status, http, headers) ==
    /\ status = 101
    /\ http >= 11 /\ http % 10 >= 1
    /\ headers.key = "right"
    /\ headers.upgrade /\ headers.connection
=============================================================================
