--------------------------- MODULE QWebSocketFrame ---------------------------
(***************************************************************************)
(* Frames of the web socket protocol on the wire: how QWebSocketPrivate    *)
(* writes them (getFrameHeader, doWriteFrames) and how                     *)
(* QWebSocketFrame::readFrame reads them back, field by field, from        *)
(* however many bytes have arrived.                                        *)
(*                                                                         *)
(* A byte on the wire is a record.  A field of the header that the code    *)
(* only ever reads as a whole (an extended length, the masking key) is one *)
(* record; the two header bytes and the bytes of the payload are one each. *)
(* A payload byte is [v, m]: its value and the mask it carries, so that    *)
(* xor with a key is addition modulo 2.  The limits 125, 65535, 2^63 - 1   *)
(* and INT_MAX are constants, so that small payloads reach every form.     *)
(***************************************************************************)
EXTENDS Integers, Sequences, SequencesExt

CONSTANTS
    Len7,        \* longest payload whose length is in the header byte (125)
    Len16,       \* longest payload with a 16 bit length (65535)
    Len63,       \* longest payload a 64 bit length may announce (2^63 - 1)
    MaxFrame,    \* MAX_FRAME_SIZE_IN_BYTES of a frame that is read
    FrameSize    \* FRAME_SIZE_IN_BYTES: where a message that is sent is cut

ASSUME LimitsAssumption ==
    /\ {Len7, Len16, Len63, MaxFrame, FrameSize} \subseteq Nat \ {0}
    /\ Len7 < Len16 /\ Len16 < MaxFrame /\ MaxFrame <= Len63
    /\ FrameSize <= MaxFrame

Control == {"close", "ping", "pong", "reservedB"}

\* The close codes that a connection of this library can see or send.
CloseCodeNormal == 1000
CloseCodeGoingAway == 1001
CloseCodeProtocolError == 1002
CloseCodeMissingStatusCode == 1005
CloseCodeWrongDatatype == 1007
CloseCodeTooMuchData == 1009

isOpCodeReserved(op) == op \in {"reserved3", "reservedB"}

isCloseCodeValid(code) ==
    /\ code > 999 /\ code < 5000
    /\ code \notin {1004, CloseCodeMissingStatusCode, 1006}
    /\ code >= 3000 \/ code < 1012

(***************************************************************************)
(* Writing.                                                                *)
(***************************************************************************)
\* xor of every byte of a payload with a key.
Mask(payload, key) ==
    [i \in DOMAIN payload |-> [payload[i] EXCEPT !.m = (@ + key) % 2]]

Plain(values) == [i \in DOMAIN values |-> [v |-> values[i], m |-> 0]]

getFrameHeader(op, n, key, fin) ==
    LET first  == [fin |-> fin, rsv |-> FALSE, op |-> op]
        second == [masked |-> key # 0,
                   len |-> IF n <= Len7 THEN n
                           ELSE IF n <= Len16 THEN Len7 + 1 ELSE Len7 + 2]
    IN  <<first, second>>
        \o (IF n <= Len7 THEN <<>> ELSE <<[n |-> n]>>)
        \o (IF key = 0 THEN <<>> ELSE <<[key |-> key]>>)

FrameBytes(op, values, key, fin) ==
    getFrameHeader(op, Len(values), key, fin) \o Mask(Plain(values), key)

\* Mutant: only whole and started frames are counted, so an empty message has none.
NumFramesNoEmpty(values) == (Len(values) + FrameSize - 1) \div FrameSize

\* A message of zero bytes still takes a frame.
NumFrames(values) ==
    IF values = <<>> THEN 1 ELSE (Len(values) + FrameSize - 1) \div FrameSize

MessageBytes(op, values, keys) ==
    LET piece(i) == SubSeq(values, (i - 1) * FrameSize + 1,
                           IF i * FrameSize < Len(values) THEN i * FrameSize ELSE Len(values))
        n == NumFrames(values)
    IN  FlattenSeq([i \in 1..n |->
            FrameBytes(IF i = 1 THEN op ELSE "continue", piece(i), keys[i], i = n)])

(***************************************************************************)
(* Reading.  A reader is the state of one call of readFrame together with  *)
(* the bytes that its device holds:                                        *)
(*   in      bytes that have arrived and have not been read,               *)
(*   st      processingState of the call ("done": it has returned),        *)
(*   fin, op, masked, key, plen, payload   the frame read so far,          *)
(*   valid, code                           isValid() and the close code.   *)
(***************************************************************************)
NewReader(bytes) ==
    [in |-> bytes, st |-> "header", fin |-> TRUE, op |-> "reservedB", masked |-> FALSE, key |-> 0,
     plen |-> 0, payload |-> <<>>, valid |-> FALSE, code |-> CloseCodeNormal]

\* clear(): what was read of the frame is forgotten.
Cleared(r) == NewReader(r.in)

setError(r, closeCode) == [Cleared(r) EXCEPT !.st = "done", !.code = closeCode]

\* The number of bytes (records) the next step of the call waits for.
Needed(r) ==
    CASE r.st = "header" -> 2
      [] r.st \in {"length", "bigLength", "mask"} -> 1
      [] r.st = "payload" -> IF r.plen > MaxFrame THEN 0 ELSE r.plen
      [] OTHER -> 0

CanRead(r) == r.st # "done" /\ Len(r.in) >= Needed(r)

Take(r) == [r EXCEPT !.in = SubSeq(@, Needed(r) + 1, Len(@))]

AfterLength(r, n) == [r EXCEPT !.plen = n, !.st = IF r.masked THEN "mask" ELSE "payload"]

checkValidity(first, second) ==
    /\ ~first.rsv
    /\ ~isOpCodeReserved(first.op)
    /\ first.op \in Control => second.len <= Len7 /\ first.fin

ReadHeader(r) ==
    LET first == r.in[1]
        second == r.in[2]
        got == [Take(r) EXCEPT !.fin = first.fin, !.op = first.op, !.masked = second.masked,
                               !.valid = TRUE]
    IN  IF ~checkValidity(first, second) THEN setError(got, CloseCodeProtocolError)
        ELSE IF second.len = Len7 + 1 THEN [got EXCEPT !.st = "length"]
        ELSE IF second.len = Len7 + 2 THEN [got EXCEPT !.st = "bigLength"]
        ELSE AfterLength(got, second.len)

\* Mutant: the shortest length of the 16 bit form is refused.
ReadLengthStrict(r) ==
    LET n == r.in[1].n
    IN  IF \/ r.st = "length" /\ n <= Len7 + 1
           \/ r.st = "bigLength" /\ (n > Len63 \/ n <= Len16)
        THEN setError(Take(r), CloseCodeProtocolError)
        ELSE AfterLength(Take(r), n)

\* The length must take the shortest form that holds it.
ReadLength(r) ==
    LET n == r.in[1].n
    IN  IF \/ r.st = "length" /\ n <= Len7
           \/ r.st = "bigLength" /\ (n > Len63 \/ n <= Len16)
        THEN setError(Take(r), CloseCodeProtocolError)
        ELSE AfterLength(Take(r), n)

ReadMask(r) == [Take(r) EXCEPT !.key = r.in[1].key, !.st = "payload"]

ReadPayload(r) ==
    IF r.plen > MaxFrame THEN setError(r, CloseCodeTooMuchData)
    ELSE [Take(r) EXCEPT !.st = "done",
             !.payload = Mask(SubSeq(r.in, 1, r.plen), IF r.masked THEN r.key ELSE 0)]

ReadField(r) ==
    IF ~CanRead(r) THEN r
    ELSE CASE r.st = "header" -> ReadHeader(r)
           [] r.st \in {"length", "bigLength"} -> ReadLength(r)
           [] r.st = "mask" -> ReadMask(r)
           [] r.st = "payload" -> ReadPayload(r)

\* readFrame runs until the frame is complete or the device has too few bytes;
\* a frame has at most four fields.
readFrame(reader) ==
    LET Step(rs) == {ReadField(r) : r \in rs}
    IN  CHOOSE r \in Step(Step(Step(Step({reader})))) : TRUE
=============================================================================
