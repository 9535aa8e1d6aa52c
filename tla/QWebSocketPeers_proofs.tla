----------------------- MODULE QWebSocketPeers_proofs -----------------------
(***************************************************************************)
(* Proofs about the parts of two connected web sockets: what one end       *)
(* writes the other reads back, however it is cut on the way; when an end  *)
(* is open, closed and disconnected; and what the frames that an end has   *)
(* read decide about the next one.                                         *)
(***************************************************************************)
EXTENDS QWebSocketPeers, SequenceTheorems, WellFoundedInduction, FiniteSetTheorems, TLAPS

-----------------------------------------------------------------------------
(* Readers as records: what an update of some of their fields makes.       *)

Rd(in, st, fn, op, masked, key, plen, payload, valid, code) ==
    [in |-> in, st |-> st, fin |-> fn, op |-> op, masked |-> masked, key |-> key,
     plen |-> plen, payload |-> payload, valid |-> valid, code |-> code]

Yes == TRUE
No == FALSE

Failed(in, code) == Rd(in, "done", Yes, "reservedB", No, 0, 0, <<>>, No, code)

ReadersOf(X) ==
    [in : X, st : X, fin : X, op : X, masked : X, key : X, plen : X, payload : X,
     valid : X, code : X]

LEMMA ReadersAreRd ==
    ASSUME NEW X, NEW r \in ReadersOf(X)
    PROVE  r = Rd(r.in, r.st, r.fin, r.op, r.masked, r.key, r.plen, r.payload, r.valid, r.code)
  BY DEF ReadersOf, Rd

LEMMA RdFields ==
    ASSUME NEW in, NEW st, NEW fn, NEW op, NEW masked, NEW key, NEW plen, NEW payload,
           NEW valid, NEW code, NEW r,
           r = Rd(in, st, fn, op, masked, key, plen, payload, valid, code)
    PROVE  /\ r.in = in /\ r.st = st /\ r.fin = fn /\ r.op = op /\ r.masked = masked
           /\ r.key = key /\ r.plen = plen /\ r.payload = payload /\ r.valid = valid
           /\ r.code = code
           /\ \A X : {in, st, fn, op, masked, key, plen, payload, valid, code} \subseteq X
                         => r \in ReadersOf(X)
  BY DEF Rd, ReadersOf

WithLength(r, a, b) == [r EXCEPT !.plen = a, !.st = b]
WithKey(r, a, b) == [r EXCEPT !.key = a, !.st = b]
WithPayload(r, a, b) == [r EXCEPT !.st = a, !.payload = b]
WithCode(r, a, b) == [r EXCEPT !.st = a, !.code = b]
WithHeader(r, a, b, c, d) == [r EXCEPT !.fin = a, !.op = b, !.masked = c, !.valid = d]

LEMMA InSet ==
    ASSUME NEW in, NEW st, NEW fn, NEW op, NEW masked, NEW key, NEW plen, NEW payload,
           NEW valid, NEW code, NEW a, NEW r,
           r = Rd(in, st, fn, op, masked, key, plen, payload, valid, code)
    PROVE  [r EXCEPT !.in = a] = Rd(a, st, fn, op, masked, key, plen, payload, valid, code)
<1> DEFINE X == {in, st, fn, op, masked, key, plen, payload, valid, code, a}
           t == [r EXCEPT !.in = a]
<1>1. r \in ReadersOf(X) /\ a \in X
  BY RdFields
<1>2. /\ r.in = in /\ r.st = st /\ r.fin = fn /\ r.op = op /\ r.masked = masked
      /\ r.key = key /\ r.plen = plen /\ r.payload = payload /\ r.valid = valid
      /\ r.code = code
  BY RdFields
<1> HIDE DEF X
<1>3. /\ t \in ReadersOf(X)
      /\ t.in = a /\ t.st = r.st /\ t.fin = r.fin /\ t.op = r.op
      /\ t.masked = r.masked /\ t.key = r.key /\ t.plen = r.plen /\ t.payload = r.payload
      /\ t.valid = r.valid /\ t.code = r.code
  BY <1>1 DEF ReadersOf
<1> HIDE DEF t
<1>4. t = Rd(a, st, fn, op, masked, key, plen, payload, valid, code)
  BY <1>2, <1>3, ReadersAreRd
<1> QED
  BY <1>4 DEF t

LEMMA StSet ==
    ASSUME NEW in, NEW st, NEW fn, NEW op, NEW masked, NEW key, NEW plen, NEW payload,
           NEW valid, NEW code, NEW a, NEW r,
           r = Rd(in, st, fn, op, masked, key, plen, payload, valid, code)
    PROVE  [r EXCEPT !.st = a] = Rd(in, a, fn, op, masked, key, plen, payload, valid, code)
<1> DEFINE X == {in, st, fn, op, masked, key, plen, payload, valid, code, a}
           t == [r EXCEPT !.st = a]
<1>1. r \in ReadersOf(X) /\ a \in X
  BY RdFields
<1>2. /\ r.in = in /\ r.st = st /\ r.fin = fn /\ r.op = op /\ r.masked = masked
      /\ r.key = key /\ r.plen = plen /\ r.payload = payload /\ r.valid = valid
      /\ r.code = code
  BY RdFields
<1> HIDE DEF X
<1>3. /\ t \in ReadersOf(X)
      /\ t.in = r.in /\ t.st = a /\ t.fin = r.fin /\ t.op = r.op
      /\ t.masked = r.masked /\ t.key = r.key /\ t.plen = r.plen /\ t.payload = r.payload
      /\ t.valid = r.valid /\ t.code = r.code
  BY <1>1 DEF ReadersOf
<1> HIDE DEF t
<1>4. t = Rd(in, a, fn, op, masked, key, plen, payload, valid, code)
  BY <1>2, <1>3, ReadersAreRd
<1> QED
  BY <1>4 DEF t

LEMMA LengthSet ==
    ASSUME NEW in, NEW st, NEW fn, NEW op, NEW masked, NEW key, NEW plen, NEW payload,
           NEW valid, NEW code, NEW a, NEW b, NEW r,
           r = Rd(in, st, fn, op, masked, key, plen, payload, valid, code)
    PROVE  WithLength(r, a, b) = Rd(in, b, fn, op, masked, key, a, payload, valid, code)
<1> DEFINE X == {in, st, fn, op, masked, key, plen, payload, valid, code, a, b}
           t == [r EXCEPT !.plen = a, !.st = b]
<1>1. r \in ReadersOf(X) /\ a \in X /\ b \in X
  BY RdFields
<1>2. /\ r.in = in /\ r.st = st /\ r.fin = fn /\ r.op = op /\ r.masked = masked
      /\ r.key = key /\ r.plen = plen /\ r.payload = payload /\ r.valid = valid
      /\ r.code = code
  BY RdFields
<1> HIDE DEF X
<1>3. /\ t \in ReadersOf(X)
      /\ t.in = r.in /\ t.st = b /\ t.fin = r.fin /\ t.op = r.op
      /\ t.masked = r.masked /\ t.key = r.key /\ t.plen = a /\ t.payload = r.payload
      /\ t.valid = r.valid /\ t.code = r.code
  BY <1>1 DEF ReadersOf
<1> HIDE DEF t
<1>4. t = Rd(in, b, fn, op, masked, key, a, payload, valid, code)
  BY <1>2, <1>3, ReadersAreRd
<1> QED
  BY <1>4 DEF t, WithLength

LEMMA KeySet ==
    ASSUME NEW in, NEW st, NEW fn, NEW op, NEW masked, NEW key, NEW plen, NEW payload,
           NEW valid, NEW code, NEW a, NEW b, NEW r,
           r = Rd(in, st, fn, op, masked, key, plen, payload, valid, code)
    PROVE  WithKey(r, a, b) = Rd(in, b, fn, op, masked, a, plen, payload, valid, code)
<1> DEFINE X == {in, st, fn, op, masked, key, plen, payload, valid, code, a, b}
           t == [r EXCEPT !.key = a, !.st = b]
<1>1. r \in ReadersOf(X) /\ a \in X /\ b \in X
  BY RdFields
<1>2. /\ r.in = in /\ r.st = st /\ r.fin = fn /\ r.op = op /\ r.masked = masked
      /\ r.key = key /\ r.plen = plen /\ r.payload = payload /\ r.valid = valid
      /\ r.code = code
  BY RdFields
<1> HIDE DEF X
<1>3. /\ t \in ReadersOf(X)
      /\ t.in = r.in /\ t.st = b /\ t.fin = r.fin /\ t.op = r.op
      /\ t.masked = r.masked /\ t.key = a /\ t.plen = r.plen /\ t.payload = r.payload
      /\ t.valid = r.valid /\ t.code = r.code
  BY <1>1 DEF ReadersOf
<1> HIDE DEF t
<1>4. t = Rd(in, b, fn, op, masked, a, plen, payload, valid, code)
  BY <1>2, <1>3, ReadersAreRd
<1> QED
  BY <1>4 DEF t, WithKey

LEMMA PayloadSet ==
    ASSUME NEW in, NEW st, NEW fn, NEW op, NEW masked, NEW key, NEW plen, NEW payload,
           NEW valid, NEW code, NEW a, NEW b, NEW r,
           r = Rd(in, st, fn, op, masked, key, plen, payload, valid, code)
    PROVE  WithPayload(r, a, b) = Rd(in, a, fn, op, masked, key, plen, b, valid, code)
<1> DEFINE X == {in, st, fn, op, masked, key, plen, payload, valid, code, a, b}
           t == [r EXCEPT !.st = a, !.payload = b]
<1>1. r \in ReadersOf(X) /\ a \in X /\ b \in X
  BY RdFields
<1>2. /\ r.in = in /\ r.st = st /\ r.fin = fn /\ r.op = op /\ r.masked = masked
      /\ r.key = key /\ r.plen = plen /\ r.payload = payload /\ r.valid = valid
      /\ r.code = code
  BY RdFields
<1> HIDE DEF X
<1>3. /\ t \in ReadersOf(X)
      /\ t.in = r.in /\ t.st = a /\ t.fin = r.fin /\ t.op = r.op
      /\ t.masked = r.masked /\ t.key = r.key /\ t.plen = r.plen /\ t.payload = b
      /\ t.valid = r.valid /\ t.code = r.code
  BY <1>1 DEF ReadersOf
<1> HIDE DEF t
<1>4. t = Rd(in, a, fn, op, masked, key, plen, b, valid, code)
  BY <1>2, <1>3, ReadersAreRd
<1> QED
  BY <1>4 DEF t, WithPayload

LEMMA CodeSet ==
    ASSUME NEW in, NEW st, NEW fn, NEW op, NEW masked, NEW key, NEW plen, NEW payload,
           NEW valid, NEW code, NEW a, NEW b, NEW r,
           r = Rd(in, st, fn, op, masked, key, plen, payload, valid, code)
    PROVE  WithCode(r, a, b) = Rd(in, a, fn, op, masked, key, plen, payload, valid, b)
<1> DEFINE X == {in, st, fn, op, masked, key, plen, payload, valid, code, a, b}
           t == [r EXCEPT !.st = a, !.code = b]
<1>1. r \in ReadersOf(X) /\ a \in X /\ b \in X
  BY RdFields
<1>2. /\ r.in = in /\ r.st = st /\ r.fin = fn /\ r.op = op /\ r.masked = masked
      /\ r.key = key /\ r.plen = plen /\ r.payload = payload /\ r.valid = valid
      /\ r.code = code
  BY RdFields
<1> HIDE DEF X
<1>3. /\ t \in ReadersOf(X)
      /\ t.in = r.in /\ t.st = a /\ t.fin = r.fin /\ t.op = r.op
      /\ t.masked = r.masked /\ t.key = r.key /\ t.plen = r.plen /\ t.payload = r.payload
      /\ t.valid = r.valid /\ t.code = b
  BY <1>1 DEF ReadersOf
<1> HIDE DEF t
<1>4. t = Rd(in, a, fn, op, masked, key, plen, payload, valid, b)
  BY <1>2, <1>3, ReadersAreRd
<1> QED
  BY <1>4 DEF t, WithCode

LEMMA HeaderSet ==
    ASSUME NEW in, NEW st, NEW fn, NEW op, NEW masked, NEW key, NEW plen, NEW payload,
           NEW valid, NEW code, NEW a, NEW b, NEW c, NEW d, NEW r,
           r = Rd(in, st, fn, op, masked, key, plen, payload, valid, code)
    PROVE  WithHeader(r, a, b, c, d) = Rd(in, st, a, b, c, key, plen, payload, d, code)
<1> DEFINE X == {in, st, fn, op, masked, key, plen, payload, valid, code, a, b, c, d}
           t == [r EXCEPT !.fin = a, !.op = b, !.masked = c, !.valid = d]
<1>1. r \in ReadersOf(X) /\ a \in X /\ b \in X /\ c \in X /\ d \in X
  BY RdFields
<1>2. /\ r.in = in /\ r.st = st /\ r.fin = fn /\ r.op = op /\ r.masked = masked
      /\ r.key = key /\ r.plen = plen /\ r.payload = payload /\ r.valid = valid
      /\ r.code = code
  BY RdFields
<1> HIDE DEF X
<1>3. /\ t \in ReadersOf(X)
      /\ t.in = r.in /\ t.st = r.st /\ t.fin = a /\ t.op = b
      /\ t.masked = c /\ t.key = r.key /\ t.plen = r.plen /\ t.payload = r.payload
      /\ t.valid = d /\ t.code = r.code
  BY <1>1 DEF ReadersOf
<1> HIDE DEF t
<1>4. t = Rd(in, st, a, b, c, key, plen, payload, d, code)
  BY <1>2, <1>3, ReadersAreRd
<1> QED
  BY <1>4 DEF t, WithHeader


-----------------------------------------------------------------------------
(* The fields of a frame, whatever bytes are met.                          *)

LEMMA NewReaderIs ==
    ASSUME NEW bytes
    PROVE  NewReader(bytes) = Rd(bytes, "header", Yes, "reservedB", No, 0, 0, <<>>,
                                 No, CloseCodeNormal)
  BY DEF NewReader, Rd, Yes, No

LEMMA ErrorIs ==
    ASSUME NEW r, NEW cc
    PROVE  setError(r, cc) = Failed(r.in, cc)
<1>1. Cleared(r) = Rd(r.in, "header", Yes, "reservedB", No, 0, 0, <<>>, No, CloseCodeNormal)
  BY NewReaderIs DEF Cleared
<1>2. setError(r, cc) = WithCode(Cleared(r), "done", cc)
  BY DEF setError, WithCode
<1> QED
  BY <1>1, <1>2, CodeSet DEF Failed

\* What follows the next n bytes.
Past(in, n) == SubSeq(in, n + 1, Len(in))

LEMMA TakeIs ==
    ASSUME NEW in, NEW st, NEW fn, NEW op, NEW masked, NEW key, NEW plen, NEW payload,
           NEW valid, NEW code, NEW r,
           r = Rd(in, st, fn, op, masked, key, plen, payload, valid, code)
    PROVE  Take(r) = Rd(Past(in, Needed(r)), st, fn, op, masked, key, plen, payload, valid, code)
<1>1. r.in = in
  BY RdFields
<1>2. r \in ReadersOf({in, st, fn, op, masked, key, plen, payload, valid, code})
  BY RdFields
<1>3. Take(r) = [r EXCEPT !.in = Past(in, Needed(r))]
  BY <1>1, <1>2 DEF Take, Past, ReadersOf
<1> QED
  BY <1>3, InSet

LEMMA HeaderIs ==
    ASSUME NEW in, NEW fn, NEW op, NEW masked, NEW key, NEW plen, NEW payload,
           NEW valid, NEW code, NEW r,
           r = Rd(in, "header", fn, op, masked, key, plen, payload, valid, code)
    PROVE  ReadHeader(r) =
              IF ~checkValidity(in[1], in[2]) THEN Failed(Past(in, 2), CloseCodeProtocolError)
              ELSE IF in[2].len = Len7 + 1
              THEN Rd(Past(in, 2), "length", in[1].fin, in[1].op, in[2].masked, key, plen,
                      payload, Yes, code)
              ELSE IF in[2].len = Len7 + 2
              THEN Rd(Past(in, 2), "bigLength", in[1].fin, in[1].op, in[2].masked, key, plen,
                      payload, Yes, code)
              ELSE Rd(Past(in, 2), IF in[2].masked THEN "mask" ELSE "payload",
                      in[1].fin, in[1].op, in[2].masked, key, in[2].len, payload, Yes, code)
<1> DEFINE f == in[1].fin
           o == in[1].op
           m == in[2].masked
           n == in[2].len
           s == Take(r)
           g == WithHeader(s, f, o, m, Yes)
           ok == checkValidity(in[1], in[2])
<1>1. r.in = in /\ Needed(r) = 2
  BY RdFields DEF Needed
<1>2. ReadHeader(r) = IF ~ok THEN setError(g, CloseCodeProtocolError)
                      ELSE IF n = Len7 + 1 THEN [g EXCEPT !.st = "length"]
                      ELSE IF n = Len7 + 2 THEN [g EXCEPT !.st = "bigLength"]
                      ELSE AfterLength(g, n)
  BY <1>1 DEF ReadHeader, WithHeader, Yes
<1>3. s = Rd(Past(in, 2), "header", fn, op, masked, key, plen, payload, valid, code)
  BY <1>1, TakeIs
<1> HIDE DEF s, f, o, m, n, ok
<1>4. g = Rd(Past(in, 2), "header", f, o, m, key, plen, payload, Yes, code)
  BY <1>3, HeaderSet
<1> HIDE DEF g
<1>5. g.in = Past(in, 2) /\ g.masked = m
  BY <1>4, RdFields
<1>6. setError(g, CloseCodeProtocolError) = Failed(Past(in, 2), CloseCodeProtocolError)
  BY <1>5, ErrorIs
<1>7. [g EXCEPT !.st = "length"]
          = Rd(Past(in, 2), "length", f, o, m, key, plen, payload, Yes, code)
  BY <1>4, StSet
<1>8. [g EXCEPT !.st = "bigLength"]
          = Rd(Past(in, 2), "bigLength", f, o, m, key, plen, payload, Yes, code)
  BY <1>4, StSet
<1>9. AfterLength(g, n)
          = Rd(Past(in, 2), IF m THEN "mask" ELSE "payload", f, o, m, key, n, payload, Yes, code)
  <2> DEFINE next == IF m THEN "mask" ELSE "payload"
  <2>1. AfterLength(g, n) = WithLength(g, n, next)
    BY <1>5 DEF AfterLength, WithLength
  <2> HIDE DEF next
  <2>2. AfterLength(g, n) = Rd(Past(in, 2), next, f, o, m, key, n, payload, Yes, code)
    BY <1>4, <2>1, LengthSet
  <2> QED
    BY <2>2 DEF next
<1> QED
  BY <1>2, <1>6, <1>7, <1>8, <1>9 DEF f, o, m, n, ok

\* A length that is not written in the shortest form, or that is too long.
BadLength(st, n) ==
    \/ st = "length" /\ n <= Len7
    \/ st = "bigLength" /\ (n > Len63 \/ n <= Len16)

LEMMA LengthIs ==
    ASSUME NEW in, NEW st \in {"length", "bigLength"}, NEW fn, NEW op, NEW masked, NEW key,
           NEW plen, NEW payload, NEW valid, NEW code, NEW r,
           r = Rd(in, st, fn, op, masked, key, plen, payload, valid, code)
    PROVE  ReadLength(r) =
              IF BadLength(st, in[1].n) THEN Failed(Past(in, 1), CloseCodeProtocolError)
              ELSE Rd(Past(in, 1), IF masked THEN "mask" ELSE "payload", fn, op, masked, key,
                      in[1].n, payload, valid, code)
<1> DEFINE n == in[1].n
           s == Take(r)
           next == IF masked THEN "mask" ELSE "payload"
<1>1. r.in = in /\ r.st = st
  BY RdFields
<1>2. Needed(r) = 1
  BY <1>1 DEF Needed
<1>3. ReadLength(r) = IF BadLength(st, n) THEN setError(s, CloseCodeProtocolError)
                      ELSE AfterLength(s, n)
  BY <1>1 DEF ReadLength, BadLength
<1>4. s = Rd(Past(in, 1), st, fn, op, masked, key, plen, payload, valid, code)
  BY <1>2, TakeIs
<1> HIDE DEF s, n
<1>5. s.in = Past(in, 1) /\ s.masked = masked
  BY <1>4, RdFields
<1>6. setError(s, CloseCodeProtocolError) = Failed(Past(in, 1), CloseCodeProtocolError)
  BY <1>5, ErrorIs
<1>7. AfterLength(s, n) = WithLength(s, n, next)
  BY <1>5 DEF AfterLength, WithLength
<1> HIDE DEF next
<1>8. AfterLength(s, n)
         = Rd(Past(in, 1), next, fn, op, masked, key, n, payload, valid, code)
  BY <1>4, <1>7, LengthSet
<1> QED
  BY <1>3, <1>6, <1>8 DEF n, next

LEMMA MaskIs ==
    ASSUME NEW in, NEW fn, NEW op, NEW masked, NEW key, NEW plen, NEW payload, NEW valid,
           NEW code, NEW r,
           r = Rd(in, "mask", fn, op, masked, key, plen, payload, valid, code)
    PROVE  ReadMask(r) =
              Rd(Past(in, 1), "payload", fn, op, masked, in[1].key, plen, payload, valid, code)
<1> DEFINE k == in[1].key
           s == Take(r)
<1>1. r.in = in /\ r.st = "mask"
  BY RdFields
<1>2. Needed(r) = 1
  BY <1>1 DEF Needed
<1>3. ReadMask(r) = WithKey(s, k, "payload")
  BY <1>1 DEF ReadMask, WithKey
<1>4. s = Rd(Past(in, 1), "mask", fn, op, masked, key, plen, payload, valid, code)
  BY <1>2, TakeIs
<1> HIDE DEF s, k
<1>5. ReadMask(r) = Rd(Past(in, 1), "payload", fn, op, masked, k, plen, payload, valid, code)
  BY <1>3, <1>4, KeySet
<1> QED
  BY <1>5 DEF k

LEMMA PayloadIs ==
    ASSUME NEW in, NEW fn, NEW op, NEW masked, NEW key, NEW plen, NEW payload, NEW valid,
           NEW code, NEW r,
           r = Rd(in, "payload", fn, op, masked, key, plen, payload, valid, code)
    PROVE  ReadPayload(r) =
              IF plen > MaxFrame THEN Failed(in, CloseCodeTooMuchData)
              ELSE Rd(Past(in, plen), "done", fn, op, masked, key, plen,
                      Mask(SubSeq(in, 1, plen), IF masked THEN key ELSE 0), valid, code)
<1> DEFINE p == Mask(SubSeq(in, 1, plen), IF masked THEN key ELSE 0)
           s == Take(r)
<1>1. r.in = in /\ r.st = "payload" /\ r.plen = plen /\ r.masked = masked /\ r.key = key
  BY RdFields
<1>2. ReadPayload(r) = IF plen > MaxFrame THEN setError(r, CloseCodeTooMuchData)
                       ELSE WithPayload(s, "done", p)
  BY <1>1 DEF ReadPayload, WithPayload
<1>3. setError(r, CloseCodeTooMuchData) = Failed(in, CloseCodeTooMuchData)
  BY <1>1, ErrorIs
<1>4. ASSUME ~(plen > MaxFrame)
      PROVE  WithPayload(s, "done", p)
                = Rd(Past(in, plen), "done", fn, op, masked, key, plen, p, valid, code)
  <2>1. Needed(r) = plen
    BY <1>1, <1>4 DEF Needed
  <2>2. s = Rd(Past(in, plen), "payload", fn, op, masked, key, plen, payload, valid, code)
    BY <2>1, TakeIs
  <2> HIDE DEF s, p
  <2> QED
    BY <2>2, PayloadSet
<1> QED
  BY <1>2, <1>3, <1>4

\* Which field is read next.
LEMMA HeaderStep ==
    ASSUME NEW r, r.st = "header", Len(r.in) >= 2
    PROVE  ReadField(r) = ReadHeader(r)
<1>1. CanRead(r)
  BY DEF CanRead, Needed
<1> QED
  BY <1>1 DEF ReadField

LEMMA LengthStep ==
    ASSUME NEW r, r.st \in {"length", "bigLength"}, Len(r.in) >= 1
    PROVE  ReadField(r) = ReadLength(r)
<1>1. CanRead(r)
  BY DEF CanRead, Needed
<1> QED
  BY <1>1 DEF ReadField

LEMMA MaskStep ==
    ASSUME NEW r, r.st = "mask", Len(r.in) >= 1
    PROVE  ReadField(r) = ReadMask(r)
<1>1. CanRead(r)
  BY DEF CanRead, Needed
<1> QED
  BY <1>1 DEF ReadField

LEMMA PayloadStep ==
    ASSUME NEW r, r.st = "payload", ~(r.plen > MaxFrame), Len(r.in) >= r.plen
    PROVE  ReadField(r) = ReadPayload(r)
<1>1. CanRead(r)
  BY DEF CanRead, Needed
<1> QED
  BY <1>1 DEF ReadField

LEMMA PayloadRefusedStep ==
    ASSUME NEW r, r.st = "payload", r.plen > MaxFrame, Len(r.in) >= 0
    PROVE  ReadField(r) = ReadPayload(r)
<1>1. CanRead(r)
  BY LimitsAssumption DEF CanRead, Needed
<1> QED
  BY <1>1 DEF ReadField

-----------------------------------------------------------------------------
(* What is read: a frame that is valid has an opcode that is not reserved. *)

IsReader(r) ==
    r = Rd(r.in, r.st, r.fin, r.op, r.masked, r.key, r.plen, r.payload, r.valid, r.code)

LegalOp(valid, op) == valid => ~isOpCodeReserved(op)

Stages == {"header", "length", "bigLength", "mask", "payload", "done"}

Known(r) == IsReader(r) /\ r.st \in Stages /\ LegalOp(r.valid, r.op)

LEMMA RdIsReader ==
    ASSUME NEW in, NEW st, NEW fn, NEW op, NEW masked, NEW key, NEW plen, NEW payload,
           NEW valid, NEW code, NEW r,
           r = Rd(in, st, fn, op, masked, key, plen, payload, valid, code)
    PROVE  IsReader(r) /\ (LegalOp(valid, op) /\ st \in Stages => Known(r))
<1>1. /\ r.in = in /\ r.st = st /\ r.fin = fn /\ r.op = op /\ r.masked = masked
      /\ r.key = key /\ r.plen = plen /\ r.payload = payload /\ r.valid = valid
      /\ r.code = code
  BY RdFields
<1> QED
  BY <1>1 DEF IsReader, Known

LEMMA FailedKnown ==
    ASSUME NEW in, NEW code
    PROVE  Known(Failed(in, code))
<1>1. LegalOp(No, "reservedB")
  BY DEF LegalOp, No
<1> QED
  BY <1>1, RdIsReader DEF Failed, Stages

LEMMA NewReaderKnown ==
    ASSUME NEW bytes
    PROVE  Known(NewReader(bytes))
<1>1. LegalOp(No, "reservedB")
  BY DEF LegalOp, No
<1> QED
  BY <1>1, RdIsReader, NewReaderIs DEF Stages

\* One field keeps what is known of the frame.
LEMMA FieldKnown ==
    ASSUME NEW r, Known(r)
    PROVE  Known(ReadField(r))
<1> DEFINE in == r.in
           fn == r.fin
           op == r.op
           masked == r.masked
           key == r.key
           plen == r.plen
           payload == r.payload
           valid == r.valid
           code == r.code
           next == IF masked THEN "mask" ELSE "payload"
<1>1. r = Rd(in, r.st, fn, op, masked, key, plen, payload, valid, code) /\ LegalOp(valid, op)
  BY DEF Known, IsReader
<1>2. CASE ~CanRead(r)
  BY <1>2 DEF ReadField
<1>3. CASE CanRead(r) /\ r.st = "header"
  <2> DEFINE f == in[1].fin
             o == in[1].op
             m == in[2].masked
             n == in[2].len
             mnext == IF m THEN "mask" ELSE "payload"
             ok == checkValidity(in[1], in[2])
  <2>1. ReadField(r) = ReadHeader(r)
    BY <1>3 DEF ReadField
  <2>2. ok => LegalOp(Yes, o)
    BY DEF checkValidity, LegalOp, Yes
  <2>3. r = Rd(in, "header", fn, op, masked, key, plen, payload, valid, code)
    BY <1>1, <1>3
  <2> HIDE DEF in, fn, op, masked, key, plen, payload, valid, code
  <2>4. ReadHeader(r) =
              IF ~ok THEN Failed(Past(in, 2), CloseCodeProtocolError)
              ELSE IF n = Len7 + 1
              THEN Rd(Past(in, 2), "length", f, o, m, key, plen, payload, Yes, code)
              ELSE IF n = Len7 + 2
              THEN Rd(Past(in, 2), "bigLength", f, o, m, key, plen, payload, Yes, code)
              ELSE Rd(Past(in, 2), mnext, f, o, m, key, n, payload, Yes, code)
    BY <2>3, HeaderIs
  <2> HIDE DEF f, o, m, n, mnext, ok
  <2>5. mnext \in Stages
    BY DEF mnext, Stages
  <2>6. CASE ~ok
    BY <2>1, <2>4, <2>6, FailedKnown
  <2>7. CASE ok
    BY <2>1, <2>2, <2>4, <2>5, <2>7, RdIsReader DEF Stages
  <2> QED
    BY <2>6, <2>7
<1>4. CASE CanRead(r) /\ r.st \in {"length", "bigLength"}
  <2> DEFINE n == in[1].n
             bad == BadLength(r.st, n)
  <2>1. ReadField(r) = ReadLength(r)
    BY <1>4 DEF ReadField
  <2> HIDE DEF in, fn, op, masked, key, plen, payload, valid, code
  <2>2. ReadLength(r) =
              IF bad THEN Failed(Past(in, 1), CloseCodeProtocolError)
              ELSE Rd(Past(in, 1), next, fn, op, masked, key, n, payload, valid, code)
    BY <1>1, <1>4, LengthIs
  <2>3. next \in Stages
    BY DEF Stages
  <2> HIDE DEF n, bad, next
  <2> QED
    BY <1>1, <2>1, <2>2, <2>3, FailedKnown, RdIsReader
<1>5. CASE CanRead(r) /\ r.st = "mask"
  <2>1. ReadField(r) = ReadMask(r)
    BY <1>5 DEF ReadField
  <2> HIDE DEF in, fn, op, masked, key, plen, payload, valid, code
  <2>2. ReadMask(r)
           = Rd(Past(in, 1), "payload", fn, op, masked, in[1].key, plen, payload, valid, code)
    BY <1>1, <1>5, MaskIs
  <2> QED
    BY <1>1, <2>1, <2>2, RdIsReader DEF Stages
<1>6. CASE CanRead(r) /\ r.st = "payload"
  <2> DEFINE p == Mask(SubSeq(in, 1, plen), IF masked THEN key ELSE 0)
  <2>1. ReadField(r) = ReadPayload(r)
    BY <1>6 DEF ReadField
  <2> HIDE DEF in, fn, op, masked, key, plen, payload, valid, code
  <2>2. ReadPayload(r) =
              IF plen > MaxFrame THEN Failed(in, CloseCodeTooMuchData)
              ELSE Rd(Past(in, plen), "done", fn, op, masked, key, plen, p, valid, code)
    BY <1>1, <1>6, PayloadIs
  <2> HIDE DEF p
  <2> QED
    BY <1>1, <2>1, <2>2, FailedKnown, RdIsReader DEF Stages
<1>7. CASE CanRead(r) /\ r.st = "done"
  BY <1>7 DEF CanRead
<1> QED
  BY <1>2, <1>3, <1>4, <1>5, <1>6, <1>7 DEF Known, Stages

LEMMA ReadFrameIs ==
    ASSUME NEW r
    PROVE  readFrame(r) = ReadField(ReadField(ReadField(ReadField(r))))
  BY DEF readFrame

LEMMA FrameKnown ==
    ASSUME NEW r, Known(r)
    PROVE  Known(readFrame(r))
<1>1. Known(ReadField(r))
  BY FieldKnown
<1>2. Known(ReadField(ReadField(r)))
  BY <1>1, FieldKnown
<1>3. Known(ReadField(ReadField(ReadField(r))))
  BY <1>2, FieldKnown
<1> QED
  BY <1>3, FieldKnown, ReadFrameIs

-----------------------------------------------------------------------------
(* The processor emits one of the signals that a slot is connected to.     *)

SignalKinds == {"none", "message", "ping", "pong", "close", "error"}

LEMMA FailIs ==
    ASSUME NEW code
    PROVE  Fail(code).signal.kind = "error" /\ Fail(code).done = TRUE
<1> DEFINE s == [Signal("error") EXCEPT !.code = code]
<1>1. s.kind = "error"
  BY DEF Signal
<1>2. Fail(code) = Outcome(clear, TRUE, s)
  BY DEF Fail
<1> HIDE DEF s
<1> QED
  BY <1>1, <1>2 DEF Outcome

LEMMA CloseSignalIs ==
    ASSUME NEW values
    PROVE  CloseSignal(values).kind = "close"
<1> DEFINE signal(code, reason) == [Signal("close") EXCEPT !.code = code, !.data = reason]
           reason == SubSeq(values, 3, Len(values))
<1>1. \A code, why : signal(code, why).kind = "close"
  BY DEF Signal
<1> HIDE DEF signal
<1>2. CASE values = <<>>
  <2>1. CloseSignal(values) = signal(CloseCodeNormal, <<>>)
    BY <1>2 DEF CloseSignal, signal
  <2> QED
    BY <1>1, <2>1
<1>3. CASE values # <<>> /\ Len(values) = 1
  <2>1. CloseSignal(values) = signal(CloseCodeProtocolError, <<>>)
    BY <1>3 DEF CloseSignal, signal
  <2> QED
    BY <1>1, <2>1
<1>4. CASE values # <<>> /\ Len(values) # 1
  <2>1. \/ CloseSignal(values) = signal(CloseCodeProtocolError, <<>>)
        \/ CloseSignal(values) = signal(values[1], reason)
        \/ CloseSignal(values) = signal(CloseCodeWrongDatatype, <<>>)
    BY <1>4 DEF CloseSignal, signal
  <2> QED
    BY <1>1, <2>1
<1> QED
  BY <1>2, <1>3, <1>4

LEMMA DataSignal ==
    ASSUME NEW p, NEW f
    PROVE  /\ processDataFrame(p, f).signal.kind \in {"none", "message", "error"}
           /\ processDataFrame(p, f).done \in BOOLEAN
<1>1. ASSUME NEW q
      PROVE  /\ AppendFrame(q, f).signal.kind \in {"none", "message", "error"}
             /\ AppendFrame(q, f).done \in BOOLEAN
  <2> DEFINE values == Values(f.payload)
             whole  == [q EXCEPT !.data = @ \o values,
                                 !.remaining = IF q.op = "text" THEN RemainingChars(values, @)
                                               ELSE 0]
             s == [Signal("message") EXCEPT !.op = q.op, !.data = whole.data]
  <2>1. s.kind = "message" /\ Signal("none").kind = "none"
    BY DEF Signal
  <2>2. \/ AppendFrame(q, f) = Fail(CloseCodeTooMuchData)
        \/ AppendFrame(q, f) = Fail(CloseCodeWrongDatatype)
        \/ AppendFrame(q, f) = Outcome(clear, TRUE, s)
        \/ AppendFrame(q, f) = Outcome(whole, FALSE, Signal("none"))
    BY DEF AppendFrame
  <2> HIDE DEF s, whole
  <2>3. CASE AppendFrame(q, f) = Outcome(clear, TRUE, s)
    BY <2>1, <2>3 DEF Outcome
  <2>4. CASE AppendFrame(q, f) = Outcome(whole, FALSE, Signal("none"))
    BY <2>1, <2>4 DEF Outcome
  <2> QED
    BY <2>2, <2>3, <2>4, FailIs
<1>2. \/ processDataFrame(p, f) = Fail(CloseCodeProtocolError)
      \/ \E q : processDataFrame(p, f) = AppendFrame(q, f)
  BY DEF processDataFrame
<1> QED
  BY <1>1, <1>2, FailIs

LEMMA FrameSignal ==
    ASSUME NEW p, NEW r, Known(r)
    PROVE  /\ processFrame(p, r).signal.kind \in SignalKinds
           /\ processFrame(p, r).done \in BOOLEAN
<1>1. CASE ~r.valid
  <2>1. processFrame(p, r) = Fail(r.code)
    BY <1>1 DEF processFrame
  <2> QED
    BY <2>1, FailIs DEF SignalKinds
<1>2. CASE r.valid /\ r.op \in Control
  <2> DEFINE s == IF r.op = "close" THEN CloseSignal(Values(r.payload))
                  ELSE [Signal(r.op) EXCEPT !.data = Values(r.payload)]
  <2>1. r.op \in {"close", "ping", "pong"}
    BY <1>2 DEF Known, LegalOp, isOpCodeReserved, Control
  <2>2. s.kind \in SignalKinds
    <3>1. CASE r.op = "close"
      BY <3>1, CloseSignalIs DEF SignalKinds
    <3>2. CASE r.op # "close"
      <4>1. [Signal(r.op) EXCEPT !.data = Values(r.payload)].kind = r.op
        BY DEF Signal
      <4> QED
        BY <2>1, <3>2, <4>1 DEF SignalKinds
    <3> QED
      BY <3>1, <3>2
  <2>3. processFrame(p, r) = Outcome(p, TRUE, s)
    BY <1>2 DEF processFrame, processControlFrame
  <2> HIDE DEF s
  <2> QED
    BY <2>2, <2>3 DEF Outcome
<1>3. CASE r.valid /\ r.op \notin Control
  <2>1. processFrame(p, r) = processDataFrame(p, r)
    BY <1>3 DEF processFrame
  <2> QED
    BY <2>1, DataSignal DEF SignalKinds
<1> QED
  BY <1>1, <1>2, <1>3

-----------------------------------------------------------------------------
(* When an end is open, closed and disconnected.                           *)

Flags == [Ends -> BOOLEAN]

PeersTyped ==
    /\ kind \in {"qt", "raw"}
    /\ state \in [Ends -> States]
    /\ inside \in Flags
    /\ closeSent \in Flags
    /\ closeRcvd \in Flags
    /\ fin \in Flags
    /\ disconnected \in [Ends -> Nat]

ReadersKnown ==
    /\ reader = [e \in Ends |-> reader[e]]
    /\ \A e \in Ends : Known(reader[e])

PeersInv == PeersTyped /\ ReadersKnown /\ PeersTypeOK

LEMMA EndsAre ==
    /\ "client" \in Ends /\ "server" \in Ends /\ QtEnds \subseteq Ends
    /\ \A e \in Ends : Other(e) \in Ends /\ Other(e) # e
    /\ \A e, d \in Ends : e # d => d = Other(e)
  BY DEF Ends, QtEnds, Other

LEMMA PeersInit == Init => PeersInv
<1> SUFFICES ASSUME Init PROVE PeersInv
  OBVIOUS
<1>1. PeersTyped
  BY KindsAssumption DEF Init, PeersTyped, Flags, States
<1>2. ReadersKnown
  <2>1. reader = [e \in Ends |-> NewReader(<<>>)]
    BY DEF Init
  <2>2. \A e \in Ends : reader[e] = NewReader(<<>>)
    BY <2>1
  <2> QED
    BY <2>1, <2>2, NewReaderKnown DEF ReadersKnown
<1>3. PeersTypeOK
  <2>1. \A e \in Ends : /\ state[e] = "Connected" /\ ~inside[e] /\ ~closeRcvd[e]
                        /\ ~closeSent[e] /\ disconnected[e] = 0
    BY DEF Init
  <2> QED
    BY <1>1, <2>1, EndsAre DEF PeersTypeOK, PeersTyped, DisconnectedOnce, Open
<1> QED
  BY <1>1, <1>2, <1>3 DEF PeersInv

\* A reader that is replaced by a known one leaves all known.
LEMMA ReaderStep ==
    ASSUME ReadersKnown, NEW e \in Ends, NEW r, Known(r),
           reader' = [reader EXCEPT ![e] = r]
    PROVE  ReadersKnown'
<1>1. reader' = [d \in Ends |-> IF d = e THEN r ELSE reader[d]]
  BY DEF ReadersKnown
<1>2. \A d \in Ends : reader'[d] = IF d = e THEN r ELSE reader[d]
  BY <1>1
<1>3. \A d \in Ends : Known(reader'[d])
  BY <1>2 DEF ReadersKnown
<1>4. reader' = [d \in Ends |-> reader'[d]]
  BY <1>1, <1>2
<1>5. \A d \in Ends : Known(reader[d])'
  BY <1>3 DEF Known, IsReader
<1> QED
  BY <1>4, <1>5 DEF ReadersKnown

LEMMA ReadersSame ==
    ASSUME ReadersKnown, reader' = reader
    PROVE  ReadersKnown'
  BY DEF ReadersKnown, Known, IsReader

\* A byte that arrives is no part of the frame read so far.
LEMMA ArrivalKnown ==
    ASSUME NEW r, Known(r), NEW byte
    PROVE  Known([r EXCEPT !.in = Append(@, byte)])
<1> DEFINE more == Append(r.in, byte)
<1>1. /\ r = Rd(r.in, r.st, r.fin, r.op, r.masked, r.key, r.plen, r.payload, r.valid, r.code)
      /\ r.st \in Stages /\ LegalOp(r.valid, r.op)
  BY DEF Known, IsReader
<1>2. [r EXCEPT !.in = Append(@, byte)] = [r EXCEPT !.in = more]
  OBVIOUS
<1> HIDE DEF more
<1>3. [r EXCEPT !.in = more]
         = Rd(more, r.st, r.fin, r.op, r.masked, r.key, r.plen, r.payload, r.valid, r.code)
  BY <1>1, InSet
<1>4. Known([r EXCEPT !.in = more])
  BY <1>1, <1>3, RdIsReader
<1> QED
  BY <1>2, <1>4

\* What relates the variables is kept while they all stay as they are.
LEMMA FlagsSame ==
    ASSUME PeersTyped, PeersTypeOK,
           UNCHANGED <<kind, state, inside, closeSent, closeRcvd, fin, disconnected>>
    PROVE  PeersTyped' /\ PeersTypeOK'
  BY DEF PeersTyped, Flags, PeersTypeOK, DisconnectedOnce, QtEnds, Open

LEMMA CloseStep ==
    ASSUME PeersTyped, PeersTypeOK, ReadersKnown, NEW e \in Ends, NEW code, NEW reason,
           CloseSocket(e, code, reason),
           closeRcvd' \in Flags,
           \A d \in Ends : d # e => closeRcvd'[d] = closeRcvd[d],
           UNCHANGED <<kind, disconnected>>
    PROVE  PeersInv'
<1> DEFINE next == StateAfterClose(e)
<1>1. /\ closeSent' = [closeSent EXCEPT ![e] = TRUE]
      /\ fin' = [fin EXCEPT ![Other(e)] = TRUE]
      /\ state' = [state EXCEPT ![e] = next]
      /\ reader' = [reader EXCEPT ![e] = NewReader(<<>>)]
      /\ inside' = [inside EXCEPT ![e] = FALSE]
  BY DEF CloseSocket
<1>2. /\ next \in States /\ next # "Connected"
      /\ next = "Unconnected" <=> state[e] = "Unconnected"
  BY DEF StateAfterClose, PeersTyped, States
<1> HIDE DEF next
<1>3. PeersTyped'
  BY <1>1, <1>2, EndsAre DEF PeersTyped, Flags
<1>4. /\ closeSent'[e] /\ ~inside'[e] /\ state'[e] = next /\ fin'[Other(e)]
      /\ \A d \in Ends : d # e => /\ closeSent'[d] = closeSent[d] /\ inside'[d] = inside[d]
                                  /\ state'[d] = state[d]
      /\ \A d \in Ends : fin[d] => fin'[d]
  BY <1>1, EndsAre DEF PeersTyped, Flags
<1>5. QtEnds' = QtEnds
  BY DEF QtEnds
<1>6. DisconnectedOnce'
  BY <1>2, <1>4, <1>5, EndsAre DEF PeersTypeOK, DisconnectedOnce
<1>7. PeersTypeOK'
  BY <1>2, <1>3, <1>4, <1>5, <1>6, EndsAre DEF PeersTypeOK, PeersTyped, Open
<1>8. ReadersKnown'
  BY <1>1, ReaderStep, NewReaderKnown
<1> QED
  BY <1>3, <1>7, <1>8 DEF PeersInv

LEMMA AbortStep ==
    ASSUME PeersInv, NEW e \in Ends, Abort(e)
    PROVE  PeersInv'
<1> USE DEF PeersInv
<1>1. /\ fin' = [fin EXCEPT ![Other(e)] = TRUE]
      /\ state' = [state EXCEPT ![e] = "Unconnected"]
      /\ disconnected' = [disconnected EXCEPT ![e] = @ + 1]
      /\ reader' = [reader EXCEPT ![e] = NewReader(<<>>)]
      /\ e \in QtEnds /\ ~inside[e] /\ state[e] # "Unconnected"
      /\ UNCHANGED <<kind, inside, closeSent, closeRcvd>>
  BY DEF Abort, Free
<1>2. PeersTyped'
  BY <1>1, EndsAre DEF PeersTyped, Flags, States
<1>3. /\ state'[e] = "Unconnected" /\ fin'[Other(e)] /\ disconnected'[e] = disconnected[e] + 1
      /\ \A d \in Ends : d # e => state'[d] = state[d] /\ disconnected'[d] = disconnected[d]
      /\ \A d \in Ends : fin[d] => fin'[d]
  BY <1>1, EndsAre DEF PeersTyped, Flags
<1>4. QtEnds' = QtEnds
  BY <1>1 DEF QtEnds
<1>5. disconnected[e] = 0
  BY <1>1 DEF PeersTypeOK, DisconnectedOnce
<1>6. DisconnectedOnce'
  BY <1>3, <1>4, <1>5, EndsAre DEF PeersTypeOK, DisconnectedOnce
<1>7. PeersTypeOK'
  BY <1>1, <1>2, <1>3, <1>4, <1>6, EndsAre DEF PeersTypeOK, PeersTyped, Open
<1>8. ReadersKnown'
  BY <1>1, ReaderStep, NewReaderKnown
<1> QED
  BY <1>2, <1>7, <1>8

LEMMA ClosedStep ==
    ASSUME PeersInv, NEW e \in Ends, Closed(e)
    PROVE  PeersInv'
<1> USE DEF PeersInv
<1>1. /\ state[e] = "Closing"
      /\ state' = [state EXCEPT ![e] = "Unconnected"]
      /\ disconnected' = [disconnected EXCEPT ![e] = @ + 1]
      /\ UNCHANGED <<kind, inside, closeSent, closeRcvd, fin, reader>>
  BY DEF Closed
<1>2. PeersTyped'
  BY <1>1 DEF PeersTyped, Flags, States
<1>3. /\ state'[e] = "Unconnected" /\ disconnected'[e] = disconnected[e] + 1
      /\ \A d \in Ends : d # e => state'[d] = state[d] /\ disconnected'[d] = disconnected[d]
  BY <1>1 DEF PeersTyped
<1>4. QtEnds' = QtEnds
  BY <1>1 DEF QtEnds
<1>5. DisconnectedOnce'
  BY <1>1, <1>3, <1>4, EndsAre DEF PeersTypeOK, DisconnectedOnce
<1>6. PeersTypeOK'
  BY <1>1, <1>2, <1>3, <1>4, <1>5, EndsAre DEF PeersTypeOK, PeersTyped, Open
<1>7. ReadersKnown'
  BY <1>1, ReadersSame
<1> QED
  BY <1>2, <1>6, <1>7

LEMMA RemoteClosedStep ==
    ASSUME PeersInv, NEW e \in Ends, RemoteClosed(e)
    PROVE  PeersInv'
<1> USE DEF PeersInv
<1>1. /\ e \in QtEnds /\ Open(e)
      /\ state' = [state EXCEPT ![e] = "Unconnected"]
      /\ disconnected' = [disconnected EXCEPT ![e] = @ + 1]
      /\ fin' = [fin EXCEPT ![Other(e)] = TRUE]
      /\ UNCHANGED <<kind, closeRcvd>>
  BY DEF RemoteClosed
<1>2. \/ /\ closeSent' = [closeSent EXCEPT ![e] = TRUE]
         /\ inside' = [inside EXCEPT ![e] = FALSE]
         /\ reader' = [reader EXCEPT ![e] = NewReader(<<>>)]
      \/ ~inside[e] /\ UNCHANGED <<closeSent, inside, reader>>
  BY DEF RemoteClosed
<1>3. PeersTyped'
  <2>1. closeSent' \in Flags /\ inside' \in Flags
    BY <1>2 DEF PeersTyped, Flags
  <2>2. state' \in [Ends -> States] /\ disconnected' \in [Ends -> Nat] /\ fin' \in Flags
    BY <1>1, EndsAre DEF PeersTyped, Flags, States
  <2> QED
    BY <1>1, <2>1, <2>2 DEF PeersTyped
<1>4. /\ state'[e] = "Unconnected" /\ fin'[Other(e)] /\ disconnected'[e] = disconnected[e] + 1
      /\ \A d \in Ends : d # e => state'[d] = state[d] /\ disconnected'[d] = disconnected[d]
      /\ \A d \in Ends : fin[d] => fin'[d]
  BY <1>1, EndsAre DEF PeersTyped, Flags
<1>5. /\ ~inside'[e] /\ (closeSent[e] => closeSent'[e])
      /\ \A d \in Ends : d # e => inside'[d] = inside[d] /\ closeSent'[d] = closeSent[d]
  BY <1>2 DEF PeersTyped, Flags
<1>6. QtEnds' = QtEnds
  BY <1>1 DEF QtEnds
<1>7. disconnected[e] = 0
  BY <1>1 DEF PeersTypeOK, DisconnectedOnce, Open
<1>8. DisconnectedOnce'
  BY <1>4, <1>6, <1>7, EndsAre DEF PeersTypeOK, DisconnectedOnce
<1>9. PeersTypeOK'
  BY <1>1, <1>3, <1>4, <1>5, <1>6, <1>8, EndsAre DEF PeersTypeOK, PeersTyped, Open
<1>10. ReadersKnown'
  BY <1>2, ReaderStep, ReadersSame, NewReaderKnown
<1> QED
  BY <1>3, <1>9, <1>10

LEMMA RawCloseStep ==
    ASSUME PeersInv, RawClose
    PROVE  PeersInv'
<1> USE DEF PeersInv
<1>1. /\ kind = "raw"
      /\ state' = [state EXCEPT !["client"] = "Unconnected"]
      /\ fin' = [fin EXCEPT !["server"] = TRUE]
      /\ UNCHANGED <<kind, inside, closeSent, closeRcvd, disconnected, reader>>
  BY DEF RawClose
<1>2. PeersTyped'
  BY <1>1, EndsAre DEF PeersTyped, Flags, States
<1>3. state'["server"] = state["server"] /\ fin'["client"] = fin["client"]
  BY <1>1, EndsAre DEF PeersTyped
<1>4. QtEnds = {"server"} /\ QtEnds' = {"server"} /\ Other("server") = "client"
  BY <1>1 DEF QtEnds, Other
<1>5. DisconnectedOnce'
  BY <1>1, <1>3, <1>4 DEF PeersTypeOK, DisconnectedOnce
<1>6. PeersTypeOK'
  BY <1>1, <1>2, <1>3, <1>4, <1>5 DEF PeersTypeOK, PeersTyped, Open
<1>7. ReadersKnown'
  BY <1>1, ReadersSame
<1> QED
  BY <1>2, <1>6, <1>7

\* Frames are read, and processed, only by an end that is open.
LEMMA ProcessStep ==
    ASSUME PeersInv, NEW e \in Ends, Process(e)
    PROVE  PeersInv'
<1> USE DEF PeersInv
<1> DEFINE r == readFrame(reader[e])
           outcome == processFrame(processor[e], r)
<1>1. Known(r)
  BY FrameKnown DEF ReadersKnown
<1>2. outcome.signal.kind \in SignalKinds /\ outcome.done \in BOOLEAN
  BY <1>1, FrameSignal
<1>3. Process(e)
  OBVIOUS
<1>4. /\ e \in QtEnds /\ Open(e)
      /\ UNCHANGED <<kind, disconnected>>
      /\ IF r.st # "done"
         THEN /\ reader' = [reader EXCEPT ![e] = r]
              /\ inside' = [inside EXCEPT ![e] = TRUE]
              /\ UNCHANGED <<state, processor, closeSent, closeRcvd, closeCode, net, fin,
                             rcvd, ponged, sent>>
         ELSE /\ processor' = [processor EXCEPT ![e] = outcome.p]
              /\ IF Closes(outcome.signal)
                 THEN /\ closeRcvd' = [closeRcvd EXCEPT
                                          ![e] = @ \/ outcome.signal.kind = "close"]
                      /\ CloseSocket(e, outcome.signal.code, outcome.signal.data)
                      /\ UNCHANGED <<rcvd, ponged>>
                 ELSE /\ reader' = [reader EXCEPT ![e] = NewReader(r.in)]
                      /\ inside' = [inside EXCEPT ![e] = ~outcome.done]
                      /\ Receive(e, outcome.signal)
  BY DEF Process
<1> HIDE DEF r, outcome
<1>5. ASSUME NEW waits \in BOOLEAN,
             inside' = [inside EXCEPT ![e] = waits],
             UNCHANGED <<state, closeSent, closeRcvd, fin>>
      PROVE  PeersTyped' /\ PeersTypeOK'
  <2>1. PeersTyped'
    BY <1>4, <1>5 DEF PeersTyped, Flags
  <2>2. \A d \in Ends : d # e => inside'[d] = inside[d]
    BY <1>5 DEF PeersTyped, Flags
  <2>3. QtEnds' = QtEnds
    BY <1>4 DEF QtEnds
  <2>4. DisconnectedOnce'
    BY <1>4, <1>5, <2>3 DEF PeersTypeOK, DisconnectedOnce
  <2>5. PeersTypeOK'
    BY <1>4, <1>5, <2>1, <2>2, <2>3, <2>4, EndsAre DEF PeersTypeOK, PeersTyped, Open
  <2> QED
    BY <2>1, <2>5
<1>6. CASE r.st # "done"
  <2>1. ReadersKnown'
    BY <1>1, <1>4, <1>6, ReaderStep
  <2>2. PeersTyped' /\ PeersTypeOK'
    BY <1>4, <1>5, <1>6
  <2> QED
    BY <2>1, <2>2
<1>7. CASE r.st = "done" /\ Closes(outcome.signal)
  <2> DEFINE closing == outcome.signal.kind = "close"
  <2>1. closeRcvd' = [closeRcvd EXCEPT ![e] = @ \/ closing]
    BY <1>4, <1>7
  <2> HIDE DEF closing
  <2>2. closeRcvd' \in Flags /\ \A d \in Ends : d # e => closeRcvd'[d] = closeRcvd[d]
    BY <2>1 DEF PeersTyped, Flags
  <2> QED
    BY <1>4, <1>7, <2>2, CloseStep
<1>8. CASE r.st = "done" /\ ~Closes(outcome.signal)
  <2>1. outcome.signal.kind \in {"none", "message", "ping", "pong"}
    BY <1>2, <1>8 DEF Closes, SignalKinds
  <2>2. UNCHANGED <<state, closeSent, closeRcvd, fin>>
    BY <1>4, <1>8, <2>1 DEF Receive
  <2>3. inside' = [inside EXCEPT ![e] = ~outcome.done] /\ (~outcome.done) \in BOOLEAN
    BY <1>2, <1>4, <1>8
  <2>4. PeersTyped' /\ PeersTypeOK'
    BY <1>5, <2>2, <2>3
  <2>5. ReadersKnown'
    BY <1>4, <1>8, ReaderStep, NewReaderKnown
  <2> QED
    BY <2>4, <2>5
<1> QED
  BY <1>6, <1>7, <1>8

LEMMA DeliverStep ==
    ASSUME PeersInv, NEW e \in Ends, Deliver(e)
    PROVE  PeersInv'
<1> USE DEF PeersInv
<1>1. PeersTyped' /\ PeersTypeOK'
  BY FlagsSame DEF Deliver
<1>2. ReadersKnown'
  <2>1. CASE reader' = reader
    BY <2>1, ReadersSame
  <2>2. CASE reader' = [reader EXCEPT ![e].in = Append(@, Head(net[e]))]
    <3> DEFINE r == [reader[e] EXCEPT !.in = Append(@, Head(net[e]))]
    <3>1. reader' = [reader EXCEPT ![e] = r]
      BY <2>2 DEF ReadersKnown
    <3>2. Known(r)
      BY ArrivalKnown DEF ReadersKnown
    <3> HIDE DEF r
    <3> QED
      BY <3>1, <3>2, ReaderStep
  <2> QED
    BY <2>1, <2>2 DEF Deliver
<1> QED
  BY <1>1, <1>2

LEMMA PeersStep ==
    ASSUME PeersInv, [Next]_vars
    PROVE  PeersInv'
<1>1. ASSUME NEW e \in Ends, SendMessage(e)
      PROVE  PeersInv'
  BY <1>1, FlagsSame, ReadersSame DEF PeersInv, SendMessage
<1>2. ASSUME NEW e \in Ends, Ping(e)
      PROVE  PeersInv'
  BY <1>2, FlagsSame, ReadersSame DEF PeersInv, Ping
<1>3. ASSUME NEW e \in Ends, Close(e)
      PROVE  PeersInv'
  BY <1>3, CloseStep DEF PeersInv, PeersTyped, Close
<1>4. ASSUME NEW e \in Ends, ReadTimeout(e)
      PROVE  PeersInv'
  BY <1>4, CloseStep DEF PeersInv, PeersTyped, ReadTimeout
<1>5. CASE RawSend
  BY <1>5, FlagsSame, ReadersSame DEF PeersInv, RawSend
<1>6. CASE UNCHANGED vars
  BY <1>6, FlagsSame, ReadersSame DEF PeersInv, vars
<1> QED
  BY <1>1, <1>2, <1>3, <1>4, <1>5, <1>6, AbortStep, ProcessStep, DeliverStep, ClosedStep,
     RemoteClosedStep, RawCloseStep DEF Next

THEOREM PeersInvariance == Spec => []PeersInv
<1>1. Init => PeersInv
  BY PeersInit
<1>2. PeersInv /\ [Next]_vars => PeersInv'
  BY PeersStep
<1> QED
  BY <1>1, <1>2, PTL DEF Spec

\* An end waits in readFrame only while it is connected, is connected until its close()
\* or the end of its TCP connection, and says disconnected() once, at the very end:
\* QWebSocketPrivate::processData, close(), processStateChanged.
THEOREM PeersTypeCorrect == Spec => []PeersTypeOK
<1>1. PeersInv => PeersTypeOK
  BY DEF PeersInv
<1> QED
  BY <1>1, PeersInvariance, PTL

-----------------------------------------------------------------------------
(* Sequences of bytes and what follows their first ones.                   *)

LEMMA PastIs ==
    ASSUME NEW S, NEW s \in Seq(S), NEW n \in 0..Len(s)
    PROVE  /\ Past(s, n) \in Seq(S) /\ Len(Past(s, n)) = Len(s) - n
           /\ \A i \in 1..(Len(s) - n) : Past(s, n)[i] = s[n + i]
  BY DEF Past

LEMMA JoinIs ==
    ASSUME NEW S, NEW s \in Seq(S), NEW t \in Seq(S)
    PROVE  /\ s \o t \in Seq(S) /\ Len(s \o t) = Len(s) + Len(t)
           /\ \A i \in 1..Len(s) : (s \o t)[i] = s[i]
           /\ \A i \in 1..Len(t) : (s \o t)[Len(s) + i] = t[i]
  OBVIOUS

LEMMA SameSeq ==
    ASSUME NEW S, NEW s \in Seq(S), NEW t \in Seq(S), Len(s) = Len(t),
           \A i \in 1..Len(s) : s[i] = t[i]
    PROVE  s = t
  OBVIOUS

LEMMA PastJoin ==
    ASSUME NEW S, NEW s \in Seq(S), NEW t \in Seq(S), NEW n \in 0..Len(s)
    PROVE  Past(s \o t, n) = Past(s, n) \o t
<1> DEFINE p == Past(s, n)
           q == s \o t
<1>0. Len(s) \in Nat /\ Len(t) \in Nat
  OBVIOUS
<1>1. /\ p \in Seq(S) /\ Len(p) = Len(s) - n
      /\ \A i \in 1..(Len(s) - n) : p[i] = s[n + i]
  BY PastIs
<1>2. /\ q \in Seq(S) /\ Len(q) = Len(s) + Len(t)
      /\ \A i \in 1..(Len(s) + Len(t)) : q[i] = IF i <= Len(s) THEN s[i] ELSE t[i - Len(s)]
  BY ConcatProperties
<1>3. n \in 0..Len(q)
  BY <1>0, <1>2
<1> HIDE DEF p, q
<1>4. /\ Past(q, n) \in Seq(S) /\ Len(Past(q, n)) = Len(s) + Len(t) - n
      /\ \A i \in 1..(Len(s) + Len(t) - n) : Past(q, n)[i] = q[n + i]
  <2>1. /\ Past(q, n) \in Seq(S) /\ Len(Past(q, n)) = Len(q) - n
        /\ \A i \in 1..(Len(q) - n) : Past(q, n)[i] = q[n + i]
    BY <1>2, <1>3, PastIs
  <2> QED
    BY <1>2, <2>1
<1>5. /\ p \o t \in Seq(S) /\ Len(p \o t) = Len(s) + Len(t) - n
      /\ \A i \in 1..(Len(s) + Len(t) - n) :
            (p \o t)[i] = IF i <= Len(s) - n THEN p[i] ELSE t[i - (Len(s) - n)]
  <2>1. /\ p \o t \in Seq(S) /\ Len(p \o t) = Len(p) + Len(t)
        /\ \A i \in 1..(Len(p) + Len(t)) :
              (p \o t)[i] = IF i <= Len(p) THEN p[i] ELSE t[i - Len(p)]
    BY <1>1, ConcatProperties
  <2>2. Len(p) + Len(t) = Len(s) + Len(t) - n
    BY <1>0, <1>1
  <2> QED
    BY <1>1, <2>1, <2>2
<1>6. ASSUME NEW i \in 1..(Len(s) + Len(t) - n)
      PROVE  Past(q, n)[i] = (p \o t)[i]
  <2>1. /\ Past(q, n)[i] = q[n + i]
        /\ (p \o t)[i] = IF i <= Len(s) - n THEN p[i] ELSE t[i - (Len(s) - n)]
    BY <1>4, <1>5
  <2>2. q[n + i] = IF n + i <= Len(s) THEN s[n + i] ELSE t[n + i - Len(s)]
    BY <1>0, <1>2
  <2>3. (n + i <= Len(s) <=> i <= Len(s) - n) /\ n + i - Len(s) = i - (Len(s) - n)
    BY <1>0
  <2>4. i <= Len(s) - n => p[i] = s[n + i]
    BY <1>0, <1>1
  <2> QED
    BY <2>1, <2>2, <2>3, <2>4
<1>7. Past(q, n) = p \o t
  BY <1>4, <1>5, <1>6, SameSeq
<1> QED
  BY <1>7 DEF p, q

LEMMA FrontJoin ==
    ASSUME NEW S, NEW s \in Seq(S), NEW t \in Seq(S), NEW n \in 0..Len(s)
    PROVE  SubSeq(s \o t, 1, n) = SubSeq(s, 1, n)
  OBVIOUS

Join(s, t) == s \o t

LEMMA JoinAssoc ==
    ASSUME NEW S, NEW s \in Seq(S), NEW t \in Seq(S), NEW u \in Seq(S)
    PROVE  /\ Join(Join(s, t), u) = Join(s, Join(t, u))
           /\ Join(s, t) \in Seq(S)
<1>1. (s \o t) \o u = s \o (t \o u)
  BY ConcatAssociative
<1>2. s \o t \in Seq(S)
  BY ConcatProperties
<1> QED
  BY <1>1, <1>2 DEF Join

LEMMA PastAll ==
    ASSUME NEW S, NEW s \in Seq(S), NEW t \in Seq(S)
    PROVE  Past(s \o t, Len(s)) = t /\ SubSeq(s \o t, 1, Len(s)) = s
  BY DEF Past

-----------------------------------------------------------------------------
(* A frame may arrive in any number of segments.                           *)

\* More bytes have arrived.
More(r, bytes) == [r EXCEPT !.in = @ \o bytes]

Rank(st) ==
    CASE st = "header" -> 4
      [] st \in {"length", "bigLength"} -> 3
      [] st = "mask" -> 2
      [] st = "payload" -> 1
      [] OTHER -> 0

\* The lengths that the bytes announce, to a reader that is at st, are numbers.
LengthsAre(in, st) ==
    /\ st = "header" /\ Len(in) >= 2 => in[2].len \in Nat
    /\ st = "header" /\ Len(in) >= 3 /\ in[2].len > Len7 => in[3].n \in Nat
    /\ st \in {"length", "bigLength"} /\ Len(in) >= 1 => in[1].n \in Nat

Measured(S, r) == r.in \in Seq(S) /\ r.plen \in Nat /\ LengthsAre(r.in, r.st)

LEMMA LengthsFollow ==
    ASSUME NEW S, NEW s \in Seq(S), Len(s) >= 2, LengthsAre(s, "header")
    PROVE  /\ s[2].len > Len7 => /\ LengthsAre(Past(s, 2), "length")
                                 /\ LengthsAre(Past(s, 2), "bigLength")
           /\ s[2].len \in Nat
<1>1. s[2].len \in Nat
  BY DEF LengthsAre
<1>2. /\ Past(s, 2) \in Seq(S) /\ Len(Past(s, 2)) = Len(s) - 2
      /\ \A i \in 1..(Len(s) - 2) : Past(s, 2)[i] = s[2 + i]
  <2>1. 2 \in 0..Len(s)
    OBVIOUS
  <2> QED
    BY <2>1, PastIs
<1>3. ASSUME s[2].len > Len7, Len(Past(s, 2)) >= 1
      PROVE  Past(s, 2)[1].n \in Nat
  <2>1. Len(s) >= 3 /\ Past(s, 2)[1] = s[3]
    BY <1>2, <1>3
  <2> QED
    BY <1>3, <2>1 DEF LengthsAre
<1> QED
  BY <1>1, <1>3 DEF LengthsAre

LEMMA LengthsPast ==
    ASSUME NEW in
    PROVE  LengthsAre(in, "mask") /\ LengthsAre(in, "payload") /\ LengthsAre(in, "done")
  BY DEF LengthsAre

LEMMA MoreIs ==
    ASSUME NEW in, NEW st, NEW fn, NEW op, NEW masked, NEW key, NEW plen, NEW payload,
           NEW valid, NEW code, NEW bytes, NEW r,
           r = Rd(in, st, fn, op, masked, key, plen, payload, valid, code)
    PROVE  More(r, bytes)
              = Rd(in \o bytes, st, fn, op, masked, key, plen, payload, valid, code)
<1> DEFINE more == in \o bytes
<1>1. r.in = in /\ r \in ReadersOf({in, st, fn, op, masked, key, plen, payload, valid, code})
  BY RdFields
<1>2. More(r, bytes) = [r EXCEPT !.in = more]
  BY <1>1 DEF More, ReadersOf
<1> HIDE DEF more
<1>3. More(r, bytes) = Rd(more, st, fn, op, masked, key, plen, payload, valid, code)
  BY <1>2, InSet
<1> QED
  BY <1>3 DEF more

LEMMA MoreFailed ==
    ASSUME NEW in, NEW code, NEW bytes
    PROVE  More(Failed(in, code), bytes) = Failed(in \o bytes, code)
  BY MoreIs DEF Failed

\* What a reader is to be for the next segment to continue it.
Ready(S, r, bytes) ==
    Known(r) /\ Measured(S, r) /\ LengthsAre(r.in \o bytes, r.st)

LEMMA ReadyIs ==
    ASSUME NEW S, NEW bytes,
           NEW in, NEW st \in Stages, NEW fn, NEW op, NEW masked, NEW key, NEW plen \in Nat,
           NEW payload, NEW valid, NEW code, NEW r,
           r = Rd(in, st, fn, op, masked, key, plen, payload, valid, code),
           in \in Seq(S), LegalOp(valid, op), LengthsAre(in, st), LengthsAre(in \o bytes, st)
    PROVE  Ready(S, r, bytes) /\ r.st = st
<1>1. r.in = in /\ r.st = st /\ r.plen = plen
  BY RdFields
<1>2. Known(r)
  BY RdIsReader
<1> QED
  BY <1>1, <1>2 DEF Ready, Measured

LEMMA FailedReady ==
    ASSUME NEW S, NEW bytes, NEW in \in Seq(S), NEW code
    PROVE  Ready(S, Failed(in, code), bytes) /\ Failed(in, code).st = "done"
<1>1. LegalOp(No, "reservedB")
  BY DEF LegalOp, No
<1>2. LengthsAre(in, "done") /\ LengthsAre(in \o bytes, "done")
  BY LengthsPast
<1> QED
  BY <1>1, <1>2, ReadyIs DEF Failed, Stages

\* One field is read alike whether or not more bytes follow it.
LEMMA FieldMore ==
    ASSUME NEW S, NEW bytes \in Seq(S), NEW r, Ready(S, r, bytes), CanRead(r)
    PROVE  /\ Ready(S, ReadField(r), bytes)
           /\ ReadField(More(r, bytes)) = More(ReadField(r), bytes)
<1> DEFINE in == r.in
           st == r.st
           fn == r.fin
           op == r.op
           masked == r.masked
           key == r.key
           plen == r.plen
           payload == r.payload
           valid == r.valid
           code == r.code
           all == in \o bytes
           m == More(r, bytes)
           next == IF masked THEN "mask" ELSE "payload"
<1>1. /\ r = Rd(in, st, fn, op, masked, key, plen, payload, valid, code)
      /\ LegalOp(valid, op) /\ st \in Stages
      /\ in \in Seq(S) /\ plen \in Nat
      /\ LengthsAre(in, st) /\ LengthsAre(all, st)
  BY DEF Ready, Measured, Known, IsReader
<1>2. /\ all \in Seq(S) /\ Len(all) = Len(in) + Len(bytes)
      /\ Len(in) \in Nat /\ Len(bytes) \in Nat
      /\ \A i \in 1..Len(in) : all[i] = in[i]
  BY <1>1, JoinIs
<1>3. st # "done" /\ Len(in) >= Needed(r)
  BY DEF CanRead
<1>4. m = Rd(all, st, fn, op, masked, key, plen, payload, valid, code)
  BY <1>1, MoreIs
<1> HIDE DEF m
<1>5. m.in = all /\ m.st = st /\ m.plen = plen
  <2> HIDE DEF in, st, fn, op, masked, key, plen, payload, valid, code, all
  <2> QED
    BY <1>4, RdFields
<1>6. Needed(m) = Needed(r)
  BY <1>5 DEF Needed
<1>7. Needed(r) \in Nat
  BY <1>1 DEF Needed
<1>8. CanRead(m)
  BY <1>2, <1>3, <1>5, <1>6, <1>7 DEF CanRead
<1>9. ASSUME NEW n \in Nat, n <= Len(in)
      PROVE  /\ Past(in, n) \in Seq(S) /\ Past(all, n) = Past(in, n) \o bytes
             /\ Past(all, n) \in Seq(S)
             /\ SubSeq(all, 1, n) = SubSeq(in, 1, n)
  <2>1. n \in 0..Len(in) /\ n \in 0..Len(all)
    BY <1>2, <1>9
  <2> QED
    BY <1>1, <1>2, <2>1, PastIs, PastJoin, FrontJoin
<1>10. next \in {"mask", "payload"} /\ next \in Stages
  BY DEF Stages
<1>11. CASE st = "header"
  <2> DEFINE f == in[1].fin
             o == in[1].op
             k == in[2].masked
             n == in[2].len
             ok == checkValidity(in[1], in[2])
             knext == IF k THEN "mask" ELSE "payload"
             p == Past(in, 2)
             q == Past(all, 2)
  <2>1. Len(in) >= 2 /\ Len(all) >= 2
    BY <1>2, <1>3, <1>11 DEF Needed
  <2>2. all[1] = in[1] /\ all[2] = in[2]
    BY <1>2, <2>1
  <2>3. p \in Seq(S) /\ q \in Seq(S) /\ q = p \o bytes
    BY <1>9, <2>1
  <2>4. /\ n \in Nat
        /\ n > Len7 => /\ LengthsAre(p, "length") /\ LengthsAre(p, "bigLength")
                       /\ LengthsAre(q, "length") /\ LengthsAre(q, "bigLength")
    BY <1>1, <1>2, <1>11, <2>1, <2>2, LengthsFollow
  <2>5. knext \in Stages /\ LengthsAre(p, knext) /\ LengthsAre(q, knext)
    BY LengthsPast DEF Stages
  <2>6. ok => LegalOp(Yes, o)
    BY DEF checkValidity, LegalOp, Yes
  <2>7. ReadField(r) = ReadHeader(r) /\ ReadField(m) = ReadHeader(m)
    BY <1>5, <1>8, <1>11 DEF ReadField
  <2>8. /\ r = Rd(in, "header", fn, op, masked, key, plen, payload, valid, code)
        /\ m = Rd(all, "header", fn, op, masked, key, plen, payload, valid, code)
    BY <1>1, <1>4, <1>11
  <2>9. Len7 + 1 > Len7 /\ Len7 + 2 > Len7
    BY LimitsAssumption
  <2> HIDE DEF in, fn, op, masked, key, plen, payload, valid, code, all, next, st
  <2>10. ReadHeader(r) =
              IF ~ok THEN Failed(p, CloseCodeProtocolError)
              ELSE IF n = Len7 + 1
              THEN Rd(p, "length", f, o, k, key, plen, payload, Yes, code)
              ELSE IF n = Len7 + 2
              THEN Rd(p, "bigLength", f, o, k, key, plen, payload, Yes, code)
              ELSE Rd(p, knext, f, o, k, key, n, payload, Yes, code)
    BY <2>8, HeaderIs
  <2>11. ReadHeader(m) =
              IF ~ok THEN Failed(q, CloseCodeProtocolError)
              ELSE IF n = Len7 + 1
              THEN Rd(q, "length", f, o, k, key, plen, payload, Yes, code)
              ELSE IF n = Len7 + 2
              THEN Rd(q, "bigLength", f, o, k, key, plen, payload, Yes, code)
              ELSE Rd(q, knext, f, o, k, key, n, payload, Yes, code)
    BY <2>2, <2>8, HeaderIs
  <2> HIDE DEF f, o, k, n, knext, ok, p, q
  <2>12. CASE ~ok
    BY <2>3, <2>7, <2>10, <2>11, <2>12, FailedReady, MoreFailed DEF m
  <2>13. CASE ok /\ n = Len7 + 1
    <3>1. /\ ReadField(r) = Rd(p, "length", f, o, k, key, plen, payload, Yes, code)
          /\ ReadField(m) = Rd(q, "length", f, o, k, key, plen, payload, Yes, code)
      BY <2>7, <2>10, <2>11, <2>13
    <3>2. "length" \in Stages /\ LengthsAre(p, "length") /\ LengthsAre(p \o bytes, "length")
      BY <2>3, <2>4, <2>9, <2>13 DEF Stages
    <3> QED
      BY <1>1, <2>3, <2>6, <2>13, <3>1, <3>2, ReadyIs, MoreIs DEF m
  <2>14. CASE ok /\ n # Len7 + 1 /\ n = Len7 + 2
    <3>1. /\ ReadField(r) = Rd(p, "bigLength", f, o, k, key, plen, payload, Yes, code)
          /\ ReadField(m) = Rd(q, "bigLength", f, o, k, key, plen, payload, Yes, code)
      BY <2>7, <2>10, <2>11, <2>14
    <3>2. /\ "bigLength" \in Stages /\ LengthsAre(p, "bigLength")
          /\ LengthsAre(p \o bytes, "bigLength")
      BY <2>3, <2>4, <2>9, <2>14 DEF Stages
    <3> QED
      BY <1>1, <2>3, <2>6, <2>14, <3>1, <3>2, ReadyIs, MoreIs DEF m
  <2>15. CASE ok /\ n # Len7 + 1 /\ n # Len7 + 2
    <3>1. /\ ReadField(r) = Rd(p, knext, f, o, k, key, n, payload, Yes, code)
          /\ ReadField(m) = Rd(q, knext, f, o, k, key, n, payload, Yes, code)
      BY <2>7, <2>10, <2>11, <2>15
    <3> QED
      BY <2>3, <2>4, <2>5, <2>6, <2>15, <3>1, ReadyIs, MoreIs DEF m
  <2> QED
    BY <2>12, <2>13, <2>14, <2>15
<1>12. CASE st \in {"length", "bigLength"}
  <2> DEFINE n == in[1].n
             bad == BadLength(st, n)
             p == Past(in, 1)
             q == Past(all, 1)
  <2>1. Len(in) >= 1 /\ Needed(r) = 1
    BY <1>3, <1>12 DEF Needed
  <2>2. all[1] = in[1]
    BY <1>2, <2>1
  <2>3. p \in Seq(S) /\ q = p \o bytes
    BY <1>9, <2>1
  <2>4. n \in Nat
    BY <1>1, <1>12, <2>1 DEF LengthsAre
  <2>5. ReadField(r) = ReadLength(r) /\ ReadField(m) = ReadLength(m)
    BY <1>5, <1>8, <1>12 DEF ReadField
  <2>6. LengthsAre(p, next) /\ LengthsAre(p \o bytes, next)
    BY LengthsPast
  <2> HIDE DEF in, fn, op, masked, key, plen, payload, valid, code, all, st
  <2>7. ReadLength(r) =
              IF bad THEN Failed(p, CloseCodeProtocolError)
              ELSE Rd(p, next, fn, op, masked, key, n, payload, valid, code)
    BY <1>1, <1>12, LengthIs
  <2>8. ReadLength(m) =
              IF bad THEN Failed(q, CloseCodeProtocolError)
              ELSE Rd(q, next, fn, op, masked, key, n, payload, valid, code)
    BY <1>4, <1>12, <2>2, LengthIs
  <2> HIDE DEF n, bad, next, p, q
  <2>9. CASE bad
    BY <2>3, <2>5, <2>7, <2>8, <2>9, FailedReady, MoreFailed DEF m
  <2>10. CASE ~bad
    BY <1>1, <1>10, <2>3, <2>4, <2>5, <2>6, <2>7, <2>8, <2>10, ReadyIs, MoreIs DEF m
  <2> QED
    BY <2>9, <2>10
<1>13. CASE st = "mask"
  <2> DEFINE p == Past(in, 1)
             q == Past(all, 1)
             k == in[1].key
  <2>1. Len(in) >= 1 /\ Needed(r) = 1
    BY <1>3, <1>13 DEF Needed
  <2>2. all[1] = in[1]
    BY <1>2, <2>1
  <2>3. p \in Seq(S) /\ q = p \o bytes
    BY <1>9, <2>1
  <2>4. ReadField(r) = ReadMask(r) /\ ReadField(m) = ReadMask(m)
    BY <1>5, <1>8, <1>13 DEF ReadField
  <2>5. /\ LengthsAre(p, "payload") /\ LengthsAre(p \o bytes, "payload")
        /\ "payload" \in Stages
    BY LengthsPast DEF Stages
  <2> HIDE DEF in, fn, op, masked, key, plen, payload, valid, code, all, st
  <2>6. /\ ReadMask(r) = Rd(p, "payload", fn, op, masked, k, plen, payload, valid, code)
        /\ ReadMask(m) = Rd(q, "payload", fn, op, masked, k, plen, payload, valid, code)
    BY <1>1, <1>4, <1>13, <2>2, MaskIs
  <2> HIDE DEF k, p, q
  <2> QED
    BY <1>1, <2>3, <2>4, <2>5, <2>6, ReadyIs, MoreIs DEF m
<1>14. CASE st = "payload"
  <2> DEFINE p == Past(in, plen)
             q == Past(all, plen)
             k == IF masked THEN key ELSE 0
             v == Mask(SubSeq(in, 1, plen), k)
  <2>1. ReadField(r) = ReadPayload(r) /\ ReadField(m) = ReadPayload(m)
    BY <1>5, <1>8, <1>14 DEF ReadField
  <2>2. plen <= MaxFrame => plen <= Len(in)
    BY <1>1, <1>3, <1>14, LimitsAssumption DEF Needed
  <2>3. /\ \A s : LengthsAre(s, "done")
        /\ "done" \in Stages
    BY LengthsPast DEF Stages
  <2>4. plen <= MaxFrame => /\ p \in Seq(S) /\ q = p \o bytes
                            /\ SubSeq(all, 1, plen) = SubSeq(in, 1, plen)
    BY <1>1, <1>9, <2>2
  <2>5. plen > MaxFrame \/ plen <= MaxFrame
    BY <1>1, LimitsAssumption
  <2>6. ~(plen > MaxFrame /\ plen <= MaxFrame)
    BY <1>1, LimitsAssumption
  <2> HIDE DEF in, fn, op, masked, key, plen, payload, valid, code, all, st
  <2>7. ReadPayload(r) =
              IF plen > MaxFrame THEN Failed(in, CloseCodeTooMuchData)
              ELSE Rd(p, "done", fn, op, masked, key, plen, v, valid, code)
    BY <1>1, <1>14, PayloadIs
  <2>8. ReadPayload(m) =
              IF plen > MaxFrame THEN Failed(all, CloseCodeTooMuchData)
              ELSE Rd(q, "done", fn, op, masked, key, plen, Mask(SubSeq(all, 1, plen), k),
                      valid, code)
    BY <1>4, <1>14, PayloadIs
  <2>9. CASE plen > MaxFrame
    BY <1>1, <2>1, <2>7, <2>8, <2>9, FailedReady, MoreFailed DEF m, all
  <2>10. CASE plen <= MaxFrame
    <3>1. Mask(SubSeq(all, 1, plen), k) = v
      BY <2>4, <2>10
    <3>2. p \in Seq(S) /\ q = p \o bytes
      BY <2>4, <2>10
    <3> HIDE DEF p, q, k, v
    <3>3. /\ ReadField(r) = Rd(p, "done", fn, op, masked, key, plen, v, valid, code)
          /\ ReadField(m) = Rd(q, "done", fn, op, masked, key, plen, v, valid, code)
      BY <2>1, <2>6, <2>7, <2>8, <2>10, <3>1
    <3>4. LengthsAre(p, "done") /\ LengthsAre(p \o bytes, "done") /\ "done" \in Stages
      BY <2>3
    <3>5. Ready(S, ReadField(r), bytes)
      BY <1>1, <3>2, <3>3, <3>4, ReadyIs
    <3>6. More(ReadField(r), bytes)
             = Rd(p \o bytes, "done", fn, op, masked, key, plen, v, valid, code)
      BY <3>3, MoreIs
    <3> QED
      BY <3>2, <3>3, <3>5, <3>6 DEF m
  <2> QED
    BY <2>5, <2>9, <2>10
<1> QED
  BY <1>1, <1>3, <1>11, <1>12, <1>13, <1>14 DEF Stages

LEMMA RanksAre ==
    /\ Rank("header") = 4 /\ Rank("length") = 3 /\ Rank("bigLength") = 3
    /\ Rank("mask") = 2 /\ Rank("payload") = 1 /\ Rank("done") = 0
    /\ \A st \in Stages : Rank(st) \in 0..4 /\ (Rank(st) = 0 => st = "done")
  BY DEF Rank, Stages

\* Every field brings the end of the frame nearer.
LEMMA FieldRank ==
    ASSUME NEW r, Known(r), CanRead(r)
    PROVE  Rank(ReadField(r).st) < Rank(r.st)
<1> DEFINE in == r.in
           st == r.st
           fn == r.fin
           op == r.op
           masked == r.masked
           key == r.key
           plen == r.plen
           payload == r.payload
           valid == r.valid
           code == r.code
           next == IF masked THEN "mask" ELSE "payload"
<1>1. r = Rd(in, st, fn, op, masked, key, plen, payload, valid, code) /\ st \in Stages
  BY DEF Known, IsReader
<1>2. st # "done"
  BY DEF CanRead
<1>3. next \in {"mask", "payload"}
  OBVIOUS
<1>4. \A s, c : Failed(s, c).st = "done"
  BY DEF Failed, Rd
<1>5. CASE st = "header"
  <2> DEFINE f == in[1].fin
             o == in[1].op
             k == in[2].masked
             n == in[2].len
             ok == checkValidity(in[1], in[2])
             knext == IF k THEN "mask" ELSE "payload"
             p == Past(in, 2)
  <2>1. ReadField(r) = ReadHeader(r)
    BY <1>5 DEF ReadField
  <2>2. knext \in {"mask", "payload"}
    OBVIOUS
  <2> HIDE DEF in, fn, op, masked, key, plen, payload, valid, code, st, next
  <2>3. ReadHeader(r) =
              IF ~ok THEN Failed(p, CloseCodeProtocolError)
              ELSE IF n = Len7 + 1
              THEN Rd(p, "length", f, o, k, key, plen, payload, Yes, code)
              ELSE IF n = Len7 + 2
              THEN Rd(p, "bigLength", f, o, k, key, plen, payload, Yes, code)
              ELSE Rd(p, knext, f, o, k, key, n, payload, Yes, code)
    BY <1>1, <1>5, HeaderIs
  <2> HIDE DEF f, o, k, n, knext, ok, p
  <2>4. ReadField(r).st \in {"done", "length", "bigLength", "mask", "payload"}
    BY <1>4, <2>1, <2>2, <2>3, RdFields
  <2> QED
    BY <1>5, <2>4, RanksAre DEF st
<1>6. CASE st \in {"length", "bigLength"}
  <2> DEFINE n == in[1].n
             bad == BadLength(st, n)
             p == Past(in, 1)
  <2>1. ReadField(r) = ReadLength(r)
    BY <1>6 DEF ReadField
  <2> HIDE DEF in, fn, op, masked, key, plen, payload, valid, code, st
  <2>2. ReadLength(r) =
              IF bad THEN Failed(p, CloseCodeProtocolError)
              ELSE Rd(p, next, fn, op, masked, key, n, payload, valid, code)
    BY <1>1, <1>6, LengthIs
  <2> HIDE DEF n, bad, next, p
  <2>3. ReadField(r).st \in {"done", "mask", "payload"}
    BY <1>3, <1>4, <2>1, <2>2, RdFields
  <2> QED
    BY <1>6, <2>3, RanksAre DEF st
<1>7. CASE st = "mask"
  <2>1. ReadField(r) = ReadMask(r)
    BY <1>7 DEF ReadField
  <2> HIDE DEF in, fn, op, masked, key, plen, payload, valid, code, st
  <2>2. ReadMask(r)
           = Rd(Past(in, 1), "payload", fn, op, masked, in[1].key, plen, payload, valid, code)
    BY <1>1, <1>7, MaskIs
  <2>3. ReadField(r).st = "payload"
    BY <2>1, <2>2, RdFields
  <2> QED
    BY <1>7, <2>3, RanksAre DEF st
<1>8. CASE st = "payload"
  <2> DEFINE v == Mask(SubSeq(in, 1, plen), IF masked THEN key ELSE 0)
  <2>1. ReadField(r) = ReadPayload(r)
    BY <1>8 DEF ReadField
  <2> HIDE DEF in, fn, op, masked, key, plen, payload, valid, code, st
  <2>2. ReadPayload(r) =
              IF plen > MaxFrame THEN Failed(in, CloseCodeTooMuchData)
              ELSE Rd(Past(in, plen), "done", fn, op, masked, key, plen, v, valid, code)
    BY <1>1, <1>8, PayloadIs
  <2> HIDE DEF v
  <2>3. ReadField(r).st = "done"
    BY <1>4, <2>1, <2>2, RdFields
  <2> QED
    BY <1>8, <2>3, RanksAre DEF st
<1> QED
  BY <1>1, <1>2, <1>5, <1>6, <1>7, <1>8 DEF Stages

LEMMA StuckField ==
    ASSUME NEW r, ~CanRead(r)
    PROVE  ReadField(r) = r
  BY DEF ReadField

LEMMA DoneIsStuck ==
    ASSUME NEW r, Known(r), Rank(r.st) <= 0
    PROVE  ~CanRead(r)
  BY RanksAre DEF Known, CanRead

LEMMA MoreKnown ==
    ASSUME NEW r, Known(r), NEW bytes
    PROVE  Known(More(r, bytes)) /\ More(r, bytes).st = r.st
<1>1. r = Rd(r.in, r.st, r.fin, r.op, r.masked, r.key, r.plen, r.payload, r.valid, r.code)
  BY DEF Known, IsReader
<1>2. More(r, bytes) = Rd(r.in \o bytes, r.st, r.fin, r.op, r.masked, r.key, r.plen, r.payload,
                          r.valid, r.code)
  BY <1>1, MoreIs
<1>3. r.st \in Stages /\ LegalOp(r.valid, r.op)
  BY DEF Known
<1>4. More(r, bytes).st = r.st
  BY <1>2 DEF Rd
<1> QED
  BY <1>2, <1>3, <1>4, RdIsReader

LEMMA Settles0 ==
    ASSUME NEW r, Known(r), Rank(r.st) <= 0
    PROVE  ReadField(r)
              = r
  BY DoneIsStuck, StuckField

LEMMA Settles1 ==
    ASSUME NEW r, Known(r), Rank(r.st) <= 1
    PROVE  ReadField(ReadField(r))
              = ReadField(r)
<1>1. CASE ~CanRead(r)
  BY <1>1, StuckField
<1>2. CASE CanRead(r)
  <2> DEFINE s == ReadField(r)
  <2>1. Known(s) /\ Rank(s.st) < Rank(r.st)
    BY <1>2, FieldKnown, FieldRank
  <2> HIDE DEF s
  <2>2. Rank(s.st) <= 0
    BY <2>1, RanksAre DEF Known
  <2>3. ReadField(s) = s
    BY <2>1, <2>2, Settles0
  <2> QED
    BY <2>3 DEF s
<1> QED
  BY <1>1, <1>2

LEMMA Settles2 ==
    ASSUME NEW r, Known(r), Rank(r.st) <= 2
    PROVE  ReadField(ReadField(ReadField(r)))
              = ReadField(ReadField(r))
<1>1. CASE ~CanRead(r)
  BY <1>1, StuckField
<1>2. CASE CanRead(r)
  <2> DEFINE s == ReadField(r)
  <2>1. Known(s) /\ Rank(s.st) < Rank(r.st)
    BY <1>2, FieldKnown, FieldRank
  <2> HIDE DEF s
  <2>2. Rank(s.st) <= 1
    BY <2>1, RanksAre DEF Known
  <2>3. ReadField(ReadField(s)) = ReadField(s)
    BY <2>1, <2>2, Settles1
  <2> QED
    BY <2>3 DEF s
<1> QED
  BY <1>1, <1>2

LEMMA Settles3 ==
    ASSUME NEW r, Known(r), Rank(r.st) <= 3
    PROVE  ReadField(ReadField(ReadField(ReadField(r))))
              = ReadField(ReadField(ReadField(r)))
<1>1. CASE ~CanRead(r)
  BY <1>1, StuckField
<1>2. CASE CanRead(r)
  <2> DEFINE s == ReadField(r)
  <2>1. Known(s) /\ Rank(s.st) < Rank(r.st)
    BY <1>2, FieldKnown, FieldRank
  <2> HIDE DEF s
  <2>2. Rank(s.st) <= 2
    BY <2>1, RanksAre DEF Known
  <2>3. ReadField(ReadField(ReadField(s))) = ReadField(ReadField(s))
    BY <2>1, <2>2, Settles2
  <2> QED
    BY <2>3 DEF s
<1> QED
  BY <1>1, <1>2

LEMMA Cut1 ==
    ASSUME NEW S, NEW bytes \in Seq(S), NEW r, Ready(S, r, bytes), Rank(r.st) <= 1
    PROVE  ReadField(More(ReadField(r), bytes))
              = ReadField(More(r, bytes))
<1>1. CASE ~CanRead(r)
  BY <1>1, StuckField
<1>2. CASE CanRead(r)
  <2> DEFINE s == ReadField(r)
             m == More(s, bytes)
  <2>1. Known(s) /\ Rank(s.st) < Rank(r.st)
    BY <1>2, FieldKnown, FieldRank DEF Ready
  <2>2. Ready(S, s, bytes) /\ ReadField(More(r, bytes)) = m
    BY <1>2, FieldMore
  <2>3. Rank(s.st) <= 0
    BY <2>1, RanksAre DEF Known, Ready
  <2>4. Known(m) /\ Rank(m.st) <= 0
    BY <2>1, <2>3, MoreKnown
  <2> HIDE DEF s, m
  <2>5. ReadField(m) = m
    BY <2>4, Settles0
  <2>6. m = More(ReadField(r), bytes)
    BY DEF m, s
  <2> QED
    BY <2>2, <2>5, <2>6
<1> QED
  BY <1>1, <1>2

LEMMA Cut2 ==
    ASSUME NEW S, NEW bytes \in Seq(S), NEW r, Ready(S, r, bytes), Rank(r.st) <= 2
    PROVE  ReadField(ReadField(More(ReadField(ReadField(r)), bytes)))
              = ReadField(ReadField(More(r, bytes)))
<1>1. CASE ~CanRead(r)
  BY <1>1, StuckField
<1>2. CASE CanRead(r)
  <2> DEFINE s == ReadField(r)
             m == More(s, bytes)
  <2>1. Known(s) /\ Rank(s.st) < Rank(r.st)
    BY <1>2, FieldKnown, FieldRank DEF Ready
  <2>2. Ready(S, s, bytes) /\ ReadField(More(r, bytes)) = m
    BY <1>2, FieldMore
  <2>3. Rank(s.st) <= 1
    BY <2>1, RanksAre DEF Known, Ready
  <2>4. Known(m) /\ Rank(m.st) <= 1
    BY <2>1, <2>3, MoreKnown
  <2> HIDE DEF s, m
  <2>5. ReadField(More(ReadField(s), bytes))
           = ReadField(m)
    BY <2>2, <2>3, Cut1 DEF m
  <2>6. ReadField(ReadField(m)) = ReadField(m)
    BY <2>4, Settles1
  <2>7. ReadField(ReadField(r)) = ReadField(s)
    BY DEF s
  <2> QED
    BY <2>2, <2>5, <2>6, <2>7
<1> QED
  BY <1>1, <1>2

LEMMA Cut3 ==
    ASSUME NEW S, NEW bytes \in Seq(S), NEW r, Ready(S, r, bytes), Rank(r.st) <= 3
    PROVE  ReadField(ReadField(ReadField(More(ReadField(ReadField(ReadField(r))), bytes))))
              = ReadField(ReadField(ReadField(More(r, bytes))))
<1>1. CASE ~CanRead(r)
  BY <1>1, StuckField
<1>2. CASE CanRead(r)
  <2> DEFINE s == ReadField(r)
             m == More(s, bytes)
  <2>1. Known(s) /\ Rank(s.st) < Rank(r.st)
    BY <1>2, FieldKnown, FieldRank DEF Ready
  <2>2. Ready(S, s, bytes) /\ ReadField(More(r, bytes)) = m
    BY <1>2, FieldMore
  <2>3. Rank(s.st) <= 2
    BY <2>1, RanksAre DEF Known, Ready
  <2>4. Known(m) /\ Rank(m.st) <= 2
    BY <2>1, <2>3, MoreKnown
  <2> HIDE DEF s, m
  <2>5. ReadField(ReadField(More(ReadField(ReadField(s)), bytes)))
           = ReadField(ReadField(m))
    BY <2>2, <2>3, Cut2 DEF m
  <2>6. ReadField(ReadField(ReadField(m))) = ReadField(ReadField(m))
    BY <2>4, Settles2
  <2>7. ReadField(ReadField(ReadField(r))) = ReadField(ReadField(s))
    BY DEF s
  <2> QED
    BY <2>2, <2>5, <2>6, <2>7
<1> QED
  BY <1>1, <1>2

LEMMA Cut4 ==
    ASSUME NEW S, NEW bytes \in Seq(S), NEW r, Ready(S, r, bytes), Rank(r.st) <= 4
    PROVE  ReadField(ReadField(ReadField(ReadField(More(ReadField(ReadField(ReadField(ReadField(r)))),
                                         bytes)))))
              = ReadField(ReadField(ReadField(ReadField(More(r, bytes)))))
<1>1. CASE ~CanRead(r)
  BY <1>1, StuckField
<1>2. CASE CanRead(r)
  <2> DEFINE s == ReadField(r)
             m == More(s, bytes)
  <2>1. Known(s) /\ Rank(s.st) < Rank(r.st)
    BY <1>2, FieldKnown, FieldRank DEF Ready
  <2>2. Ready(S, s, bytes) /\ ReadField(More(r, bytes)) = m
    BY <1>2, FieldMore
  <2>3. Rank(s.st) <= 3
    BY <2>1, RanksAre DEF Known, Ready
  <2>4. Known(m) /\ Rank(m.st) <= 3
    BY <2>1, <2>3, MoreKnown
  <2> HIDE DEF s, m
  <2>5. ReadField(ReadField(ReadField(More(ReadField(ReadField(ReadField(s))), bytes))))
           = ReadField(ReadField(ReadField(m)))
    BY <2>2, <2>3, Cut3 DEF m
  <2>6. ReadField(ReadField(ReadField(ReadField(m)))) = ReadField(ReadField(ReadField(m)))
    BY <2>4, Settles3
  <2>7. ReadField(ReadField(ReadField(ReadField(r)))) = ReadField(ReadField(ReadField(s)))
    BY DEF s
  <2> QED
    BY <2>2, <2>5, <2>6, <2>7
<1> QED
  BY <1>1, <1>2

\* Wherever the stream is cut, the call of readFrame that waits for the rest returns what
\* it would have returned had all the bytes been there: QWebSocketFrame::readFrame and its
\* waitForReadyRead.
THEOREM CutAnywhere ==
    ASSUME NEW S, NEW bytes \in Seq(S), NEW r, Ready(S, r, bytes)
    PROVE  readFrame(More(readFrame(r), bytes)) = readFrame(More(r, bytes))
<1>1. Rank(r.st) <= 4
  BY RanksAre DEF Ready, Known
<1> QED
  BY <1>1, Cut4, ReadFrameIs

-----------------------------------------------------------------------------
(* What is written is what is read.                                        *)

\* A masked byte.
Coded(V, key) == {[v |-> x, m |-> key] : x \in V}

LEMMA MaskedBytes ==
    ASSUME NEW V, NEW values \in Seq(V), NEW key \in {0, 1}
    PROVE  /\ Mask(Plain(values), key) \in Seq(Coded(V, key))
           /\ Len(Mask(Plain(values), key)) = Len(values)
           /\ Mask(Mask(Plain(values), key), key) = Plain(values)
<1> DEFINE n == Len(values)
           plain == Plain(values)
           masked == Mask(plain, key)
<1>1. n \in Nat /\ DOMAIN values = 1..n /\ \A i \in 1..n : values[i] \in V
  OBVIOUS
<1>2. plain = [i \in 1..n |-> [v |-> values[i], m |-> 0]]
  BY <1>1 DEF Plain
<1> HIDE DEF plain
<1>3. masked = [i \in 1..n |-> [plain[i] EXCEPT !.m = (@ + key) % 2]]
  BY <1>2 DEF Mask
<1>4. \A i \in 1..n : [plain[i] EXCEPT !.m = (@ + key) % 2] = [v |-> values[i], m |-> key]
  <2> SUFFICES ASSUME NEW i \in 1..n
               PROVE  [plain[i] EXCEPT !.m = (@ + key) % 2] = [v |-> values[i], m |-> key]
    OBVIOUS
  <2>1. plain[i] = [v |-> values[i], m |-> 0]
    BY <1>2
  <2>2. (0 + key) % 2 = key
    OBVIOUS
  <2> QED
    BY <2>1, <2>2
<1>5. masked = [i \in 1..n |-> [v |-> values[i], m |-> key]]
  BY <1>3, <1>4
<1> HIDE DEF masked
<1>6. masked \in Seq(Coded(V, key)) /\ Len(masked) = n
  BY <1>1, <1>5 DEF Coded
<1>7. Mask(masked, key) = [i \in 1..n |-> [masked[i] EXCEPT !.m = (@ + key) % 2]]
  BY <1>5 DEF Mask
<1>8. \A i \in 1..n : [masked[i] EXCEPT !.m = (@ + key) % 2] = [v |-> values[i], m |-> 0]
  <2> SUFFICES ASSUME NEW i \in 1..n
               PROVE  [masked[i] EXCEPT !.m = (@ + key) % 2] = [v |-> values[i], m |-> 0]
    OBVIOUS
  <2>1. masked[i] = [v |-> values[i], m |-> key]
    BY <1>5
  <2>2. (key + key) % 2 = 0
    OBVIOUS
  <2> QED
    BY <2>1, <2>2
<1>9. Mask(masked, key) = plain
  BY <1>2, <1>7, <1>8
<1> QED
  BY <1>6, <1>9 DEF plain, masked

LEMMA AfterFirst ==
    ASSUME NEW S, NEW s \in Seq(S), NEW x \in S
    PROVE  /\ <<x>> \o s \in Seq(S) /\ (<<x>> \o s)[1] = x
           /\ Past(<<x>> \o s, 1) = s /\ Len(<<x>> \o s) >= 1
<1>1. <<x>> \in Seq(S) /\ Len(<<x>>) = 1 /\ <<x>>[1] = x
  OBVIOUS
<1>2. Past(<<x>> \o s, Len(<<x>>)) = s
  BY <1>1, PastAll
<1>3. /\ <<x>> \o s \in Seq(S) /\ Len(<<x>> \o s) = 1 + Len(s)
      /\ \A i \in 1..1 : (<<x>> \o s)[i] = <<x>>[i]
  BY <1>1, JoinIs
<1> QED
  BY <1>1, <1>2, <1>3

LEMMA AfterTwo ==
    ASSUME NEW S, NEW s \in Seq(S), NEW x \in S, NEW y \in S
    PROVE  /\ <<x, y>> \o s \in Seq(S)
           /\ (<<x, y>> \o s)[1] = x /\ (<<x, y>> \o s)[2] = y
           /\ Past(<<x, y>> \o s, 2) = s /\ Len(<<x, y>> \o s) >= 2
<1>1. <<x, y>> \in Seq(S) /\ Len(<<x, y>>) = 2 /\ <<x, y>>[1] = x /\ <<x, y>>[2] = y
  OBVIOUS
<1>2. Past(<<x, y>> \o s, Len(<<x, y>>)) = s
  BY <1>1, PastAll
<1>3. /\ <<x, y>> \o s \in Seq(S) /\ Len(<<x, y>> \o s) = 2 + Len(s)
      /\ \A i \in 1..2 : (<<x, y>> \o s)[i] = <<x, y>>[i]
  BY <1>1, JoinIs
<1> QED
  BY <1>1, <1>2, <1>3

LEMMA DoneStays ==
    ASSUME NEW in, NEW fn, NEW op, NEW masked, NEW key, NEW plen, NEW payload, NEW valid,
           NEW code, NEW r,
           r = Rd(in, "done", fn, op, masked, key, plen, payload, valid, code)
    PROVE  ReadField(r) = r
<1>1. r.st = "done"
  BY RdFields
<1>2. ~CanRead(r)
  BY <1>1 DEF CanRead
<1> QED
  BY <1>2, StuckField

\* The payload, when the header and the key have been read.
LEMMA PayloadReadBack ==
    ASSUME NEW V, NEW values \in Seq(V), NEW key \in {0, 1}, Len(values) <= MaxFrame,
           NEW S, Coded(V, key) \subseteq S, NEW rest \in Seq(S),
           NEW fn, NEW op, NEW masked, masked <=> key # 0, NEW payload, NEW valid, NEW code, NEW r,
           r = Rd(Mask(Plain(values), key) \o rest, "payload", fn, op, masked, key,
                  Len(values), payload, valid, code)
    PROVE  ReadField(r) = Rd(rest, "done", fn, op, masked, key, Len(values), Plain(values),
                             valid, code)
<1> DEFINE bytes == Mask(Plain(values), key)
           in == bytes \o rest
           n == Len(values)
           k == IF masked THEN key ELSE 0
           plain == Plain(values)
<1>1. k = key
  OBVIOUS
<1>2. bytes \in Seq(S) /\ Len(bytes) = n /\ Mask(bytes, key) = plain
  <2>1. bytes \in Seq(Coded(V, key)) /\ Len(bytes) = n /\ Mask(bytes, key) = plain
    BY MaskedBytes
  <2> HIDE DEF bytes, n, plain
  <2> QED
    BY <2>1, SeqMonotonic
<1>3. n \in Nat /\ Len(rest) \in Nat /\ ~(n > MaxFrame)
  BY LimitsAssumption
<1> HIDE DEF bytes, n, plain
<1>4. Len(in) >= n /\ Past(in, n) = rest /\ SubSeq(in, 1, n) = bytes
  BY <1>2, <1>3, PastAll, JoinIs
<1> HIDE DEF in, k
<1>5. r = Rd(in, "payload", fn, op, masked, key, n, payload, valid, code)
  BY DEF in, bytes, n
<1>6. r.in = in /\ r.st = "payload" /\ r.plen = n
  BY <1>5, RdFields
<1>7. ReadField(r) = ReadPayload(r)
  BY <1>3, <1>4, <1>6, PayloadStep
<1>8. ReadPayload(r) =
        IF n > MaxFrame THEN Failed(in, CloseCodeTooMuchData)
        ELSE Rd(Past(in, n), "done", fn, op, masked, key, n,
                Mask(SubSeq(in, 1, n), k), valid, code)
  BY <1>5, PayloadIs DEF k
<1>9. ReadField(r) = Rd(rest, "done", fn, op, masked, key, n, plain, valid, code)
  BY <1>1, <1>2, <1>3, <1>4, <1>7, <1>8
<1> QED
  BY <1>9 DEF n, plain

\* The parts of a frame on the wire.
FirstByte(op, fn) == [fin |-> fn, rsv |-> FALSE, op |-> op]

SecondByte(n, key) ==
    [masked |-> key # 0,
     len |-> IF n <= Len7 THEN n ELSE IF n <= Len16 THEN Len7 + 1 ELSE Len7 + 2]

LengthBytes(n) == IF n <= Len7 THEN <<>> ELSE << [n |-> n] >>

KeyBytes(key) == IF key = 0 THEN <<>> ELSE << [key |-> key] >>

WireBytes(V, op, n, key, fn) ==
    {FirstByte(op, fn), SecondByte(n, key), [n |-> n], [key |-> key]} \cup Coded(V, key)

\* The bytes of S include all those of the frame.
Carries(S, V, op, n, key, fn) == WireBytes(V, op, n, key, fn) \subseteq S

\* What follows the length: the key, the payload, and what is not of the frame.
After(values, key, rest) == KeyBytes(key) \o (Mask(Plain(values), key) \o rest)

Stream(op, values, key, fn, rest) == FrameBytes(op, values, key, fn) \o rest

\* The key, when there is one, and the payload.
LEMMA KeyReadBack ==
    ASSUME NEW V, NEW values \in Seq(V), NEW key \in {0, 1}, Len(values) <= MaxFrame,
           NEW S, Coded(V, key) \subseteq S, [key |-> key] \in S, NEW rest \in Seq(S),
           NEW fn, NEW op, NEW masked, masked <=> key # 0, NEW payload, NEW valid, NEW code,
           NEW next, next = IF masked THEN "mask" ELSE "payload", NEW r,
           r = Rd(After(values, key, rest), next, fn, op, masked, 0, Len(values), payload,
                  valid, code)
    PROVE  ReadField(ReadField(r)) = Rd(rest, "done", fn, op, masked, key, Len(values),
                                        Plain(values), valid, code)
<1> DEFINE bytes == Mask(Plain(values), key)
           after == bytes \o rest
           n == Len(values)
           plain == Plain(values)
           got == Rd(rest, "done", fn, op, masked, key, n, plain, valid, code)
<1>1. after \in Seq(S)
  <2>1. bytes \in Seq(Coded(V, key))
    BY MaskedBytes
  <2> HIDE DEF bytes
  <2>2. bytes \in Seq(S)
    BY <2>1, SeqMonotonic
  <2> QED
    BY <2>2, JoinIs
<1>2. CASE key = 0
  <2>1. <<>> \o after = after
    BY <1>1
  <2>0. After(values, key, rest) = after
    BY <1>2, <2>1 DEF After, KeyBytes
  <2> HIDE DEF after, n, plain
  <2>2. r = Rd(after, "payload", fn, op, masked, 0, n, payload, valid, code)
    BY <1>2, <2>0 DEF n
  <2>3. r = Rd(after, "payload", fn, op, masked, key, n, payload, valid, code)
    BY <1>2, <2>2
  <2>4. ReadField(r) = got
    BY <2>3, PayloadReadBack DEF after, n, plain
  <2>5. ReadField(got) = got
    BY DoneStays
  <2> HIDE DEF got
  <2> QED
    BY <2>4, <2>5 DEF got, n, plain
<1>3. CASE key # 0
  <2> DEFINE k == [key |-> key]
             in == <<k>> \o after
             s == Rd(after, "payload", fn, op, masked, key, n, payload, valid, code)
  <2>1. in[1] = k /\ Past(in, 1) = after /\ Len(in) >= 1
    BY <1>1, AfterFirst
  <2>2. k.key = key
    OBVIOUS
  <2>0. After(values, key, rest) = in
    BY <1>3 DEF After, KeyBytes
  <2> HIDE DEF k, in, after, n, plain
  <2>3. r = Rd(in, "mask", fn, op, masked, 0, n, payload, valid, code)
    BY <1>3, <2>0 DEF n
  <2>4. r.in = in /\ r.st = "mask"
    BY <2>3, RdFields
  <2>5. ReadField(r) = ReadMask(r)
    BY <2>1, <2>4, MaskStep
  <2>6. ReadMask(r) = Rd(Past(in, 1), "payload", fn, op, masked, in[1].key, n, payload, valid, code)
    BY <2>3, MaskIs
  <2>7. ReadField(r) = s
    BY <2>1, <2>2, <2>5, <2>6
  <2>8. ReadField(s) = got
    BY PayloadReadBack DEF after, n, plain
  <2> HIDE DEF s, got
  <2> QED
    BY <2>7, <2>8 DEF got, n, plain
<1> QED
  BY <1>2, <1>3

InOrder(op, n, key, fn, after) ==
    << FirstByte(op, fn), SecondByte(n, key) >> \o (LengthBytes(n) \o after)

LEMMA FrameBytesAre ==
    ASSUME NEW V, NEW values \in Seq(V), NEW key \in {0, 1}, NEW op, NEW fn,
           NEW S, Carries(S, V, op, Len(values), key, fn), NEW rest \in Seq(S)
    PROVE  /\ Stream(op, values, key, fn, rest)
                = InOrder(op, Len(values), key, fn, After(values, key, rest))
           /\ FrameBytes(op, values, key, fn) \in Seq(S)
           /\ After(values, key, rest) \in Seq(S)
           /\ LengthBytes(Len(values)) \in Seq(S)
<1> DEFINE n == Len(values)
           head == << FirstByte(op, fn), SecondByte(n, key) >>
           len == LengthBytes(n)
           k == KeyBytes(key)
           bytes == Mask(Plain(values), key)
<1>1. FrameBytes(op, values, key, fn) = ((head \o len) \o k) \o bytes
  BY DEF FrameBytes, getFrameHeader, FirstByte, SecondByte, LengthBytes, KeyBytes
<1>2. bytes \in Seq(S)
  <2>1. bytes \in Seq(Coded(V, key)) /\ Coded(V, key) \subseteq S
    BY MaskedBytes DEF Carries, WireBytes
  <2> HIDE DEF bytes
  <2> QED
    BY <2>1, SeqMonotonic
<1>3. head \in Seq(S)
  <2>1. FirstByte(op, fn) \in S /\ SecondByte(n, key) \in S
    BY DEF Carries, WireBytes
  <2> QED
    BY <2>1
<1>4. len \in Seq(S)
  <2>1. [n |-> n] \in S
    BY DEF Carries, WireBytes
  <2> QED
    BY <2>1 DEF LengthBytes
<1>5. k \in Seq(S)
  <2>1. [key |-> key] \in S
    BY DEF Carries, WireBytes
  <2> QED
    BY <2>1 DEF KeyBytes
<1> HIDE DEF n, head, len, k, bytes
<1>6. /\ (((head \o len) \o k) \o bytes) \o rest = head \o (len \o (k \o (bytes \o rest)))
      /\ ((head \o len) \o k) \o bytes \in Seq(S)
      /\ k \o (bytes \o rest) \in Seq(S)
  <2>1. /\ Join(head, len) \in Seq(S) /\ Join(Join(head, len), k) \in Seq(S)
        /\ Join(Join(Join(head, len), k), bytes) \in Seq(S)
        /\ Join(bytes, rest) \in Seq(S) /\ Join(k, Join(bytes, rest)) \in Seq(S)
    BY <1>2, <1>3, <1>4, <1>5, JoinAssoc
  <2>2. Join(Join(Join(Join(head, len), k), bytes), rest)
           = Join(head, Join(len, Join(k, Join(bytes, rest))))
    BY <1>2, <1>3, <1>4, <1>5, <2>1, JoinAssoc
  <2> QED
    BY <2>1, <2>2 DEF Join
<1>7. After(values, key, rest) = k \o (bytes \o rest)
  BY DEF After, k, bytes
<1>8. Stream(op, values, key, fn, rest) = (((head \o len) \o k) \o bytes) \o rest
  BY <1>1 DEF Stream
<1> QED
  BY <1>1, <1>4, <1>6, <1>7, <1>8 DEF n, head, len, InOrder

\* What may be sent as one frame: the opcodes are the protocol's, a control frame is
\* short and final, a data frame has no more than a reader takes.
Writable(op, values, fn) ==
    /\ ~isOpCodeReserved(op)
    /\ Len(values) <= MaxFrame
    /\ op \in Control => fn /\ Len(values) <= Len7

\* The frame, read, and the bytes that follow it.
Received(op, values, key, fn, rest) ==
    Rd(rest, "done", fn, op, key # 0, key, Len(values), Plain(values), Yes, CloseCodeNormal)

LEMMA ReadBack ==
    ASSUME NEW V, NEW values \in Seq(V), NEW key \in {0, 1}, NEW op, NEW fn,
           Writable(op, values, fn),
           NEW S, Carries(S, V, op, Len(values), key, fn), NEW rest \in Seq(S)
    PROVE  readFrame(NewReader(Stream(op, values, key, fn, rest)))
              = Received(op, values, key, fn, rest)
<1> DEFINE n == Len(values)
           first == FirstByte(op, fn)
           second == SecondByte(n, key)
           after == After(values, key, rest)
           tail == LengthBytes(n) \o after
           all == << first, second >> \o tail
           masked == key # 0
           next == IF masked THEN "mask" ELSE "payload"
           r == NewReader(Stream(op, values, key, fn, rest))
           s == Rd(after, next, fn, op, masked, 0, n, <<>>, Yes, CloseCodeNormal)
           got == Received(op, values, key, fn, rest)
<1>1. Stream(op, values, key, fn, rest) = all /\ after \in Seq(S) /\ LengthBytes(n) \in Seq(S)
  <2>1. /\ Stream(op, values, key, fn, rest) = InOrder(op, n, key, fn, after)
        /\ after \in Seq(S) /\ LengthBytes(n) \in Seq(S)
    BY FrameBytesAre
  <2> QED
    BY <2>1 DEF InOrder
<1>2. first \in S /\ second \in S /\ [n |-> n] \in S /\ [key |-> key] \in S
      /\ Coded(V, key) \subseteq S
  BY DEF Carries, WireBytes
<1>3. n \in Nat /\ Len7 \in Nat /\ Len16 \in Nat /\ Len7 < Len16
      /\ n <= MaxFrame /\ MaxFrame \in Nat /\ Len63 \in Nat /\ MaxFrame <= Len63
  BY LimitsAssumption DEF Writable
<1>4. /\ first.fin = fn /\ first.op = op /\ ~first.rsv
      /\ second.masked = masked
      /\ n <= Len7 => second.len = n
      /\ n > Len7 /\ n <= Len16 => second.len = Len7 + 1
      /\ n > Len16 => second.len = Len7 + 2
  BY <1>3 DEF FirstByte, SecondByte
<1>5. checkValidity(first, second)
  <2>1. op \in Control => second.len <= Len7 /\ fn
    BY <1>3, <1>4 DEF Writable
  <2> QED
    BY <1>4, <2>1 DEF checkValidity, Writable
<1>6. ReadField(ReadField(s)) = got
  <2>1. Len(values) <= MaxFrame
    BY <1>3
  <2>2. masked <=> key # 0
    OBVIOUS
  <2> HIDE DEF first, second, masked
  <2>3. ASSUME NEW nx, nx = next, NEW t,
               t = Rd(after, nx, fn, op, masked, 0, n, <<>>, Yes, CloseCodeNormal)
        PROVE  ReadField(ReadField(t)) = Rd(rest, "done", fn, op, masked, key, n,
                                            Plain(values), Yes, CloseCodeNormal)
    BY <1>2, <2>1, <2>2, <2>3, KeyReadBack
  <2> HIDE DEF n
  <2> QED
    BY <2>3 DEF Received, masked, n
<1>7. ReadField(got) = got
  BY DoneStays DEF Received
<1>8. tail \in Seq(S)
  <2> HIDE DEF after, n
  <2> QED
    BY <1>1, ConcatProperties
<1> HIDE DEF n, first, second, after, tail, masked, got
<1>9. all[1] = first /\ all[2] = second /\ Past(all, 2) = tail /\ Len(all) >= 2
  BY <1>2, <1>8, AfterTwo
<1> HIDE DEF all
<1>10. r = Rd(all, "header", Yes, "reservedB", No, 0, 0, <<>>, No, CloseCodeNormal)
  BY <1>1, NewReaderIs
<1>11. r.in = all /\ r.st = "header"
  BY <1>10, RdFields
<1>12. ReadField(r) = ReadHeader(r)
  BY <1>9, <1>11, HeaderStep
<1>13. ReadHeader(r) =
          IF ~checkValidity(first, second) THEN Failed(tail, CloseCodeProtocolError)
          ELSE IF second.len = Len7 + 1
          THEN Rd(tail, "length", fn, op, masked, 0, 0, <<>>, Yes, CloseCodeNormal)
          ELSE IF second.len = Len7 + 2
          THEN Rd(tail, "bigLength", fn, op, masked, 0, 0, <<>>, Yes, CloseCodeNormal)
          ELSE Rd(tail, next, fn, op, masked, 0, second.len, <<>>, Yes, CloseCodeNormal)
  BY <1>4, <1>9, <1>10, HeaderIs
<1> HIDE DEF r, next
<1>14. CASE n <= Len7
  <2>1. second.len = n /\ second.len # Len7 + 1 /\ second.len # Len7 + 2
    BY <1>3, <1>4, <1>14
  <2>2. tail = after
    BY <1>1, <1>14 DEF tail, LengthBytes
  <2>3. ReadField(r) = s
    BY <1>5, <1>12, <1>13, <2>1, <2>2
  <2> HIDE DEF s
  <2> QED
    BY <1>6, <1>7, <2>3, ReadFrameIs DEF r, got
<1>15. CASE n > Len7
  <2> DEFINE len == [n |-> n]
             st == IF n <= Len16 THEN "length" ELSE "bigLength"
             u == Rd(tail, st, fn, op, masked, 0, 0, <<>>, Yes, CloseCodeNormal)
  <2>1. tail = <<len>> \o after
    BY <1>3, <1>15 DEF tail, LengthBytes
  <2>2. len.n = n
    OBVIOUS
  <2>3. len \in S
    BY <1>2
  <2> HIDE DEF len
  <2>4. tail[1] = len /\ Past(tail, 1) = after /\ Len(tail) >= 1
    BY <1>1, <2>1, <2>3, AfterFirst
  <2>5. st \in {"length", "bigLength"} /\ (st = "length" <=> n <= Len16)
    OBVIOUS
  <2>6. ~BadLength(st, n)
    BY <1>3, <1>15 DEF BadLength
  <2>7. ReadField(r) = u
    <3>1. CASE n <= Len16
      BY <1>3, <1>4, <1>5, <1>12, <1>13, <1>15, <3>1
    <3>2. CASE ~(n <= Len16)
      <4>1. second.len = Len7 + 2 /\ second.len # Len7 + 1
        BY <1>3, <1>4, <3>2
      <4> QED
        BY <1>5, <1>12, <1>13, <3>2, <4>1
    <3> QED
      BY <3>1, <3>2
  <2> HIDE DEF st
  <2>8. u.in = tail /\ u.st = st
    BY RdFields
  <2>9. ReadField(u) = ReadLength(u)
    BY <2>4, <2>5, <2>8, LengthStep
  <2>10. ReadLength(u) =
            IF BadLength(st, n) THEN Failed(after, CloseCodeProtocolError)
            ELSE Rd(after, next, fn, op, masked, 0, n, <<>>, Yes, CloseCodeNormal)
    BY <2>2, <2>4, <2>5, LengthIs DEF next
  <2>11. ReadField(u) = s
    BY <2>6, <2>9, <2>10
  <2> HIDE DEF s, u
  <2> QED
    BY <1>6, <2>7, <2>11, ReadFrameIs DEF r, got
<1> QED
  BY <1>3, <1>14, <1>15

\* Every frame that QWebSocketPrivate writes, whatever its opcode, its payload, the form
\* of its length and its key, is the frame that QWebSocketFrame::readFrame returns, and
\* the bytes that follow it stay for the next one: getFrameHeader, doWriteFrames and
\* readFrame agree.
THEOREM RoundTrip ==
    ASSUME NEW V, NEW values \in Seq(V), NEW key \in {0, 1}, NEW op, NEW fn,
           Writable(op, values, fn),
           NEW W, NEW rest \in Seq(W)
    PROVE  readFrame(NewReader(FrameBytes(op, values, key, fn) \o rest))
              = Received(op, values, key, fn, rest)
<1> DEFINE S == WireBytes(V, op, Len(values), key, fn) \cup W
<1>1. Carries(S, V, op, Len(values), key, fn)
  BY DEF Carries
<1>2. W \subseteq S
  OBVIOUS
<1> HIDE DEF S
<1>3. rest \in Seq(S)
  BY <1>2, SeqMonotonic
<1>4. readFrame(NewReader(Stream(op, values, key, fn, rest))) = Received(op, values, key, fn, rest)
  BY <1>1, <1>3, ReadBack
<1> QED
  BY <1>4 DEF Stream

LEMMA StreamLengths ==
    ASSUME NEW V, NEW values \in Seq(V), NEW key \in {0, 1}, NEW op, NEW fn,
           NEW S, Carries(S, V, op, Len(values), key, fn), NEW rest \in Seq(S)
    PROVE  LengthsAre(Stream(op, values, key, fn, rest), "header")
<1> DEFINE n == Len(values)
           first == FirstByte(op, fn)
           second == SecondByte(n, key)
           after == After(values, key, rest)
           tail == LengthBytes(n) \o after
           all == << first, second >> \o tail
           len == [n |-> n]
<1>1. Stream(op, values, key, fn, rest) = all /\ after \in Seq(S) /\ LengthBytes(n) \in Seq(S)
  <2>1. /\ Stream(op, values, key, fn, rest) = InOrder(op, n, key, fn, after)
        /\ after \in Seq(S) /\ LengthBytes(n) \in Seq(S)
    BY FrameBytesAre
  <2> QED
    BY <2>1 DEF InOrder
<1>2. first \in S /\ second \in S /\ len \in S
  BY DEF Carries, WireBytes
<1>3. n \in Nat /\ Len7 \in Nat
  BY LimitsAssumption
<1>4. second.len \in Nat /\ (second.len > Len7 => n > Len7)
  BY <1>3, LimitsAssumption DEF SecondByte
<1>5. n > Len7 => tail = <<len>> \o after
  BY <1>3 DEF LengthBytes
<1>6. len.n = n
  OBVIOUS
<1> HIDE DEF n, first, second, after, len
<1>7. tail \in Seq(S)
  BY <1>1, ConcatProperties
<1>8. n > Len7 => tail[1] = len
  BY <1>1, <1>2, <1>5, AfterFirst
<1> HIDE DEF tail
<1>9. all[2] = second /\ Past(all, 2) = tail /\ Len(all) >= 2 /\ all \in Seq(S)
  BY <1>2, <1>7, AfterTwo
<1> HIDE DEF all
<1>10. Len(all) >= 3 => all[3] = tail[1]
  <2>1. 2 \in 0..Len(all)
    BY <1>9
  <2>2. \A i \in 1..(Len(all) - 2) : Past(all, 2)[i] = all[2 + i]
    BY <1>9, <2>1, PastIs
  <2> QED
    BY <1>9, <2>2
<1>11. LengthsAre(all, "header")
  BY <1>3, <1>4, <1>6, <1>8, <1>9, <1>10 DEF LengthsAre
<1> QED
  BY <1>1, <1>11

LEMMA LengthsOfFront ==
    ASSUME NEW S, NEW front \in Seq(S), NEW back \in Seq(S),
           LengthsAre(front \o back, "header")
    PROVE  LengthsAre(front, "header")
<1> DEFINE all == front \o back
<1>1. /\ Len(all) = Len(front) + Len(back) /\ Len(front) \in Nat /\ Len(back) \in Nat
      /\ \A i \in 1..Len(front) : all[i] = front[i]
  BY JoinIs
<1> HIDE DEF all
<1>2. Len(front) >= 2 => all[2] = front[2] /\ Len(all) >= 2
  BY <1>1
<1>3. Len(front) >= 3 => all[3] = front[3] /\ Len(all) >= 3
  BY <1>1
<1>4. LengthsAre(all, "header")
  BY DEF all
<1> QED
  BY <1>1, <1>2, <1>3, <1>4 DEF LengthsAre

LEMMA TwoSegments ==
    ASSUME NEW S, NEW front \in Seq(S), NEW back \in Seq(S),
           LengthsAre(front, "header"), LengthsAre(front \o back, "header")
    PROVE  readFrame(More(readFrame(NewReader(front)), back)) = readFrame(NewReader(front \o back))
<1>1. ASSUME NEW both, both = front \o back, LengthsAre(both, "header"),
             NEW r, r = Rd(front, "header", Yes, "reservedB", No, 0, 0, <<>>, No, CloseCodeNormal)
      PROVE  readFrame(More(readFrame(r), back)) = readFrame(NewReader(both))
  <2>1. r.in = front /\ r.st = "header" /\ r.plen = 0
    BY <1>1, RdFields
  <2>2. Known(r)
    <3>1. LegalOp(No, "reservedB") /\ "header" \in Stages
      BY DEF LegalOp, No, Stages
    <3> QED
      BY <1>1, <3>1, RdIsReader
  <2>3. Measured(S, r)
    BY <2>1 DEF Measured
  <2>4. LengthsAre(r.in \o back, r.st)
    BY <1>1, <2>1
  <2>5. Ready(S, r, back)
    BY <2>2, <2>3, <2>4 DEF Ready
  <2>6. More(r, back) = NewReader(both)
    BY <1>1, MoreIs, NewReaderIs
  <2> QED
    BY <2>5, <2>6, CutAnywhere
<1> QED
  BY <1>1, NewReaderIs

\* A frame that TCP delivers in two segments, cut between any two bytes, is read as if it
\* had come in one: what readFrame has read of it before it waits is not lost, and nothing
\* is read twice.
THEOREM FrameSurvives ==
    ASSUME NEW V, NEW values \in Seq(V), NEW key \in {0, 1}, NEW op, NEW fn,
           Writable(op, values, fn),
           NEW W, NEW rest \in Seq(W), NEW front \in Seq(W), NEW back \in Seq(W),
           front \o back = FrameBytes(op, values, key, fn) \o rest
    PROVE  readFrame(More(readFrame(NewReader(front)), back))
              = Received(op, values, key, fn, rest)
<1> DEFINE S == WireBytes(V, op, Len(values), key, fn) \cup W
<1>1. Carries(S, V, op, Len(values), key, fn)
  BY DEF Carries
<1>2. W \subseteq S
  OBVIOUS
<1> HIDE DEF S
<1>3. rest \in Seq(S) /\ front \in Seq(S) /\ back \in Seq(S)
  BY <1>2, SeqMonotonic
<1>4. LengthsAre(front \o back, "header")
  BY <1>1, <1>3, StreamLengths DEF Stream
<1>5. LengthsAre(front, "header")
  BY <1>3, <1>4, LengthsOfFront
<1>6. readFrame(More(readFrame(NewReader(front)), back)) = readFrame(NewReader(front \o back))
  BY <1>3, <1>4, <1>5, TwoSegments
<1>7. readFrame(NewReader(FrameBytes(op, values, key, fn) \o rest))
         = Received(op, values, key, fn, rest)
  BY RoundTrip
<1> QED
  BY <1>6, <1>7

-----------------------------------------------------------------------------
(* Induction, from the fact that a set of numbers has a least one.         *)

LEMMA Least ==
    ASSUME NEW T, T \subseteq Nat, T # {}
    PROVE  \E x \in T : \A y \in T : ~ (y < x)
<1> DEFINE R == OpToRel(<, Nat)
<1>1. IsWellFoundedOn(R, Nat)
  BY NatLessThanWellFounded
<1>2. \E x \in T : \A y \in T : ~ (<<y, x>> \in R)
  <2> HIDE DEF R
  <2> QED
    BY <1>1, WFMin
<1>3. \A x, y \in Nat : y < x => <<y, x>> \in R
  BY DEF OpToRel
<1> QED
  BY <1>2, <1>3

LEMMA Induction ==
    ASSUME NEW T, 0 \in T, \A n \in Nat : n \in T => n + 1 \in T
    PROVE  Nat \subseteq T
<1> SUFFICES ASSUME Nat \ T # {} PROVE FALSE
  OBVIOUS
<1>1. PICK x \in Nat \ T : \A y \in Nat \ T : ~ (y < x)
  <2> DEFINE U == Nat \ T
  <2>1. U \subseteq Nat /\ U # {}
    OBVIOUS
  <2> HIDE DEF U
  <2>2. \E x \in U : \A y \in U : ~ (y < x)
    BY <2>1, Least
  <2> QED
    BY <2>2 DEF U
<1>2. x # 0 /\ x - 1 \in Nat /\ x - 1 < x /\ (x - 1) + 1 = x
  BY <1>1
<1>3. x - 1 \in T
  BY <1>1, <1>2
<1> QED
  BY <1>1, <1>2, <1>3

-----------------------------------------------------------------------------
(* The pieces of a sequence of sequences, put together.                    *)

Flattens(s, g) == g = [i \in 1..Len(s) |-> IF i = 1 THEN s[i] ELSE Join(g[i - 1], s[i])]

LEMMA FlattenIs ==
    ASSUME NEW s, Len(s) # 0
    PROVE  FlattenSeq(s) = (CHOOSE g : Flattens(s, g))[Len(s)]
  BY DEF FlattenSeq, Flattens, Join

LEMMA FlattenExists ==
    ASSUME NEW S, NEW s \in Seq(Seq(S)), Len(s) # 0
    PROVE  \E g : /\ Flattens(s, g)
                  /\ FlattenSeq(s) = g[Len(s)]
                  /\ g[1] = s[1]
                  /\ \A i \in 1..Len(s) : g[i] \in Seq(S) /\ (i > 1 => g[i] = Join(g[i - 1], s[i]))
<1> DEFINE n == Len(s)
           Upto(k, g) == g = [i \in 1..k |-> IF i = 1 THEN s[i] ELSE Join(g[i - 1], s[i])]
           T == {k \in Nat : k >= 1 /\ k <= n => \E g : Upto(k, g)}
<1>0. n \in Nat /\ n >= 1 /\ \A i \in 1..n : s[i] \in Seq(S)
  OBVIOUS
<1>1. 0 \in T
  OBVIOUS
<1>2. ASSUME NEW k \in Nat, k \in T PROVE k + 1 \in T
  <2> SUFFICES ASSUME k + 1 <= n PROVE \E g : Upto(k + 1, g)
    OBVIOUS
  <2>1. CASE k = 0
    <3> DEFINE h == [i \in 1..1 |-> s[i]]
    <3>1. Upto(1, h)
      <4>1. \A i \in 1..1 : s[i] = IF i = 1 THEN s[i] ELSE Join(h[i - 1], s[i])
        OBVIOUS
      <4> QED
        BY <4>1
    <3> HIDE DEF h
    <3> QED
      BY <2>1, <3>1
  <2>2. CASE k >= 1
    <3>1. PICK g : Upto(k, g)
      <4>1. k <= n
        BY <1>0
      <4> QED
        BY <1>2, <2>2, <4>1
    <3> DEFINE h == [i \in 1..(k + 1) |-> IF i <= k THEN g[i] ELSE Join(g[k], s[k + 1])]
    <3>2. \A i \in 1..(k + 1) : h[i] = IF i = 1 THEN s[i] ELSE Join(h[i - 1], s[i])
      <4> SUFFICES ASSUME NEW i \in 1..(k + 1)
                   PROVE h[i] = IF i = 1 THEN s[i] ELSE Join(h[i - 1], s[i])
        OBVIOUS
      <4>1. CASE i = k + 1
        <5>1. h[i] = Join(g[k], s[k + 1]) /\ h[i - 1] = g[k] /\ i # 1
          BY <2>2, <4>1
        <5> QED
          BY <5>1, <4>1
      <4>2. CASE i <= k
        <5>1. h[i] = g[i] /\ (i # 1 => h[i - 1] = g[i - 1])
          BY <4>2
        <5>2. g[i] = IF i = 1 THEN s[i] ELSE Join(g[i - 1], s[i])
          BY <3>1, <4>2
        <5> QED
          BY <5>1, <5>2
      <4> QED
        BY <4>1, <4>2
    <3>3. Upto(k + 1, h)
      <4>1. h = [i \in 1..(k + 1) |-> h[i]]
        OBVIOUS
      <4> HIDE DEF h
      <4> QED
        BY <3>2, <4>1
    <3> HIDE DEF h
    <3> QED
      BY <3>3
  <2> QED
    BY <2>1, <2>2
<1>3. \E g : Flattens(s, g)
  <2>1. Nat \subseteq T
    <3> HIDE DEF T
    <3> QED
      BY <1>1, <1>2, Induction
  <2>2. \E g : Upto(n, g)
    <3>1. n \in T /\ n >= 1 /\ n <= n
      BY <1>0, <2>1
    <3> HIDE DEF n
    <3> QED
      BY <3>1
  <2> QED
    BY <2>2 DEF Flattens
<1>4. DEFINE f == CHOOSE g : Flattens(s, g)
<1>5. Flattens(s, f)
  BY <1>3
<1>6. FlattenSeq(s) = f[n]
  BY FlattenIs
<1> HIDE DEF f
<1>7. \A i \in 1..n : f[i] = IF i = 1 THEN s[i] ELSE Join(f[i - 1], s[i])
  BY <1>5 DEF Flattens
<1> DEFINE U == {k \in Nat : k >= 1 /\ k <= n => f[k] \in Seq(S)}
<1>8. 0 \in U
  OBVIOUS
<1>9. ASSUME NEW k \in Nat, k \in U PROVE k + 1 \in U
  <2> SUFFICES ASSUME k + 1 <= n PROVE f[k + 1] \in Seq(S)
    OBVIOUS
  <2>1. CASE k = 0
    BY <1>0, <1>7, <2>1
  <2>2. CASE k >= 1
    <3>1. f[k] \in Seq(S) /\ s[k + 1] \in Seq(S) /\ k + 1 # 1 /\ k + 1 \in 1..n
      BY <1>0, <1>9, <2>2
    <3>2. f[k + 1] = Join(f[k], s[k + 1])
      BY <1>7, <3>1
    <3> QED
      BY <3>1, <3>2, JoinAssoc
  <2> QED
    BY <2>1, <2>2
<1>10. \A i \in 1..n : f[i] \in Seq(S)
  <2>1. Nat \subseteq U
    <3> HIDE DEF U
    <3> QED
      BY <1>8, <1>9, Induction
  <2> QED
    BY <2>1
<1> QED
  BY <1>0, <1>5, <1>6, <1>7, <1>10

\* Two such functions agree as long as the sequences do.
LEMMA FlattenAgree ==
    ASSUME NEW s, NEW t, NEW n \in Nat, NEW f, NEW g, n >= 1,
           f[1] = s[1], g[1] = t[1],
           \A i \in 1..n : s[i] = t[i],
           \A i \in 2..n : f[i] = Join(f[i - 1], s[i]),
           \A i \in 2..n : g[i] = Join(g[i - 1], t[i])
    PROVE  f[n] = g[n]
<1> DEFINE T == {k \in Nat : k >= 1 /\ k <= n => f[k] = g[k]}
<1>1. 0 \in T
  OBVIOUS
<1>2. ASSUME NEW k \in Nat, k \in T PROVE k + 1 \in T
  <2> SUFFICES ASSUME k + 1 <= n PROVE f[k + 1] = g[k + 1]
    OBVIOUS
  <2>1. CASE k = 0
    BY <2>1
  <2>2. CASE k >= 1
    <3>1. f[k] = g[k] /\ s[k + 1] = t[k + 1] /\ k + 1 \in 2..n /\ (k + 1) - 1 = k
      BY <1>2, <2>2
    <3>2. f[k + 1] = Join(f[k], s[k + 1]) /\ g[k + 1] = Join(g[k], t[k + 1])
      BY <3>1
    <3> QED
      BY <3>1, <3>2
  <2> QED
    BY <2>1, <2>2
<1>3. Nat \subseteq T
  <2> HIDE DEF T
  <2> QED
    BY <1>1, <1>2, Induction
<1> QED
  BY <1>3

LEMMA FlattenNone == FlattenSeq(<<>>) = <<>>
  BY DEF FlattenSeq

LEMMA JoinNone ==
    ASSUME NEW S, NEW s \in Seq(S)
    PROVE  Join(<<>>, s) = s /\ Join(s, <<>>) = s
  BY DEF Join

LEMMA FlattenAppend ==
    ASSUME NEW S, NEW s \in Seq(Seq(S)), NEW x \in Seq(S)
    PROVE  /\ FlattenSeq(Append(s, x)) = Join(FlattenSeq(s), x)
           /\ FlattenSeq(s) \in Seq(S)
<1> DEFINE t == Append(s, x)
           n == Len(s)
<1>1. /\ t \in Seq(Seq(S)) /\ Len(t) = n + 1 /\ t[n + 1] = x /\ n \in Nat
      /\ \A i \in 1..n : t[i] = s[i]
  OBVIOUS
<1> HIDE DEF t
<1>2. PICK g : /\ FlattenSeq(t) = g[n + 1]
               /\ g[1] = t[1]
               /\ \A i \in 1..(n + 1) : i > 1 => g[i] = Join(g[i - 1], t[i])
  <2>1. Len(t) # 0
    BY <1>1
  <2>2. \E g : /\ FlattenSeq(t) = g[Len(t)]
                /\ g[1] = t[1]
                /\ \A i \in 1..Len(t) : i > 1 => g[i] = Join(g[i - 1], t[i])
    <3>1. t \in Seq(Seq(S))
      BY <1>1
    <3>2. PICK g : /\ FlattenSeq(t) = g[Len(t)]
                   /\ g[1] = t[1]
                   /\ \A i \in 1..Len(t) : g[i] \in Seq(S) /\ (i > 1 => g[i] = Join(g[i - 1], t[i]))
      BY <2>1, <3>1, FlattenExists
    <3> QED
      BY <3>2
  <2> HIDE DEF n
  <2> QED
    BY <1>1, <2>2
<1>3. CASE n = 0
  <2>1. s = <<>>
    BY <1>3
  <2>2. FlattenSeq(t) = x
    BY <1>1, <1>2, <1>3
  <2>3. Join(<<>>, x) = x
    BY JoinNone
  <2>4. <<>> \in Seq(S)
    OBVIOUS
  <2> HIDE DEF n
  <2> QED
    BY <2>1, <2>2, <2>3, <2>4, FlattenNone DEF t
<1>4. CASE n # 0
  <2>1. PICK f : /\ FlattenSeq(s) = f[n]
                 /\ f[1] = s[1]
                 /\ \A i \in 1..n : f[i] \in Seq(S) /\ (i > 1 => f[i] = Join(f[i - 1], s[i]))
    BY <1>4, FlattenExists
  <2>2. n >= 1 /\ n \in 1..n /\ (n + 1) - 1 = n /\ n + 1 \in 1..(n + 1) /\ n + 1 > 1
    BY <1>1, <1>4
  <2>3. \A i \in 2..n : f[i] = Join(f[i - 1], s[i]) /\ g[i] = Join(g[i - 1], t[i])
    BY <1>1, <1>2, <2>1
  <2>4. f[n] = g[n]
    <3>1. \A i \in 1..n : s[i] = t[i]
      BY <1>1
    <3>2. f[1] = s[1] /\ g[1] = t[1] /\ s[1] = t[1]
      BY <1>2, <2>1, <2>2, <3>1
    <3>3. n \in Nat /\ n >= 1
      BY <1>1, <2>2
    <3> HIDE DEF n
    <3> QED
      BY <2>3, <3>1, <3>2, <3>3, FlattenAgree
  <2>5. g[n + 1] = Join(g[n], x)
    BY <1>1, <1>2, <2>2
  <2> QED
    BY <1>2, <2>1, <2>2, <2>4, <2>5 DEF t
<1> QED
  BY <1>3, <1>4

LEMMA FrontGrows ==
    ASSUME NEW S, NEW t \in Seq(S), NEW n \in Nat, n + 1 <= Len(t)
    PROVE  /\ SubSeq(t, 1, n + 1) = Append(SubSeq(t, 1, n), t[n + 1])
           /\ SubSeq(t, 1, n) \in Seq(S) /\ Len(SubSeq(t, 1, n)) = n
           /\ t[n + 1] \in S
           /\ \A i \in 1..n : SubSeq(t, 1, n)[i] = t[i]
<1> DEFINE u == SubSeq(t, 1, n)
           v == SubSeq(t, 1, n + 1)
<1>1. u \in Seq(S) /\ Len(u) = n /\ \A i \in 1..n : u[i] = t[i]
  OBVIOUS
<1>2. v \in Seq(S) /\ Len(v) = n + 1 /\ \A i \in 1..(n + 1) : v[i] = t[i]
  OBVIOUS
<1>3. t[n + 1] \in S
  OBVIOUS
<1> HIDE DEF u, v
<1>4. v = Append(u, t[n + 1])
  BY <1>1, <1>2, <1>3
<1> QED
  BY <1>1, <1>3, <1>4 DEF u, v

LEMMA FrontNone ==
    ASSUME NEW S, NEW t \in Seq(S)
    PROVE  SubSeq(t, 1, 0) = <<>> /\ SubSeq(t, 1, Len(t)) = t
  OBVIOUS

LEMMA FlattenOne ==
    ASSUME NEW S, NEW x \in Seq(S)
    PROVE  FlattenSeq(<<x>>) = x
<1>1. ASSUME NEW s, s \in Seq(Seq(S))
      PROVE  FlattenSeq(Append(s, x)) = Join(FlattenSeq(s), x)
  BY <1>1, FlattenAppend
<1>2. <<>> \in Seq(Seq(S)) /\ <<x>> = Append(<<>>, x)
  OBVIOUS
<1>3. FlattenSeq(Append(<<>>, x)) = Join(FlattenSeq(<<>>), x)
  BY <1>1, <1>2
<1> QED
  BY <1>2, <1>3, JoinNone, FlattenNone

\* Sequences that end with the same element.
LEMMA JoinLast ==
    ASSUME NEW S, NEW s \in Seq(S), NEW t \in Seq(S), NEW x \in S
    PROVE  Join(s, Append(t, x)) = Append(Join(s, t), x)
  BY DEF Join

LEMMA FlattenJoin ==
    ASSUME NEW S, NEW s \in Seq(Seq(S)), NEW t \in Seq(Seq(S))
    PROVE  FlattenSeq(Join(s, t)) = Join(FlattenSeq(s), FlattenSeq(t))
<1> DEFINE Upto(n) == SubSeq(t, 1, n)
           P(n) == FlattenSeq(Join(s, Upto(n))) = Join(FlattenSeq(s), FlattenSeq(Upto(n)))
           T == {n \in Nat : n <= Len(t) => P(n)}
<1>1. FlattenSeq(s) \in Seq(S)
  <2>1. <<>> \in Seq(S)
    OBVIOUS
  <2> QED
    BY <2>1, FlattenAppend
<1>2. 0 \in T
  <2>1. Upto(0) = <<>> /\ Join(s, <<>>) = s
    BY FrontNone, JoinNone
  <2>2. Join(FlattenSeq(s), <<>>) = FlattenSeq(s)
    BY <1>1, JoinNone
  <2>3. P(0)
    BY <2>1, <2>2, FlattenNone
  <2> HIDE DEF P
  <2> QED
    BY <2>3
<1>3. ASSUME NEW n \in Nat, n \in T PROVE n + 1 \in T
  <2> SUFFICES ASSUME n + 1 <= Len(t) PROVE P(n + 1)
    OBVIOUS
  <2> DEFINE u == Upto(n)
             x == t[n + 1]
  <2>1. Upto(n + 1) = Append(u, x) /\ u \in Seq(Seq(S)) /\ x \in Seq(S)
    BY FrontGrows
  <2>2. FlattenSeq(Join(s, u)) = Join(FlattenSeq(s), FlattenSeq(u))
    BY <1>3
  <2> HIDE DEF u, x
  <2>3. Join(s, Append(u, x)) = Append(Join(s, u), x) /\ Join(s, u) \in Seq(Seq(S))
    BY <2>1, JoinLast, JoinAssoc
  <2>4. /\ FlattenSeq(Append(Join(s, u), x)) = Join(FlattenSeq(Join(s, u)), x)
        /\ FlattenSeq(Append(u, x)) = Join(FlattenSeq(u), x) /\ FlattenSeq(u) \in Seq(S)
    BY <2>1, <2>3, FlattenAppend
  <2>5. Join(Join(FlattenSeq(s), FlattenSeq(u)), x) = Join(FlattenSeq(s), Join(FlattenSeq(u), x))
    BY <1>1, <2>1, <2>4, JoinAssoc
  <2> QED
    BY <2>1, <2>2, <2>3, <2>4, <2>5
<1>4. Nat \subseteq T
  <2> HIDE DEF T
  <2> QED
    BY <1>2, <1>3, Induction
<1>5. P(Len(t))
  <2>1. Len(t) \in T /\ Len(t) <= Len(t)
    BY <1>4
  <2> HIDE DEF P
  <2> QED
    BY <2>1
<1> QED
  BY <1>5, FrontNone

LEMMA FlattenEmpties ==
    ASSUME NEW S, NEW t \in Seq(Seq(S)), \A i \in 1..Len(t) : t[i] = <<>>
    PROVE  FlattenSeq(t) = <<>>
<1> DEFINE Upto(n) == SubSeq(t, 1, n)
           P(n) == FlattenSeq(Upto(n)) = <<>>
           T == {n \in Nat : n <= Len(t) => P(n)}
<1>1. 0 \in T
  <2>1. P(0)
    BY FrontNone, FlattenNone
  <2> HIDE DEF P
  <2> QED
    BY <2>1
<1>2. ASSUME NEW n \in Nat, n \in T PROVE n + 1 \in T
  <2> SUFFICES ASSUME n + 1 <= Len(t) PROVE P(n + 1)
    OBVIOUS
  <2> DEFINE u == Upto(n)
             x == t[n + 1]
  <2>1. Upto(n + 1) = Append(u, x) /\ u \in Seq(Seq(S)) /\ x \in Seq(S)
    BY FrontGrows
  <2>2. FlattenSeq(u) = <<>> /\ x = <<>>
    BY <1>2
  <2> HIDE DEF u, x
  <2>3. FlattenSeq(Append(u, x)) = Join(FlattenSeq(u), x)
    BY <2>1, FlattenAppend
  <2>4. Join(<<>>, <<>>) = <<>>
    BY DEF Join
  <2> QED
    BY <2>1, <2>2, <2>3, <2>4
<1>3. Nat \subseteq T
  <2> HIDE DEF T
  <2> QED
    BY <1>1, <1>2, Induction
<1>4. P(Len(t))
  <2>1. Len(t) \in T /\ Len(t) <= Len(t)
    BY <1>3
  <2> HIDE DEF P
  <2> QED
    BY <2>1
<1> QED
  BY <1>4, FrontNone

LEMMA FlattenType ==
    ASSUME NEW S, NEW s \in Seq(Seq(S))
    PROVE  FlattenSeq(s) \in Seq(S)
<1>1. <<>> \in Seq(S)
  OBVIOUS
<1> QED
  BY <1>1, FlattenAppend

-----------------------------------------------------------------------------
(* What a history of frames means grows with the history.                  *)

Frames ==
    [fin : BOOLEAN, rsv : BOOLEAN, op : Opcodes, form : {"7", "16", "64"}, n : Nat,
     masked : BOOLEAN, values : Seq(Nat)]

Msgs == [op : Opcodes, data : Seq(Nat)]

LEMMA MaxIs ==
    ASSUME NEW n \in Nat, NEW D \in SUBSET (1..n), D # {}
    PROVE  /\ Max(D) \in D
           /\ \A y \in D : y <= Max(D)
           /\ \A x \in D : (\A y \in D : y <= x) => Max(D) = x
<1> DEFINE T == {n - x : x \in D}
<1>1. PICK t \in T : \A y \in T : ~ (y < t)
  <2>1. T \subseteq Nat /\ T # {}
    <3>1. PICK d \in D : TRUE
      OBVIOUS
    <3>2. n - d \in T
      OBVIOUS
    <3>3. \A x \in D : n - x \in Nat
      OBVIOUS
    <3> QED
      BY <3>2, <3>3
  <2> HIDE DEF T
  <2> QED
    BY <2>1, Least
<1>2. PICK x \in D : t = n - x
  BY <1>1
<1>3. \A y \in D : x >= y
  <2> SUFFICES ASSUME NEW y \in D PROVE x >= y
    OBVIOUS
  <2>1. n - y \in T
    OBVIOUS
  <2>2. ~ (n - y < n - x)
    BY <1>1, <1>2, <2>1
  <2> QED
    BY <1>2, <2>2
<1>4. Max(D) \in D /\ \A y \in D : Max(D) >= y
  BY <1>2, <1>3 DEF Max
<1>5. D \subseteq Int
  OBVIOUS
<1> DEFINE m == Max(D)
<1>6. m \in D /\ \A y \in D : m >= y
  BY <1>4
<1> HIDE DEF m
<1>7. \A y \in D : y <= m
  BY <1>5, <1>6
<1>8. ASSUME NEW z \in D, \A y \in D : y <= z PROVE m = z
  <2>1. m <= z /\ m >= z /\ m \in Int /\ z \in Int
    BY <1>5, <1>6, <1>8
  <2> QED
    BY <2>1
<1> QED
  BY <1>6, <1>7, <1>8 DEF m

Openers(fs, i) == {j \in Parts(fs, i) : fs[j].op # "continue"}
Pieces(fs, i) == [j \in 1..i |-> IF j \in Parts(fs, i) THEN fs[j].values ELSE <<>>]

LEMMA OpcodeIs ==
    ASSUME NEW fs, NEW i
    PROVE  Opcode(fs, i) = IF Openers(fs, i) = {} THEN "continue" ELSE fs[Max(Openers(fs, i))].op
  BY DEF Opcode, Openers

LEMMA AssembledIs ==
    ASSUME NEW fs, NEW i
    PROVE  Assembled(fs, i) = FlattenSeq(Pieces(fs, i))
  BY DEF Assembled, Pieces

\* The history g begins with the history h.
Begins(h, g) ==
    /\ h \in Seq(Frames) /\ g \in Seq(Frames) /\ Len(h) <= Len(g)
    /\ \A i \in 1..Len(h) : g[i] = h[i]

LEMMA SameOpening ==
    ASSUME NEW h, NEW g, Begins(h, g), NEW i \in 1..(Len(h) + 1)
    PROVE  OpenBefore(g, i) = OpenBefore(h, i)
<1> DEFINE D == DataBefore(h, i)
<1>0. Len(h) \in Nat /\ \A j \in 1..(i - 1) : g[j] = h[j]
  BY DEF Begins
<1>1. DataBefore(g, i) = D /\ D \in SUBSET (1..(i - 1))
  BY <1>0 DEF DataBefore
<1>2. D # {} => Max(D) \in D
  <2>1. i - 1 \in Nat
    BY <1>0
  <2> HIDE DEF D
  <2> QED
    BY <1>1, <2>1, MaxIs
<1>3. D # {} => g[Max(D)] = h[Max(D)]
  BY <1>0, <1>1, <1>2
<1> QED
  BY <1>1, <1>3 DEF OpenBefore

LEMMA SameParts ==
    ASSUME NEW h, NEW g, Begins(h, g), NEW i \in 1..Len(h)
    PROVE  /\ Parts(g, i) = Parts(h, i) /\ Parts(h, i) \in SUBSET (1..i)
           /\ Opcode(g, i) = Opcode(h, i)
           /\ Assembled(g, i) = Assembled(h, i)
<1>0. Len(h) \in Nat /\ \A j \in 1..i : g[j] = h[j]
  BY DEF Begins
<1>1. Parts(g, i) = Parts(h, i) /\ Parts(h, i) \in SUBSET (1..i)
  BY <1>0 DEF Parts
<1>2. Openers(g, i) = Openers(h, i) /\ Openers(h, i) \in SUBSET (1..i)
  BY <1>0, <1>1 DEF Openers
<1>3. Openers(h, i) # {} => g[Max(Openers(h, i))] = h[Max(Openers(h, i))]
  <2>1. i \in Nat
    BY <1>0
  <2>2. Openers(h, i) # {} => Max(Openers(h, i)) \in Openers(h, i)
    BY <1>2, <2>1, MaxIs
  <2> QED
    BY <1>0, <1>2, <2>2
<1>4. Pieces(g, i) = Pieces(h, i)
  BY <1>0, <1>1 DEF Pieces
<1> QED
  BY <1>1, <1>2, <1>3, <1>4, OpcodeIs, AssembledIs

\* What is said of frame i is said of the frames up to it.
LEMMA SameFrame ==
    ASSUME NEW h, NEW g, Begins(h, g), NEW i \in 1..Len(h)
    PROVE  /\ BreaksProtocol(g, i) = BreaksProtocol(h, i)
           /\ TooLarge(g, i) = TooLarge(h, i)
           /\ BadText(g, i) = BadText(h, i)
           /\ LegalFrame(g, i) = LegalFrame(h, i)
<1>0. Len(h) \in Nat /\ g[i] = h[i] /\ i \in 1..(Len(h) + 1)
  BY DEF Begins
<1>1. OpenBefore(g, i) = OpenBefore(h, i)
  BY <1>0, SameOpening
<1>2. Opcode(g, i) = Opcode(h, i) /\ Assembled(g, i) = Assembled(h, i)
  BY SameParts
<1>3. BreaksProtocol(g, i) = BreaksProtocol(h, i)
  BY <1>0, <1>1 DEF BreaksProtocol
<1>4. Size(g, i) = Size(h, i)
  BY <1>0, <1>2 DEF Size
<1>5. TooLarge(g, i) = TooLarge(h, i)
  BY <1>0, <1>3, <1>4 DEF TooLarge
<1>6. BadText(g, i) = BadText(h, i)
  BY <1>0, <1>2, <1>3 DEF BadText
<1> QED
  BY <1>3, <1>5, <1>6 DEF LegalFrame

\* After a whole history: whether a message is open, its opcode and its bytes.
Opens(h) == OpenBefore(h, Len(h) + 1)
Op(h) == Opcode(h, Len(h))
Data(h) == Assembled(h, Len(h))

IsData(f) == f.op \notin Control

LEMMA Grown ==
    ASSUME NEW h \in Seq(Frames), NEW f \in Frames, NEW g, g = Append(h, f)
    PROVE  /\ Begins(h, g) /\ g \in Seq(Frames)
           /\ Len(h) \in Nat /\ Len(g) = Len(h) + 1
           /\ g[Len(h) + 1] = f /\ \A i \in 1..Len(h) : g[i] = h[i]
<1>1. /\ g \in Seq(Frames) /\ Len(h) \in Nat /\ Len(g) = Len(h) + 1
      /\ g[Len(h) + 1] = f /\ \A i \in 1..Len(h) : g[i] = h[i]
  OBVIOUS
<1>2. Len(h) <= Len(g)
  BY <1>1
<1> QED
  BY <1>1, <1>2 DEF Begins

LEMMA OpensThen ==
    ASSUME NEW h \in Seq(Frames), NEW f \in Frames, NEW g, g = Append(h, f)
    PROVE  /\ OpenBefore(g, Len(g)) = Opens(h)
           /\ Opens(g) = IF IsData(f) THEN ~f.fin ELSE Opens(h)
<1> DEFINE n == Len(h)
           D == DataBefore(g, n + 1)
           E == DataBefore(g, n + 2)
<1>1. /\ Begins(h, g) /\ n \in Nat /\ Len(g) = n + 1
      /\ g[n + 1] = f /\ \A i \in 1..n : g[i] = h[i]
  <2>1. Begins(h, g)
    BY Grown
  <2>2. /\ n \in Nat /\ Len(g) = n + 1
        /\ g[n + 1] = f /\ \A i \in 1..n : g[i] = h[i]
    BY Grown
  <2> QED
    BY <2>1, <2>2
<1>2. OpenBefore(g, n + 1) = Opens(h)
  <2>1. n + 1 \in 1..(n + 1)
    BY <1>1
  <2> QED
    BY <1>1, <2>1, SameOpening DEF Opens
<1>3. Opens(g) = OpenBefore(g, n + 2)
  BY <1>1 DEF Opens
<1>4. E = IF IsData(f) THEN D \cup {n + 1} ELSE D
  BY <1>1 DEF DataBefore, IsData
<1>5. CASE IsData(f)
  <2>1. E \in SUBSET (1..(n + 1)) /\ n + 1 \in Nat /\ n + 1 \in E /\ \A y \in E : y <= n + 1
    BY <1>1, <1>4, <1>5 DEF DataBefore
  <2> HIDE DEF E
  <2>2. Max(E) = n + 1
    BY <2>1, MaxIs
  <2> QED
    BY <1>1, <1>2, <1>3, <1>5, <2>1, <2>2 DEF OpenBefore, E
<1>6. CASE ~IsData(f)
  <2>1. E = D
    BY <1>4, <1>6
  <2>2. OpenBefore(g, n + 2) = OpenBefore(g, n + 1)
    BY <2>1 DEF OpenBefore
  <2> QED
    BY <1>1, <1>2, <1>3, <1>6, <2>2
<1> QED
  BY <1>5, <1>6

LEMMA PartsThen ==
    ASSUME NEW h \in Seq(Frames), NEW f \in Frames, NEW g, g = Append(h, f)
    PROVE  /\ Parts(g, Len(g)) =
                 IF ~IsData(f) THEN Parts(h, Len(h))
                 ELSE IF f.op = "continue" THEN Parts(h, Len(h)) \cup {Len(g)}
                 ELSE {Len(g)}
           /\ Parts(h, Len(h)) \in SUBSET (1..Len(h))
<1> DEFINE n == Len(h)
           P == Parts(h, n)
           Q == Parts(g, n + 1)
           Followed(fs, j, m) == \A k \in (j + 1)..m : fs[k].op \in Control \cup {"continue"}
<1>1. /\ n \in Nat /\ Len(g) = n + 1 /\ g[n + 1] = f /\ \A i \in 1..n : g[i] = h[i]
  BY Grown
<1>2. P \in SUBSET (1..n)
  BY DEF Parts
<1>3. \A j \in 1..n : Followed(g, j, n + 1) <=>
          Followed(h, j, n) /\ f.op \in Control \cup {"continue"}
  <2> SUFFICES ASSUME NEW j \in 1..n
               PROVE Followed(g, j, n + 1) <=>
                        Followed(h, j, n) /\ f.op \in Control \cup {"continue"}
    OBVIOUS
  <2>1. (j + 1)..(n + 1) = ((j + 1)..n) \cup {n + 1}
    BY <1>1
  <2>2. \A k \in (j + 1)..n : g[k] = h[k]
    BY <1>1
  <2> QED
    BY <1>1, <2>1, <2>2
<1>4. \A j \in 1..n : j \in Q <=> j \in P /\ f.op \in Control \cup {"continue"}
  <2>1. \A j \in 1..n : j \in Q <=> g[j].op \notin Control /\ Followed(g, j, n + 1)
    BY <1>1 DEF Parts
  <2>2. \A j \in 1..n : j \in P <=> h[j].op \notin Control /\ Followed(h, j, n)
    BY <1>1 DEF Parts
  <2> HIDE DEF P, Q, Followed
  <2> QED
    BY <1>1, <1>3, <2>1, <2>2
<1>5. n + 1 \in Q <=> IsData(f)
  BY <1>1 DEF Parts, IsData
<1>6. Q \in SUBSET (1..(n + 1))
  BY DEF Parts
<1> HIDE DEF P, Q
<1>7. Q = IF ~IsData(f) THEN P ELSE IF f.op = "continue" THEN P \cup {n + 1} ELSE {n + 1}
  <2> DEFINE R == IF ~IsData(f) THEN P
                  ELSE IF f.op = "continue" THEN P \cup {n + 1} ELSE {n + 1}
  <2>1. R \subseteq 1..(n + 1) /\ n + 1 \notin P
    <3>1. 1..n \subseteq 1..(n + 1) /\ n + 1 \in 1..(n + 1) /\ n + 1 \notin 1..n
      BY <1>1
    <3>2. P \subseteq 1..n
      BY <1>2
    <3> HIDE DEF n
    <3> QED
      BY <3>1, <3>2
  <2>2. \A j \in 1..n : j \in Q <=> j \in R
    <3>1. f.op \in Control \cup {"continue"} <=> (~IsData(f) \/ f.op = "continue")
      BY DEF IsData
    <3>2. \A j \in 1..n : j # n + 1
      BY <1>1
    <3> QED
      BY <1>4, <3>1, <3>2
  <2>3. n + 1 \in Q <=> n + 1 \in R
    BY <1>5, <2>1
  <2>4. \A j \in 1..(n + 1) : j \in 1..n \/ j = n + 1
    BY <1>1
  <2>5. Q \subseteq 1..(n + 1)
    BY <1>6
  <2> HIDE DEF R, n
  <2>6. \A j : j \in Q <=> j \in R
    BY <2>1, <2>2, <2>3, <2>4, <2>5
  <2>7. Q = R
    BY <2>6
  <2> QED
    BY <2>7 DEF R
<1> QED
  BY <1>1, <1>2, <1>7 DEF P, Q

LEMMA OpThen ==
    ASSUME NEW h \in Seq(Frames), NEW f \in Frames, NEW g, g = Append(h, f)
    PROVE  Op(g) = IF IsData(f) /\ f.op # "continue" THEN f.op ELSE Op(h)
<1> DEFINE n == Len(h)
           A == Openers(h, n)
           B == Openers(g, n + 1)
<1>1. /\ n \in Nat /\ Len(g) = n + 1 /\ g[n + 1] = f /\ \A i \in 1..n : g[i] = h[i]
  BY Grown
<1>2. /\ Parts(g, n + 1) = IF ~IsData(f) THEN Parts(h, n)
                           ELSE IF f.op = "continue" THEN Parts(h, n) \cup {n + 1} ELSE {n + 1}
      /\ Parts(h, n) \in SUBSET (1..n)
  <2>1. /\ Parts(g, Len(g)) = IF ~IsData(f) THEN Parts(h, n)
                              ELSE IF f.op = "continue" THEN Parts(h, n) \cup {Len(g)}
                              ELSE {Len(g)}
        /\ Parts(h, n) \in SUBSET (1..n)
    BY PartsThen
  <2> QED
    BY <1>1, <2>1
<1>3. Op(g) = IF B = {} THEN "continue" ELSE g[Max(B)].op
  BY <1>1, OpcodeIs DEF Op
<1>4. Op(h) = IF A = {} THEN "continue" ELSE h[Max(A)].op
  BY OpcodeIs DEF Op
<1>5. A \in SUBSET (1..n)
  BY <1>2 DEF Openers
<1>6. CASE IsData(f) /\ f.op # "continue"
  <2>1. B = {n + 1}
    BY <1>1, <1>2, <1>6 DEF Openers
  <2>2. Max({n + 1}) = n + 1
    <3>1. {n + 1} \in SUBSET (1..(n + 1)) /\ n + 1 \in Nat
      BY <1>1
    <3>2. Max({n + 1}) \in {n + 1}
      BY <3>1, MaxIs
    <3> QED
      BY <3>2
  <2> QED
    BY <1>1, <1>3, <1>6, <2>1, <2>2
<1>7. CASE ~(IsData(f) /\ f.op # "continue")
  <2>1. B = A
    BY <1>1, <1>2, <1>7 DEF Openers
  <2>2. A # {} => Max(A) \in A
    BY <1>1, <1>5, MaxIs
  <2> HIDE DEF A, B
  <2> QED
    BY <1>1, <1>3, <1>4, <1>5, <1>7, <2>1, <2>2
<1> QED
  BY <1>6, <1>7

LEMMA PiecesType ==
    ASSUME NEW h \in Seq(Frames), NEW i \in 0..Len(h)
    PROVE  /\ Pieces(h, i) \in Seq(Seq(Nat)) /\ Len(Pieces(h, i)) = i
           /\ Assembled(h, i) \in Seq(Nat)
           /\ Opcode(h, i) \in Opcodes
<1>1. i \in Nat /\ \A j \in 1..i : h[j] \in Frames
  OBVIOUS
<1>2. \A j \in 1..i : h[j].values \in Seq(Nat) /\ h[j].op \in Opcodes
  BY <1>1 DEF Frames
<1>3. \A j \in 1..i : (IF j \in Parts(h, i) THEN h[j].values ELSE <<>>) \in Seq(Nat)
  BY <1>2
<1>4. Pieces(h, i) \in Seq(Seq(Nat)) /\ Len(Pieces(h, i)) = i
  BY <1>1, <1>3 DEF Pieces
<1>5. Assembled(h, i) \in Seq(Nat)
  BY <1>4, FlattenType, AssembledIs
<1>6. Opcode(h, i) \in Opcodes
  <2>1. Openers(h, i) \in SUBSET (1..i)
    BY DEF Openers, Parts
  <2>2. Openers(h, i) # {} => Max(Openers(h, i)) \in 1..i
    BY <1>1, <2>1, MaxIs
  <2>3. "continue" \in Opcodes
    BY DEF Opcodes
  <2> QED
    BY <1>2, <2>2, <2>3, OpcodeIs
<1> QED
  BY <1>4, <1>5, <1>6

LEMMA DataThen ==
    ASSUME NEW h \in Seq(Frames), NEW f \in Frames, NEW g, g = Append(h, f)
    PROVE  /\ Data(g) = IF ~IsData(f) THEN Data(h)
                        ELSE IF f.op = "continue" THEN Join(Data(h), f.values)
                        ELSE f.values
           /\ Data(h) \in Seq(Nat) /\ Op(h) \in Opcodes
<1> DEFINE n == Len(h)
           p == Pieces(h, n)
           q == Pieces(g, n + 1)
<1>1. /\ n \in Nat /\ Len(g) = n + 1 /\ g[n + 1] = f /\ \A i \in 1..n : g[i] = h[i]
      /\ g \in Seq(Frames)
  BY Grown
<1>2. /\ Parts(g, n + 1) = IF ~IsData(f) THEN Parts(h, n)
                           ELSE IF f.op = "continue" THEN Parts(h, n) \cup {n + 1} ELSE {n + 1}
      /\ Parts(h, n) \in SUBSET (1..n)
  <2>1. /\ Parts(g, Len(g)) = IF ~IsData(f) THEN Parts(h, n)
                              ELSE IF f.op = "continue" THEN Parts(h, n) \cup {Len(g)}
                              ELSE {Len(g)}
        /\ Parts(h, n) \in SUBSET (1..n)
    BY PartsThen
  <2> QED
    BY <1>1, <2>1
<1>3. p \in Seq(Seq(Nat)) /\ Len(p) = n /\ Data(h) \in Seq(Nat) /\ Op(h) \in Opcodes
  <2>1. n \in 0..Len(h)
    BY <1>1
  <2> QED
    BY <2>1, PiecesType DEF Data, Op
<1>4. q \in Seq(Seq(Nat)) /\ Len(q) = n + 1
  <2>1. n + 1 \in 0..Len(g)
    BY <1>1
  <2> QED
    BY <1>1, <2>1, PiecesType
<1>5. Data(h) = FlattenSeq(p) /\ Data(g) = FlattenSeq(q)
  BY <1>1, AssembledIs DEF Data
<1>6. /\ \A j \in 1..n : p[j] = IF j \in Parts(h, n) THEN h[j].values ELSE <<>>
      /\ \A j \in 1..(n + 1) : q[j] = IF j \in Parts(g, n + 1) THEN g[j].values ELSE <<>>
  BY <1>1 DEF Pieces
<1>7. f.values \in Seq(Nat)
  BY DEF Frames
<1> DEFINE r(x) == Append(p, x)
<1>8. \A x \in Seq(Nat) : /\ r(x) \in Seq(Seq(Nat)) /\ Len(r(x)) = n + 1 /\ r(x)[n + 1] = x
                          /\ \A j \in 1..n : r(x)[j] = p[j]
  BY <1>1, <1>3
<1>9. \A x \in Seq(Nat) : FlattenSeq(r(x)) = Join(Data(h), x)
  BY <1>3, <1>5, FlattenAppend
<1> HIDE DEF p, q, r
<1>10. ASSUME NEW x \in Seq(Nat), q[n + 1] = x, \A j \in 1..n : q[j] = p[j]
       PROVE  q = r(x)
  <2> DEFINE y == r(x)
  <2>1. /\ y \in Seq(Seq(Nat)) /\ Len(y) = n + 1 /\ y[n + 1] = x
        /\ \A j \in 1..n : y[j] = p[j]
    BY <1>8
  <2> HIDE DEF y
  <2>2. \A j \in 1..(n + 1) : q[j] = y[j]
    <3>1. \A j \in 1..(n + 1) : j \in 1..n \/ j = n + 1
      BY <1>1
    <3> QED
      BY <1>10, <2>1, <3>1
  <2>3. q = y
    BY <1>4, <2>1, <2>2, SameSeq
  <2> QED
    BY <2>3 DEF y
<1>11. CASE ~IsData(f)
  <2>1. <<>> \in Seq(Nat)
    OBVIOUS
  <2>2. q[n + 1] = <<>> /\ \A j \in 1..n : q[j] = p[j]
    BY <1>1, <1>2, <1>6, <1>11
  <2>3. q = r(<<>>)
    BY <1>1, <1>4, <1>10, <2>1, <2>2
  <2> QED
    BY <1>3, <1>5, <1>9, <1>11, <2>1, <2>3, JoinNone
<1>12. CASE IsData(f) /\ f.op = "continue"
  <2>1. q[n + 1] = f.values /\ \A j \in 1..n : q[j] = p[j]
    BY <1>1, <1>2, <1>6, <1>12
  <2>2. q = r(f.values)
    BY <1>1, <1>4, <1>7, <1>10, <2>1
  <2> QED
    BY <1>3, <1>5, <1>7, <1>9, <1>12, <2>2
<1>13. CASE IsData(f) /\ f.op # "continue"
  <2> DEFINE o == [j \in 1..n |-> <<>>]
             u == Append(o, f.values)
  <2>1. o \in Seq(Seq(Nat)) /\ Len(o) = n /\ \A j \in 1..Len(o) : o[j] = <<>>
    BY <1>1
  <2>2. FlattenSeq(o) = <<>>
    <3> HIDE DEF o
    <3> QED
      BY <2>1, FlattenEmpties
  <2>3. u \in Seq(Seq(Nat)) /\ Len(u) = n + 1 /\ u[n + 1] = f.values
        /\ \A j \in 1..n : u[j] = <<>>
    BY <1>1, <1>7, <2>1
  <2>4. FlattenSeq(u) = Join(<<>>, f.values)
    <3> HIDE DEF o
    <3> QED
      BY <1>7, <2>1, <2>2, FlattenAppend
  <2>5. q[n + 1] = f.values /\ \A j \in 1..n : q[j] = <<>>
    BY <1>1, <1>2, <1>6, <1>13
  <2> HIDE DEF u
  <2>6. \A j \in 1..(n + 1) : q[j] = u[j]
    BY <1>1, <2>3, <2>5
  <2>7. q = u
    BY <1>4, <2>3, <2>6, SameSeq
  <2> QED
    BY <1>3, <1>5, <1>7, <1>13, <2>4, <2>7, JoinNone
<1> QED
  BY <1>3, <1>11, <1>12, <1>13

\* What a frame means that follows a history.
Prior(h, f) == IF f.op = "continue" THEN Data(h) ELSE <<>>
NextOp(h, f) == IF f.op = "continue" THEN Op(h) ELSE f.op
NextData(h, f) == Join(Prior(h, f), f.values)
NextSize(h, f) ==
    Len(f.values)
    + IF NextOp(h, f) = "text" THEN Characters(Prior(h, f)) ELSE Len(Prior(h, f))

Breaks(h, f) == ~WellFormed(f) \/ (IsData(f) /\ ((f.op = "continue") # Opens(h)))
Exceeds(h, f) == f.n > MaxFrame \/ (~Breaks(h, f) /\ IsData(f) /\ NextSize(h, f) > MaxMessage)
Garbles(h, f) ==
    /\ ~Breaks(h, f) /\ IsData(f) /\ NextOp(h, f) = "text"
    /\ ~LegalText(NextData(h, f), f.fin)
Fits(h, f) == ~Breaks(h, f) /\ ~Exceeds(h, f) /\ ~Garbles(h, f)

LEMMA FrameThen ==
    ASSUME NEW h \in Seq(Frames), NEW f \in Frames, NEW g, g = Append(h, f)
    PROVE  /\ BreaksProtocol(g, Len(g)) <=> Breaks(h, f)
           /\ TooLarge(g, Len(g)) <=> Exceeds(h, f)
           /\ BadText(g, Len(g)) <=> Garbles(h, f)
           /\ LegalFrame(g, Len(g)) <=> Fits(h, f)
           /\ IsData(f) => Op(g) = NextOp(h, f) /\ Data(g) = NextData(h, f)
           /\ Prior(h, f) \in Seq(Nat) /\ NextData(h, f) \in Seq(Nat) /\ NextOp(h, f) \in Opcodes
<1> DEFINE n == Len(g)
<1>1. g[n] = f /\ n \in Nat /\ f.values \in Seq(Nat) /\ f.op \in Opcodes
  BY Grown DEF Frames
<1>2. OpenBefore(g, n) = Opens(h)
  BY OpensThen
<1>3. BreaksProtocol(g, n) <=> Breaks(h, f)
  BY <1>1, <1>2 DEF BreaksProtocol, Breaks, IsData
<1>4. /\ Data(h) \in Seq(Nat) /\ Op(h) \in Opcodes
      /\ Data(g) = IF ~IsData(f) THEN Data(h)
                   ELSE IF f.op = "continue" THEN Join(Data(h), f.values) ELSE f.values
  BY DataThen
<1>5. Prior(h, f) \in Seq(Nat) /\ NextOp(h, f) \in Opcodes /\ NextData(h, f) \in Seq(Nat)
  <2>1. Prior(h, f) \in Seq(Nat) /\ NextOp(h, f) \in Opcodes
    BY <1>1, <1>4 DEF Prior, NextOp
  <2> QED
    BY <1>1, <2>1, JoinAssoc DEF NextData
<1>6. IsData(f) => Op(g) = NextOp(h, f)
  BY OpThen DEF NextOp
<1>7. IsData(f) => Data(g) = NextData(h, f)
  BY <1>1, <1>4, JoinNone DEF NextData, Prior
<1>8. IsData(f) => Size(g, n) = NextSize(h, f)
  <2> SUFFICES ASSUME IsData(f) PROVE Size(g, n) = NextSize(h, f)
    OBVIOUS
  <2> DEFINE all == Assembled(g, n)
             before == SubSeq(all, 1, Len(all) - Len(f.values))
  <2>1. all = Join(Prior(h, f), f.values)
    BY <1>7 DEF NextData, Data
  <2>2. before = Prior(h, f)
    <3>1. ASSUME NEW a \in Seq(Nat), NEW b \in Seq(Nat), NEW c, c = a \o b
          PROVE  SubSeq(c, 1, Len(c) - Len(b)) = a
      <4>1. Len(c) - Len(b) = Len(a)
        BY <3>1
      <4>2. SubSeq(c, 1, Len(a)) = a
        BY <3>1, PastAll
      <4> QED
        BY <4>1, <4>2
    <3> HIDE DEF all
    <3> QED
      BY <1>1, <1>5, <2>1, <3>1 DEF Join
  <2>3. Size(g, n) = Len(f.values) + IF Opcode(g, n) = "text" THEN Characters(before)
                                     ELSE Len(before)
    BY <1>1 DEF Size
  <2> QED
    BY <1>6, <2>2, <2>3 DEF NextSize, Op
<1>9. TooLarge(g, n) <=> Exceeds(h, f)
  BY <1>1, <1>3, <1>8 DEF TooLarge, Exceeds, IsData
<1>10. BadText(g, n) <=> Garbles(h, f)
  BY <1>1, <1>3, <1>6, <1>7 DEF BadText, Garbles, IsData, Op, Data
<1>11. LegalFrame(g, n) <=> Fits(h, f)
  BY <1>3, <1>9, <1>10 DEF LegalFrame, Fits
<1> QED
  BY <1>3, <1>5, <1>6, <1>7, <1>9, <1>10, <1>11

\* All of a history is read: it is legal, and no close frame ends it.
AllRead(h) == \A k \in 1..Len(h) : LegalFrame(h, k) /\ h[k].op # "close"

LEMMA AllReadThen ==
    ASSUME NEW h \in Seq(Frames), NEW f \in Frames, NEW g, g = Append(h, f)
    PROVE  AllRead(g) <=> AllRead(h) /\ Fits(h, f) /\ f.op # "close"
<1> DEFINE n == Len(h)
<1>1. /\ n \in Nat /\ Len(g) = n + 1 /\ g[n + 1] = f /\ \A i \in 1..n : g[i] = h[i]
  BY Grown
<1>2. LegalFrame(g, n + 1) <=> Fits(h, f)
  BY <1>1, FrameThen
<1>3. \A k \in 1..n : LegalFrame(g, k) <=> LegalFrame(h, k)
  <2>1. Begins(h, g)
    BY Grown
  <2> QED
    BY <2>1, SameFrame
<1>4. \A k \in 1..(n + 1) : k \in 1..n \/ k = n + 1
  BY <1>1
<1>5. n + 1 \in 1..(n + 1) /\ \A k \in 1..n : k \in 1..(n + 1)
  BY <1>1
<1> QED
  BY <1>1, <1>2, <1>3, <1>4, <1>5 DEF AllRead

MessageEnds(fs) == {i \in LegalFrames(fs) : fs[i].op \notin Control /\ fs[i].fin}
Given(fs) ==
    [i \in 1..Len(fs) |->
        IF i \in MessageEnds(fs) THEN <<[op |-> Opcode(fs, i), data |-> Assembled(fs, i)]>>
        ELSE <<>>]

LEMMA GivenType ==
    ASSUME NEW h \in Seq(Frames)
    PROVE  /\ MessagesOf(h) = FlattenSeq(Given(h))
           /\ Given(h) \in Seq(Seq(Msgs)) /\ Len(Given(h)) = Len(h)
           /\ MessagesOf(h) \in Seq(Msgs)
<1>1. MessagesOf(h) = FlattenSeq(Given(h))
  BY DEF MessagesOf, Given, MessageEnds
<1>2. \A i \in 1..Len(h) : [op |-> Opcode(h, i), data |-> Assembled(h, i)] \in Msgs
  <2> SUFFICES ASSUME NEW i \in 1..Len(h)
               PROVE [op |-> Opcode(h, i), data |-> Assembled(h, i)] \in Msgs
    OBVIOUS
  <2>1. i \in 0..Len(h)
    OBVIOUS
  <2> QED
    BY <2>1, PiecesType DEF Msgs
<1>3. \A i \in 1..Len(h) : Given(h)[i] \in Seq(Msgs)
  BY <1>2 DEF Given
<1>4. Given(h) \in Seq(Seq(Msgs)) /\ Len(Given(h)) = Len(h)
  <2>1. Len(h) \in Nat /\ Given(h) = [i \in 1..Len(h) |-> Given(h)[i]]
    BY DEF Given
  <2> QED
    BY <1>3, <2>1
<1> QED
  BY <1>1, <1>4, FlattenType

LEMMA MessagesThen ==
    ASSUME NEW h \in Seq(Frames), NEW f \in Frames, NEW g, g = Append(h, f)
    PROVE  MessagesOf(g) =
              IF AllRead(h) /\ Fits(h, f) /\ IsData(f) /\ f.fin
              THEN Append(MessagesOf(h), [op |-> NextOp(h, f), data |-> NextData(h, f)])
              ELSE MessagesOf(h)
<1> DEFINE n == Len(h)
           m == [op |-> NextOp(h, f), data |-> NextData(h, f)]
           p == Given(h)
           q == Given(g)
           whole == AllRead(h) /\ Fits(h, f) /\ IsData(f) /\ f.fin
           x == IF whole THEN <<m>> ELSE <<>>
<1>1. /\ n \in Nat /\ Len(g) = n + 1 /\ g[n + 1] = f /\ \A i \in 1..n : g[i] = h[i]
  BY Grown
<1>2. Begins(h, g) /\ g \in Seq(Frames)
  BY Grown
<1>3. LegalFrame(g, n + 1) <=> Fits(h, f)
  BY <1>1, FrameThen
<1>4. \A k \in 1..n : LegalFrame(g, k) <=> LegalFrame(h, k)
  BY <1>2, SameFrame
<1>5. \A i \in 1..n : i \in LegalFrames(g) <=> i \in LegalFrames(h)
  <2> SUFFICES ASSUME NEW i \in 1..n PROVE i \in LegalFrames(g) <=> i \in LegalFrames(h)
    OBVIOUS
  <2>1. \A k \in 1..i : k \in 1..n
    BY <1>1
  <2>2. i \in DOMAIN g /\ i \in DOMAIN h
    BY <1>1, <1>2
  <2> QED
    BY <1>1, <1>4, <2>1, <2>2 DEF LegalFrames
<1>6. n + 1 \in LegalFrames(g) <=> AllRead(h) /\ Fits(h, f)
  <2>1. n + 1 \in DOMAIN g /\ \A k \in 1..(n + 1) : k \in 1..n \/ k = n + 1
    BY <1>1, <1>2
  <2>2. /\ n + 1 \in 1..(n + 1) /\ \A k \in 1..n : k \in 1..(n + 1) /\ k < n + 1
        /\ ~(n + 1 < n + 1)
    BY <1>1
  <2> HIDE DEF n
  <2>3. n + 1 \in LegalFrames(g) <=>
           \A k \in 1..(n + 1) : LegalFrame(g, k) /\ (k < n + 1 => g[k].op # "close")
    BY <2>1 DEF LegalFrames
  <2>4. AllRead(h) <=> \A k \in 1..n : LegalFrame(h, k) /\ h[k].op # "close"
    BY DEF AllRead, n
  <2> QED
    BY <1>1, <1>3, <1>4, <2>1, <2>2, <2>3, <2>4
<1>7. \A i \in 1..n : Opcode(g, i) = Opcode(h, i) /\ Assembled(g, i) = Assembled(h, i)
  BY <1>2, SameParts
<1>8. \A i \in 1..n : q[i] = p[i]
  <2>1. \A i \in 1..n : i \in 1..(n + 1)
    BY <1>1
  <2> QED
    BY <1>1, <1>5, <1>7, <2>1 DEF Given, MessageEnds
<1>9. q[n + 1] = x
  <2>1. n + 1 \in 1..(n + 1)
    BY <1>1
  <2>2. n + 1 \in MessageEnds(g) <=> whole
    BY <1>1, <1>6 DEF MessageEnds, IsData
  <2>3. IsData(f) => Opcode(g, n + 1) = NextOp(h, f) /\ Assembled(g, n + 1) = NextData(h, f)
    <3>1. IsData(f) => Op(g) = NextOp(h, f) /\ Data(g) = NextData(h, f)
      BY FrameThen
    <3> QED
      BY <1>1, <3>1 DEF Op, Data
  <2>4. q[n + 1] = IF n + 1 \in MessageEnds(g)
                   THEN <<[op |-> Opcode(g, n + 1), data |-> Assembled(g, n + 1)]>>
                   ELSE <<>>
    BY <1>1, <2>1 DEF Given
  <2> QED
    BY <2>2, <2>3, <2>4
<1>10. /\ MessagesOf(h) = FlattenSeq(p) /\ p \in Seq(Seq(Msgs)) /\ Len(p) = n
       /\ MessagesOf(h) \in Seq(Msgs)
       /\ MessagesOf(g) = FlattenSeq(q) /\ q \in Seq(Seq(Msgs)) /\ Len(q) = n + 1
  BY <1>1, <1>2, GivenType
<1>11. x \in Seq(Msgs) /\ m \in Msgs
  <2>1. m \in Msgs
    BY FrameThen DEF Msgs
  <2> HIDE DEF m
  <2> QED
    BY <2>1
<1> HIDE DEF m, p, q, x
<1>12. q = Append(p, x)
  <2> DEFINE y == Append(p, x)
  <2>1. /\ y \in Seq(Seq(Msgs)) /\ Len(y) = n + 1 /\ y[n + 1] = x
        /\ \A j \in 1..n : y[j] = p[j]
    BY <1>1, <1>10, <1>11
  <2> HIDE DEF y
  <2>2. \A j \in 1..(n + 1) : q[j] = y[j]
    <3>1. \A j \in 1..(n + 1) : j \in 1..n \/ j = n + 1
      BY <1>1
    <3> QED
      BY <1>8, <1>9, <2>1, <3>1
  <2>3. q = y
    BY <1>10, <2>1, <2>2, SameSeq
  <2> QED
    BY <2>3 DEF y
<1>13. MessagesOf(g) = Join(MessagesOf(h), x)
  BY <1>10, <1>11, <1>12, FlattenAppend
<1>14. whole => MessagesOf(g) = Append(MessagesOf(h), m)
  <2>1. \A s \in Seq(Msgs) : Join(s, <<m>>) = Append(s, m)
    BY <1>11 DEF Join
  <2> QED
    BY <1>10, <1>13, <2>1 DEF x
<1>15. ~whole => MessagesOf(g) = MessagesOf(h)
  BY <1>10, <1>13, JoinNone DEF x
<1> QED
  BY <1>14, <1>15 DEF m

-----------------------------------------------------------------------------
(* The processor decides what the history means.                           *)

\* Whether text ends within a character.
Pending(values) == IF values # <<>> /\ values[Len(values)] = Lead THEN 1 ELSE 0

LEMMA TextThen ==
    ASSUME NEW a \in Seq(Nat), NEW v \in Seq(Nat), NEW fn \in BOOLEAN, LegalText(a, FALSE)
    PROVE  /\ RemainingChars(v, Pending(a)) = Pending(Join(a, v))
           /\ LegalText(Join(a, v), fn)
                <=> ValidUtf8(v, Pending(a)) /\ (fn => Pending(Join(a, v)) = 0)
           /\ LegalText(Join(a, v), fn) => LegalText(Join(a, v), FALSE)
<1> DEFINE m == Len(a)
           n == Len(v)
           s == Join(a, v)
<1>1. /\ m \in Nat /\ n \in Nat /\ s \in Seq(Nat) /\ Len(s) = m + n
      /\ \A i \in 1..m : s[i] = a[i]
      /\ \A i \in 1..n : s[m + i] = v[i]
  <2>1. s \in Seq(Nat) /\ Len(s) = m + n /\ (\A i \in 1..m : s[i] = a[i])
        /\ \A i \in 1..n : s[m + i] = v[i]
    BY JoinIs DEF Join
  <2> QED
    BY <2>1
<1>2. DOMAIN a = 1..m /\ DOMAIN v = 1..n /\ DOMAIN s = 1..(m + n)
  BY <1>1
<1>3. (a = <<>> <=> m = 0) /\ (v = <<>> <=> n = 0) /\ (s = <<>> <=> m + n = 0)
  BY <1>1
<1> HIDE DEF m, n, s
<1>4. Pending(a) = IF m # 0 /\ a[m] = Lead THEN 1 ELSE 0
  BY <1>3 DEF Pending, m
<1>5. Pending(s) = IF m + n # 0 /\ s[m + n] = Lead THEN 1 ELSE 0
  BY <1>1, <1>3 DEF Pending
<1>6. RemainingChars(v, Pending(a)) = Pending(s)
  <2>1. RemainingChars(v, Pending(a)) =
            IF n = 0 THEN Pending(a) ELSE IF v[n] = Lead THEN 1 ELSE 0
    BY <1>3 DEF RemainingChars, n
  <2>2. CASE n = 0
    <3>1. m + n = m /\ (m # 0 => s[m] = a[m])
      BY <1>1, <2>2
    <3> QED
      BY <1>4, <1>5, <2>1, <2>2, <3>1
  <2>3. CASE n # 0
    <3>1. m + n # 0 /\ s[m + n] = v[n]
      BY <1>1, <2>3
    <3> QED
      BY <1>5, <2>1, <2>3, <3>1
  <2> QED
    BY <2>2, <2>3
<1> DEFINE Ok(q, k) == q[k] = Trail <=> k > 1 /\ q[k - 1] = Lead
<1>7. \A k \in 1..m : Ok(s, k)
  <2>1. \A k \in 1..m : Ok(a, k)
    BY <1>2 DEF LegalText
  <2>2. \A k \in 1..m : s[k] = a[k] /\ (k > 1 => s[k - 1] = a[k - 1])
    BY <1>1
  <2> QED
    BY <2>1, <2>2
<1>8. \A i \in 1..n :
         Ok(s, m + i) <=> (v[i] = Trail <=> IF i = 1 THEN Pending(a) = 1 ELSE v[i - 1] = Lead)
  <2> SUFFICES ASSUME NEW i \in 1..n
               PROVE Ok(s, m + i)
                       <=> (v[i] = Trail <=> IF i = 1 THEN Pending(a) = 1 ELSE v[i - 1] = Lead)
    OBVIOUS
  <2>1. s[m + i] = v[i]
    BY <1>1
  <2>2. CASE i = 1
    <3>1. (m + i > 1 <=> m # 0) /\ (m + i) - 1 = m
      BY <1>1, <2>2
    <3>2. m # 0 => m \in 1..m
      BY <1>1
    <3>3. m # 0 => s[m] = a[m]
      BY <1>1, <3>2
    <3> QED
      BY <1>4, <2>1, <2>2, <3>1, <3>3
  <2>3. CASE i # 1
    <3>1. m + i > 1 /\ (m + i) - 1 = m + (i - 1) /\ i - 1 \in 1..n
      BY <1>1, <2>3
    <3>2. s[m + (i - 1)] = v[i - 1]
      BY <1>1, <3>1
    <3> QED
      BY <2>1, <2>3, <3>1, <3>2
  <2> QED
    BY <2>2, <2>3
<1>9. ValidUtf8(v, Pending(a)) <=> \A i \in 1..n : Ok(s, m + i)
  BY <1>2, <1>8 DEF ValidUtf8
<1>10. (\A k \in 1..(m + n) : Ok(s, k)) <=> \A i \in 1..n : Ok(s, m + i)
  <2>1. ASSUME \A i \in 1..n : Ok(s, m + i), NEW k \in 1..(m + n)
        PROVE  Ok(s, k)
    <3>1. CASE k \in 1..m
      BY <1>7, <3>1
    <3>2. CASE k \notin 1..m
      <4>1. k - m \in 1..n /\ m + (k - m) = k
        BY <1>1, <3>2
      <4> HIDE DEF Ok
      <4> QED
        BY <2>1, <4>1
    <3> QED
      BY <3>1, <3>2
  <2>2. \A i \in 1..n : m + i \in 1..(m + n)
    BY <1>1
  <2> HIDE DEF Ok
  <2> QED
    BY <2>1, <2>2
<1>11. \A b \in BOOLEAN : LegalText(s, b) <=>
          (\A k \in 1..(m + n) : Ok(s, k)) /\ (b => Pending(s) = 0)
  <2>1. s = <<>> \/ s[Len(s)] # Lead <=> Pending(s) = 0
    BY DEF Pending
  <2> QED
    BY <1>2, <2>1 DEF LegalText
<1> HIDE DEF Ok
<1>12. LegalText(s, fn) <=> ValidUtf8(v, Pending(a)) /\ (fn => Pending(s) = 0)
  BY <1>9, <1>10, <1>11
<1>13. LegalText(s, fn) => LegalText(s, FALSE)
  BY <1>11
<1> QED
  BY <1>6, <1>12, <1>13 DEF s

\* The reason of a close frame is text from its beginning.
LEMMA ReasonText ==
    ASSUME NEW v \in Seq(Nat)
    PROVE  LegalText(v, TRUE) <=> ValidUtf8(v, 0) /\ RemainingChars(v, 0) = 0
<1>1. <<>> \in Seq(Nat) /\ Pending(<<>>) = 0 /\ Join(<<>>, v) = v
  BY JoinNone DEF Pending
<1>2. LegalText(<<>>, FALSE)
  BY DEF LegalText
<1>3. ASSUME NEW a \in Seq(Nat), LegalText(a, FALSE)
      PROVE  /\ RemainingChars(v, Pending(a)) = Pending(Join(a, v))
             /\ LegalText(Join(a, v), TRUE)
                  <=> ValidUtf8(v, Pending(a)) /\ (TRUE => Pending(Join(a, v)) = 0)
  BY <1>3, TextThen
<1> QED
  BY <1>1, <1>2, <1>3

LEMMA PlainValues ==
    ASSUME NEW v \in Seq(Nat)
    PROVE  Values(Plain(v)) = v
<1> DEFINE p == Plain(v)
<1>1. p = [i \in 1..Len(v) |-> [v |-> v[i], m |-> 0]] /\ Len(v) \in Nat
  BY DEF Plain
<1> HIDE DEF p
<1>2. \A i \in 1..Len(v) : p[i].v = v[i]
  BY <1>1
<1>3. DOMAIN p = 1..Len(v)
  BY <1>1
<1>4. Values(p) = [i \in 1..Len(v) |-> v[i]]
  BY <1>2, <1>3 DEF Values
<1>5. v = [i \in 1..Len(v) |-> v[i]]
  OBVIOUS
<1> QED
  BY <1>4, <1>5 DEF p

Proc(frag, op, data, remaining) ==
    [frag |-> frag, op |-> op, data |-> data, remaining |-> remaining]

Remaining(op, data) == IF op = "text" THEN Pending(data) ELSE 0

\* The processor after a history.
ProcessorOf(h) ==
    IF Opens(h) THEN Proc(Yes, Op(h), Data(h), Remaining(Op(h), Data(h))) ELSE clear

\* What is decoded of a message is legal text.
Decoded(h) == Opens(h) /\ Op(h) = "text" => LegalText(Data(h), FALSE)

LEMMA DecodedThen ==
    ASSUME NEW h \in Seq(Frames), NEW f \in Frames, NEW g, g = Append(h, f),
           Decoded(h), Fits(h, f)
    PROVE  /\ Decoded(g)
           /\ IsData(f) /\ NextOp(h, f) = "text" => LegalText(Prior(h, f), FALSE)
<1>1. /\ Opens(g) = IF IsData(f) THEN ~f.fin ELSE Opens(h)
      /\ Op(g) = IF IsData(f) /\ f.op # "continue" THEN f.op ELSE Op(h)
      /\ Data(g) = IF ~IsData(f) THEN Data(h)
                   ELSE IF f.op = "continue" THEN Join(Data(h), f.values) ELSE f.values
      /\ IsData(f) => Op(g) = NextOp(h, f) /\ Data(g) = NextData(h, f)
      /\ Prior(h, f) \in Seq(Nat) /\ f.values \in Seq(Nat) /\ f.fin \in BOOLEAN
  BY OpensThen, OpThen, DataThen, FrameThen DEF Frames
<1>2. LegalText(<<>>, FALSE)
  BY DEF LegalText
<1>3. IsData(f) /\ NextOp(h, f) = "text" => LegalText(Prior(h, f), FALSE)
  BY <1>2 DEF Fits, Breaks, Prior, NextOp, Decoded
<1>4. CASE ~IsData(f)
  BY <1>1, <1>3, <1>4 DEF Decoded
<1>5. CASE IsData(f)
  <2> SUFFICES ASSUME Op(g) = "text", ~f.fin PROVE LegalText(NextData(h, f), FALSE)
    BY <1>1, <1>3, <1>5 DEF Decoded
  <2>1. LegalText(NextData(h, f), f.fin)
    BY <1>1, <1>5 DEF Fits, Garbles
  <2> QED
    BY <1>1, <1>3, <1>5, <2>1, TextThen DEF NextData
<1> QED
  BY <1>4, <1>5

\* A frame as it was read.
Got(r, f) ==
    /\ r.valid /\ r.op = f.op /\ r.fin = f.fin /\ r.payload = Plain(f.values)

MessageSignal(op, data) == [Signal("message") EXCEPT !.op = op, !.data = data]

ProcsOf(X) == [frag : X, op : X, data : X, remaining : X]

WithData(p, a, b) == [p EXCEPT !.data = a, !.remaining = b]

LEMMA ProcFields ==
    ASSUME NEW frag, NEW op, NEW data, NEW remaining, NEW p,
           p = Proc(frag, op, data, remaining)
    PROVE  /\ p.frag = frag /\ p.op = op /\ p.data = data /\ p.remaining = remaining
           /\ \A X : {frag, op, data, remaining} \subseteq X => p \in ProcsOf(X)
  BY DEF Proc, ProcsOf

LEMMA DataSet ==
    ASSUME NEW frag, NEW op, NEW data, NEW remaining, NEW a, NEW b, NEW p,
           p = Proc(frag, op, data, remaining)
    PROVE  WithData(p, a, b) = Proc(frag, op, a, b)
<1> DEFINE X == {frag, op, data, remaining, a, b}
           t == [p EXCEPT !.data = a, !.remaining = b]
<1>1. p \in ProcsOf(X) /\ a \in X /\ b \in X
  BY ProcFields
<1>2. p.frag = frag /\ p.op = op
  BY ProcFields
<1> HIDE DEF X
<1>3. t \in ProcsOf(X) /\ t.frag = p.frag /\ t.op = p.op /\ t.data = a /\ t.remaining = b
  BY <1>1 DEF ProcsOf
<1> HIDE DEF t
<1>4. t = Proc(t.frag, t.op, t.data, t.remaining)
  BY <1>3 DEF ProcsOf, Proc
<1>5. t = Proc(frag, op, a, b)
  BY <1>2, <1>3, <1>4
<1> QED
  BY <1>5 DEF t, WithData

\* No text has more characters than bytes.
LEMMA CharactersAre ==
    ASSUME NEW v \in Seq(Nat)
    PROVE  Characters(v) \in Nat /\ Characters(v) <= Len(v)
<1> DEFINE n == Len(v)
           C == {k \in 1..n : v[k] # Lead}
<1>1. n \in Nat /\ DOMAIN v = 1..n
  OBVIOUS
<1>2. IsFiniteSet(1..n) /\ Cardinality(1..n) = n
  <2>1. IsFiniteSet(1..n) /\ Cardinality(1..n) = IF 1 > n THEN 0 ELSE n - 1 + 1
    BY <1>1, FS_Interval
  <2> QED
    BY <1>1, <2>1
<1>3. C \subseteq 1..n
  OBVIOUS
<1>4. IsFiniteSet(C) /\ Cardinality(C) <= n
  <2> HIDE DEF C
  <2> QED
    BY <1>2, <1>3, FS_Subset
<1>5. Cardinality(C) \in Nat
  BY <1>4, FS_CardinalityType
<1> QED
  BY <1>1, <1>4, <1>5 DEF Characters

LEMMA AppendThen ==
    ASSUME NEW h \in Seq(Frames), NEW f \in Frames, NEW r, Got(r, f), Decoded(h), IsData(f),
           ~Breaks(h, f), f.n <= MaxFrame,
           NEW fr \in BOOLEAN, ~f.fin => fr
    PROVE  LET q == Proc(fr, NextOp(h, f), Prior(h, f), Remaining(NextOp(h, f), Prior(h, f)))
           IN  AppendFrame(q, r) =
                  IF Exceeds(h, f) THEN Fail(CloseCodeTooMuchData)
                  ELSE IF Garbles(h, f) THEN Fail(CloseCodeWrongDatatype)
                  ELSE IF f.fin
                  THEN Outcome(clear, TRUE, MessageSignal(NextOp(h, f), NextData(h, f)))
                  ELSE Outcome(Proc(Yes, NextOp(h, f), NextData(h, f),
                                    Remaining(NextOp(h, f), NextData(h, f))),
                               FALSE, Signal("none"))
<1> DEFINE op == NextOp(h, f)
           prior == Prior(h, f)
           values == f.values
           data == Join(prior, values)
           rem == Remaining(op, prior)
           q == Proc(fr, op, prior, rem)
           whole  == [q EXCEPT !.data = @ \o Values(r.payload),
                               !.remaining = IF q.op = "text"
                                             THEN RemainingChars(Values(r.payload), @) ELSE 0]
<1>1. prior \in Seq(Nat) /\ values \in Seq(Nat) /\ f.fin \in BOOLEAN /\ data \in Seq(Nat)
  BY Grown, FrameThen DEF Frames, NextData
<1>2. Values(r.payload) = values /\ r.fin = f.fin
  BY <1>1, PlainValues DEF Got
<1>3. op = "text" => LegalText(prior, FALSE)
  <2>1. LegalText(<<>>, FALSE)
    BY DEF LegalText
  <2> QED
    BY <2>1 DEF Breaks, Prior, NextOp, Decoded
<1>4. op = "text" =>
         /\ RemainingChars(values, rem) = Remaining(op, data)
         /\ LegalText(data, f.fin)
              <=> ValidUtf8(values, rem) /\ (f.fin => Remaining(op, data) = 0)
  <2> HIDE DEF prior, values, data
  <2> QED
    BY <1>1, <1>3, TextThen DEF Remaining, data
<1>5. q.op = op /\ q.frag = fr /\ q.data = prior /\ q.remaining = rem
  <2> HIDE DEF op, prior, rem
  <2> QED
    BY DEF Proc
<1>6. whole = Proc(fr, op, data, Remaining(op, data))
  <2>1. whole = Proc(fr, op, prior \o values,
                     IF op = "text" THEN RemainingChars(values, rem) ELSE 0)
    <3> DEFINE a == prior \o values
               b == IF op = "text" THEN RemainingChars(values, rem) ELSE 0
    <3> HIDE DEF op, prior, rem, values
    <3>1. whole = WithData(q, a, b)
      <4> HIDE DEF q
      <4>1. q \in ProcsOf({fr, op, prior, rem})
        BY ProcFields DEF q
      <4> QED
        BY <1>2, <1>5, <4>1 DEF WithData, ProcsOf
    <3> HIDE DEF a, b, whole, q
    <3>2. q = Proc(fr, op, prior, rem)
      BY DEF q
    <3>3. whole = Proc(fr, op, a, b)
      BY <3>1, <3>2, DataSet
    <3> QED
      BY <3>3 DEF a, b
  <2>2. (IF op = "text" THEN RemainingChars(values, rem) ELSE 0) = Remaining(op, data)
    BY <1>4 DEF Remaining
  <2> QED
    BY <2>1, <2>2 DEF Join
<1>7. whole.data = data /\ whole.remaining = Remaining(op, data)
  BY <1>6 DEF Proc
<1> DEFINE Large == MessageLength(q) + Len(Values(r.payload)) > MaxMessage
           Bad == q.op = "text" /\ ( \/ ~ValidUtf8(Values(r.payload), q.remaining)
                                     \/ r.fin /\ whole.remaining # 0 )
<1>8. /\ Large => AppendFrame(q, r) = Fail(CloseCodeTooMuchData)
      /\ ~Large /\ Bad => AppendFrame(q, r) = Fail(CloseCodeWrongDatatype)
      /\ ~Large /\ ~Bad /\ r.fin =>
            AppendFrame(q, r) = Outcome(clear, TRUE, MessageSignal(q.op, whole.data))
      /\ ~Large /\ ~Bad /\ ~r.fin => AppendFrame(q, r) = Outcome(whole, FALSE, Signal("none"))
  <2> HIDE DEF op, rem, prior
  <2> QED
    BY DEF AppendFrame, MessageSignal
<1>9. Large <=> Exceeds(h, f)
  <2>1. MessageLength(q) = IF op = "text" THEN Characters(prior) ELSE Len(prior)
    BY <1>5 DEF MessageLength
  <2>2. Exceeds(h, f) <=> NextSize(h, f) > MaxMessage
    <3>1. ~(f.n > MaxFrame)
      BY LimitsAssumption DEF Frames
    <3> QED
      BY <3>1 DEF Exceeds
  <2>3. NextSize(h, f) = Len(values) + MessageLength(q)
    BY <2>1 DEF NextSize
  <2>4. Characters(prior) \in Nat /\ Len(prior) \in Nat /\ Len(values) \in Nat
    BY <1>1, CharactersAre
  <2>5. MessageLength(q) \in Nat
    BY <2>1, <2>4
  <2>6. Large <=> MessageLength(q) + Len(values) > MaxMessage
    BY <1>2
  <2> HIDE DEF q, values, Large
  <2> QED
    BY <2>2, <2>3, <2>4, <2>5, <2>6
<1>10. Bad <=> Garbles(h, f)
  <2>1. Garbles(h, f) <=> op = "text" /\ ~LegalText(data, f.fin)
    BY DEF Garbles, NextData
  <2>2. Bad <=> op = "text" /\ (~ValidUtf8(values, rem) \/ (f.fin /\ whole.remaining # 0))
    <3> HIDE DEF op, rem, values, whole, q
    <3> QED
      BY <1>2, <1>5
  <2> HIDE DEF op, rem, values, data, whole, Bad
  <2> QED
    BY <1>4, <1>7, <2>1, <2>2
<1>11. ~f.fin => whole = Proc(Yes, op, data, Remaining(op, data))
  <2>1. ~f.fin => fr = Yes
    BY DEF Yes
  <2> HIDE DEF whole, op, data
  <2> QED
    BY <1>6, <2>1
<1> HIDE DEF q, whole, values, op, rem, data, Large, Bad
<1>12. AppendFrame(q, r) =
          IF Exceeds(h, f) THEN Fail(CloseCodeTooMuchData)
          ELSE IF Garbles(h, f) THEN Fail(CloseCodeWrongDatatype)
          ELSE IF f.fin
          THEN Outcome(clear, TRUE, MessageSignal(op, data))
          ELSE Outcome(Proc(Yes, op, data, Remaining(op, data)), FALSE, Signal("none"))
  BY <1>2, <1>5, <1>7, <1>8, <1>9, <1>10, <1>11
<1> QED
  BY <1>12 DEF q, op, rem, data, values, NextData

WithOp(p, a, b) == [p EXCEPT !.op = a, !.frag = b]

LEMMA OpSet ==
    ASSUME NEW frag, NEW op, NEW data, NEW remaining, NEW a, NEW b, NEW p,
           p = Proc(frag, op, data, remaining)
    PROVE  WithOp(p, a, b) = Proc(b, a, data, remaining)
<1> DEFINE X == {frag, op, data, remaining, a, b}
           t == [p EXCEPT !.op = a, !.frag = b]
<1>1. p \in ProcsOf(X) /\ a \in X /\ b \in X
  BY ProcFields
<1>2. p.data = data /\ p.remaining = remaining
  BY ProcFields
<1> HIDE DEF X
<1>3. t \in ProcsOf(X) /\ t.data = p.data /\ t.remaining = p.remaining /\ t.op = a /\ t.frag = b
  BY <1>1 DEF ProcsOf
<1> HIDE DEF t
<1>4. t = Proc(t.frag, t.op, t.data, t.remaining)
  BY <1>3 DEF ProcsOf, Proc
<1>5. t = Proc(b, a, data, remaining)
  BY <1>2, <1>3, <1>4
<1> QED
  BY <1>5 DEF t, WithOp

\* The processor that AppendFrame is given.
Started(p, f) == IF p.frag THEN p ELSE [p EXCEPT !.op = f.op, !.frag = ~f.fin]

LEMMA StartedIs ==
    ASSUME NEW h \in Seq(Frames), NEW f \in Frames, NEW r, Got(r, f), IsData(f), ~Breaks(h, f)
    PROVE  LET fr == IF Opens(h) THEN Yes ELSE ~f.fin
           IN  Started(ProcessorOf(h), r)
                  = Proc(fr, NextOp(h, f), Prior(h, f), Remaining(NextOp(h, f), Prior(h, f)))
<1>1. Opens(h) <=> f.op = "continue"
  BY DEF Breaks
<1>2. CASE Opens(h)
  <2>1. ProcessorOf(h) = Proc(Yes, Op(h), Data(h), Remaining(Op(h), Data(h)))
    BY <1>2 DEF ProcessorOf
  <2>2. ProcessorOf(h).frag = Yes
    BY <2>1, ProcFields
  <2>3. ProcessorOf(h).frag
    BY <2>2, Zenon DEF Yes
  <2> QED
    BY <1>1, <1>2, <2>1, <2>3 DEF Started, NextOp, Prior
<1>3. CASE ~Opens(h)
  <2> DEFINE b == ~r.fin
  <2>1. ProcessorOf(h) = Proc(No, "close", <<>>, 0)
    BY <1>3 DEF ProcessorOf, clear, Proc, No
  <2>7. ProcessorOf(h).frag = No
    BY <2>1, ProcFields
  <2>2. ~ProcessorOf(h).frag
    BY <2>7, Zenon DEF No
  <2>3. Started(ProcessorOf(h), r) = WithOp(ProcessorOf(h), r.op, b)
    BY <2>2 DEF Started, WithOp
  <2>4. b = ~f.fin /\ r.op = f.op
    BY DEF Got
  <2> HIDE DEF b
  <2>5. Started(ProcessorOf(h), r) = Proc(b, f.op, <<>>, 0)
    BY <2>1, <2>3, <2>4, OpSet
  <2>6. Remaining(f.op, <<>>) = 0
    BY DEF Remaining, Pending
  <2> QED
    BY <1>1, <1>3, <2>4, <2>5, <2>6 DEF NextOp, Prior
<1> QED
  BY <1>2, <1>3

LEMMA OpensBool ==
    ASSUME NEW h
    PROVE  Opens(h) \in BOOLEAN
  BY DEF Opens, OpenBefore

\* What process() makes of a data frame is what the history says of it.
LEMMA DataFrameThen ==
    ASSUME NEW h \in Seq(Frames), NEW f \in Frames, NEW g, g = Append(h, f),
           NEW r, Got(r, f), Decoded(h), IsData(f), WellFormed(f), f.n <= MaxFrame
    PROVE  processFrame(ProcessorOf(h), r) =
              IF Breaks(h, f) THEN Fail(CloseCodeProtocolError)
              ELSE IF Exceeds(h, f) THEN Fail(CloseCodeTooMuchData)
              ELSE IF Garbles(h, f) THEN Fail(CloseCodeWrongDatatype)
              ELSE IF f.fin
              THEN Outcome(ProcessorOf(g), TRUE, MessageSignal(NextOp(h, f), NextData(h, f)))
              ELSE Outcome(ProcessorOf(g), FALSE, Signal("none"))
<1> DEFINE p == ProcessorOf(h)
           op == NextOp(h, f)
           q == Proc(IF Opens(h) THEN Yes ELSE ~f.fin, op, Prior(h, f), Remaining(op, Prior(h, f)))
<1>1. processFrame(p, r) = processDataFrame(p, r)
  BY DEF processFrame, Got, IsData
<1>2. p.frag = Opens(h)
  <2>1. CASE Opens(h)
    <3>1. p = Proc(Yes, Op(h), Data(h), Remaining(Op(h), Data(h)))
      BY <2>1 DEF ProcessorOf
    <3> HIDE DEF p
    <3>2. p.frag = Yes
      BY <3>1, ProcFields
    <3> QED
      BY <2>1, <3>2, OpensBool, Zenon DEF Yes
  <2>2. CASE ~Opens(h)
    <3>1. p = Proc(No, "close", <<>>, 0)
      BY <2>2 DEF ProcessorOf, clear, Proc, No
    <3> HIDE DEF p
    <3>2. p.frag = No
      BY <3>1, ProcFields
    <3> QED
      BY <2>2, <3>2, OpensBool, Zenon DEF No
  <2> QED
    BY <2>1, <2>2
<1>3. r.op = f.op
  BY DEF Got
<1>4. Breaks(h, f) <=> (f.op = "continue") # Opens(h)
  BY DEF Breaks
<1>5. ASSUME Breaks(h, f)
      PROVE  processDataFrame(p, r) = Fail(CloseCodeProtocolError)
  <2> HIDE DEF p
  <2>1. p.frag # (r.op = "continue")
    BY <1>2, <1>3, <1>4, <1>5, OpensBool
  <2> QED
    BY <2>1 DEF processDataFrame
<1>6. ASSUME ~Breaks(h, f)
      PROVE  processDataFrame(p, r) = AppendFrame(q, r)
  <2>1. Started(p, r) = q
    BY <1>6, StartedIs
  <2> HIDE DEF p, q
  <2>2. ~(p.frag # (r.op = "continue"))
    BY <1>2, <1>3, <1>4, <1>6, OpensBool
  <2>3. processDataFrame(p, r) = AppendFrame(Started(p, r), r)
    BY <2>2 DEF processDataFrame, Started
  <2> QED
    BY <2>1, <2>3
<1>7. ASSUME ~Breaks(h, f)
      PROVE  AppendFrame(q, r) =
                  IF Exceeds(h, f) THEN Fail(CloseCodeTooMuchData)
                  ELSE IF Garbles(h, f) THEN Fail(CloseCodeWrongDatatype)
                  ELSE IF f.fin
                  THEN Outcome(clear, TRUE, MessageSignal(op, NextData(h, f)))
                  ELSE Outcome(Proc(Yes, op, NextData(h, f), Remaining(op, NextData(h, f))),
                               FALSE, Signal("none"))
  <2> DEFINE fr == IF Opens(h) THEN Yes ELSE ~f.fin
  <2>1. fr \in BOOLEAN /\ (~f.fin => fr)
    BY DEF Yes
  <2> HIDE DEF fr
  <2>2. AppendFrame(Proc(fr, op, Prior(h, f), Remaining(op, Prior(h, f))), r) =
                  IF Exceeds(h, f) THEN Fail(CloseCodeTooMuchData)
                  ELSE IF Garbles(h, f) THEN Fail(CloseCodeWrongDatatype)
                  ELSE IF f.fin
                  THEN Outcome(clear, TRUE, MessageSignal(op, NextData(h, f)))
                  ELSE Outcome(Proc(Yes, op, NextData(h, f), Remaining(op, NextData(h, f))),
                               FALSE, Signal("none"))
    BY <1>7, <2>1, AppendThen
  <2> QED
    BY <2>2 DEF fr
<1>8. ProcessorOf(g) = IF f.fin THEN clear
                       ELSE Proc(Yes, op, NextData(h, f), Remaining(op, NextData(h, f)))
  <2>1. Opens(g) = ~f.fin
    BY OpensThen
  <2>2. Op(g) = op /\ Data(g) = NextData(h, f)
    BY FrameThen
  <2> QED
    BY <2>1, <2>2 DEF ProcessorOf
<1> HIDE DEF p, q, op
<1>9. processFrame(p, r) =
         IF Breaks(h, f) THEN Fail(CloseCodeProtocolError)
         ELSE IF Exceeds(h, f) THEN Fail(CloseCodeTooMuchData)
         ELSE IF Garbles(h, f) THEN Fail(CloseCodeWrongDatatype)
         ELSE IF f.fin
         THEN Outcome(ProcessorOf(g), TRUE, MessageSignal(op, NextData(h, f)))
         ELSE Outcome(ProcessorOf(g), FALSE, Signal("none"))
  BY <1>1, <1>5, <1>6, <1>7, <1>8
<1> QED
  BY <1>9 DEF p, op

\* A control frame leaves the message under way alone.
LEMMA ControlFrameThen ==
    ASSUME NEW h \in Seq(Frames), NEW f \in Frames, NEW g, g = Append(h, f),
           NEW r, Got(r, f), ~IsData(f), WellFormed(f), f.n <= MaxFrame
    PROVE  /\ Fits(h, f) /\ f.op \in {"close", "ping", "pong"} /\ f.fin /\ f.n <= Len7
           /\ ProcessorOf(g) = ProcessorOf(h)
           /\ f.op = "close" =>
                processFrame(ProcessorOf(h), r)
                   = Outcome(ProcessorOf(h), TRUE, CloseSignal(f.values))
           /\ f.op # "close" =>
                processFrame(ProcessorOf(h), r)
                   = Outcome(ProcessorOf(h), TRUE, [Signal(f.op) EXCEPT !.data = f.values])
<1>1. f.op \in {"close", "ping", "pong"} /\ f.fin /\ f.form = "7" /\ f.n <= Len7
  BY DEF WellFormed, IsData, Control, isOpCodeReserved
<1>2. Fits(h, f)
  <2>1. ~(f.n > MaxFrame)
    BY LimitsAssumption DEF Frames
  <2> QED
    BY <2>1 DEF Fits, Breaks, Exceeds, Garbles
<1>3. ProcessorOf(g) = ProcessorOf(h)
  BY OpensThen, OpThen, DataThen DEF ProcessorOf
<1>4. f.values \in Seq(Nat)
  BY DEF Frames
<1>5. Values(r.payload) = f.values /\ r.op = f.op /\ r.valid
  BY <1>4, PlainValues DEF Got
<1>6. processFrame(ProcessorOf(h), r) = processControlFrame(ProcessorOf(h), r)
  BY <1>5 DEF processFrame, IsData
<1>7. processFrame(ProcessorOf(h), r) =
         Outcome(ProcessorOf(h), TRUE, IF f.op = "close" THEN CloseSignal(f.values)
                                       ELSE [Signal(f.op) EXCEPT !.data = f.values])
  BY <1>5, <1>6 DEF processControlFrame
<1> QED
  BY <1>1, <1>2, <1>3, <1>7
=============================================================================
